-------------------------- MODULE BlobStoreProofs ---------------------------
(***************************************************************************)
(* What holds of BlobStore for every set of goroutines, digests and        *)
(* contexts, every number of permits and every clean or damaged store.     *)
(*                                                                         *)
(* The properties are not inductive by themselves; Invariant is.  It adds  *)
(* which call a goroutine at each step is in, which goroutine each flight  *)
(* belongs to, and what a temp file about to be renamed holds.             *)
(***************************************************************************)
EXTENDS BlobStore, FiniteSetTheorems, TLAPS

(* A goroutine outside "idle" is in a call about some digest; only         *)
(* WriteBlob joins, waits for and returns from flights, only Push          *)
(* discards.                                                               *)
CallInv ==
  \A p \in Proc :
    /\ pc[p] # "idle" => want[p] \in Digest /\ op[p] \in {"write", "push"}
    /\ pc[p] \in {"join", "wait", "return"} => op[p] = "write"

(* A call has a result only from the moment it is decided.                 *)
ResultInv ==
  \A p \in Proc :
    pc[p] \notin {"exit", "release", "return", "done"} => res[p] = "none"

(* The leader of a digest's flight is the goroutine that downloads it.     *)
FlightInv ==
  \A p \in Proc :
    op[p] = "write" /\ pc[p] \in Leading => flight[want[p]] = p

(* A temp file is renamed only after it was checked and fsync'd.           *)
TempInv ==
  \A p \in Proc : pc[p] = "rename" => tmp[p] = "good" /\ p \in synced

(* Renamed data is always on stable storage, a clean store stays clean,    *)
(* and what a power loss falls back to never has content the path lacks.   *)
FileInv ==
  /\ unflushed = {}
  /\ InitFiles \subseteq Clean => \A d \in Digest : file[d] \in Clean /\ disk[d] \in Clean
  /\ \A d \in Digest : disk[d] = "good" => file[d] = "good"

(* Push discards what it is sent only where a file exists.                 *)
DiscardInv ==
  \A p \in Proc :
    pc[p] = "discard" => op[p] = "push" /\ file[want[p]] # "absent"

(* The permits in use and the write counter agree with the goroutines.     *)
Holders == {p \in Proc : pc[p] \in Holding}
Writers == {p \in Proc : pc[p] \in Counted}

CountInv ==
  /\ held = Holders
  /\ inflight = Cardinality(Writers)
  /\ Cardinality(held) <= Permits
  /\ peak <= Permits

ControlInv == CallInv /\ ResultInv /\ FlightInv /\ TempInv /\ DiscardInv

Invariant ==
  /\ TypeOK
  /\ ControlInv
  /\ FileInv
  /\ CountInv
  /\ OkMeansStored

-----------------------------------------------------------------------------
(* The strengthened invariant holds when the store is opened.              *)
LEMMA InitInvariant == Init => Invariant
<1> SUFFICES ASSUME Init PROVE Invariant
  OBVIOUS
<1>1. InitFiles \subseteq FileState /\ Permits \in Nat \ {0}
  BY BlobAssumption DEF BlobAssumption
<1>2. TypeOK
  BY <1>1 DEF Init, TypeOK, PC, Leading, Holding, Counted, Writing, Outcome
<1>3. CallInv /\ ResultInv /\ FlightInv /\ TempInv /\ FileInv /\ DiscardInv /\ OkMeansStored
  BY DEF Init, CallInv, ResultInv, FlightInv, TempInv, FileInv, DiscardInv, OkMeansStored, Leading, Holding, Counted, Writing
<1>4. Holders = {} /\ Writers = {}
  BY DEF Init, Holders, Writers, Holding, Counted, Writing
<1>5. CountInv
  BY <1>1, <1>4, FS_EmptySet DEF Init, CountInv
<1> QED
  BY <1>2, <1>3, <1>5 DEF Invariant, ControlInv

(* Every step keeps the variables in their ranges; that the write counter  *)
(* does not go below zero rests on CountInv.                               *)
LEMMA TypeStep == TypeOK /\ CallInv /\ CountInv /\ [Next]_vars => TypeOK'
<1> SUFFICES ASSUME TypeOK, CallInv, CountInv, [Next]_vars PROVE TypeOK'
  OBVIOUS
<1> USE DEF TypeOK, CallInv, PC, Leading, Holding, Counted, Writing, Outcome, FileState, callVars, semVars, fileVars
<1>1. ASSUME NEW p \in Proc, NEW d \in Digest, WriteBlob(p, d) PROVE TypeOK'
  BY <1>1 DEF WriteBlob, Goto, Finish
<1>2. ASSUME NEW p \in Proc, NEW d \in Digest, Push(p, d) PROVE TypeOK'
  BY <1>2 DEF Push, Goto
<1>3. ASSUME NEW p \in Proc, FastPath(p) PROVE TypeOK'
  BY <1>3 DEF FastPath, Goto, Finish
<1>4. ASSUME NEW p \in Proc, Lead(p) PROVE TypeOK'
  BY <1>4 DEF Lead, Goto
<1>5. ASSUME NEW p \in Proc, JoinFlight(p) PROVE TypeOK'
  BY <1>5 DEF JoinFlight, Goto
<1>6. ASSUME NEW p \in Proc, Return(p) PROVE TypeOK'
  <2>1. pc' \in [Proc -> PC] /\ res' \in [Proc -> Outcome \cup {"none"}] /\ retried' \in [Proc -> BOOLEAN]
    <3>1. CASE Goto(p, "join") /\ res' = [res EXCEPT ![p] = "none"] /\ retried' = [retried EXCEPT ![p] = TRUE]
      BY <3>1 DEF Goto
    <3>2. CASE Goto(p, "done") /\ UNCHANGED <<res, retried>>
      BY <3>2 DEF Goto
    <3> QED
      BY ONLY <1>6, <3>1, <3>2 DEF Return
  <2>2. UNCHANGED <<callVars, tmp, synced, flight, semVars, fileVars, ctx>>
    BY <1>6 DEF Return
  <2> QED
    BY <2>1, <2>2
<1>7. ASSUME NEW p \in Proc, PushStat(p) PROVE TypeOK'
  BY <1>7 DEF PushStat, Goto
<1>8. ASSUME NEW p \in Proc, Discard(p) PROVE TypeOK'
  BY <1>8 DEF Discard, Goto, Finish
<1>9. ASSUME NEW p \in Proc, Acquire(p) PROVE TypeOK'
  BY <1>9 DEF Acquire, Goto
<1>10. ASSUME NEW p \in Proc, AcquireCanceled(p) PROVE TypeOK'
  BY <1>10 DEF AcquireCanceled, Goto, Finish, EndFlight
<1>11. ASSUME NEW p \in Proc, EnterBlob(p) PROVE TypeOK'
  BY <1>11 DEF EnterBlob, Goto
<1>12. ASSUME NEW p \in Proc, Recheck(p) PROVE TypeOK'
  BY <1>12 DEF Recheck, Goto, Leave
<1>13. ASSUME NEW p \in Proc, CreateTemp(p) PROVE TypeOK'
  BY <1>13 DEF CreateTemp, Goto
<1>14. ASSUME NEW p \in Proc, Stream(p) PROVE TypeOK'
  BY <1>14 DEF Stream, Goto
<1>15. ASSUME NEW p \in Proc, StreamCanceled(p) PROVE TypeOK'
  BY <1>15 DEF StreamCanceled, Goto, Leave
<1>16. ASSUME NEW p \in Proc, Verify(p) PROVE TypeOK'
  BY <1>16 DEF Verify, Goto, Leave
<1>17. ASSUME NEW p \in Proc, Rename(p) PROVE TypeOK'
  BY <1>17 DEF Rename, Goto, Leave
<1>18. ASSUME NEW p \in Proc, IOError(p) PROVE TypeOK'
  BY <1>18 DEF IOError, Goto, Leave, Finish
<1>19. ASSUME NEW p \in Proc, ExitBlob(p) PROVE TypeOK'
  <2>1. IsFiniteSet(Writers) /\ p \in Writers
    BY <1>19, BlobAssumption, FS_Subset DEF ExitBlob, Writers, BlobAssumption
  <2>2. Cardinality(Writers \ {p}) \in Nat /\ Cardinality(Writers \ {p}) = Cardinality(Writers) - 1
    BY <2>1, FS_RemoveElement, FS_CardinalityType
  <2>3. inflight' \in Nat
    BY <2>2, <1>19 DEF ExitBlob, CountInv
  <2> QED
    BY <2>3, <1>19 DEF ExitBlob, Goto
<1>20. ASSUME NEW p \in Proc, Release(p) PROVE TypeOK'
  BY <1>20 DEF Release, Goto, EndFlight
<1>21. ASSUME NEW p \in Proc, Consume(p) PROVE TypeOK'
  BY <1>21 DEF Consume, Goto
<1>22. ASSUME NEW c \in Ctx, Cancel(c) \/ FreshCtx(c) PROVE TypeOK'
  BY <1>22 DEF Cancel, FreshCtx
<1>23. CASE Kill
  BY <1>23 DEF Kill, Restart
<1>24. CASE PowerLoss
  BY <1>24 DEF PowerLoss, Restart
<1>25. CASE UNCHANGED vars
  BY <1>25 DEF vars
<1> QED
  BY <1>1, <1>2, <1>3, <1>4, <1>5, <1>6, <1>7, <1>8, <1>9, <1>10, <1>11, <1>12, <1>13,
     <1>14, <1>15, <1>16, <1>17, <1>18, <1>19, <1>20, <1>21, <1>22, <1>23, <1>24, <1>25
  DEF Next, Step

(* A goroutine enters a call with a digest and keeps it to the end; a      *)
(* result is set only where the call is left; Lead takes a flight only     *)
(* when nobody has it and only its leader ends it; only Verify reaches the *)
(* rename; no step of the program empties a final path.                    *)
LEMMA ControlStep == TypeOK /\ ControlInv /\ [Next]_vars => ControlInv'
<1> SUFFICES ASSUME TypeOK, ControlInv, [Next]_vars PROVE ControlInv'
  OBVIOUS
<1> USE DEF TypeOK, ControlInv, CallInv, ResultInv, FlightInv, TempInv, DiscardInv, PC, Leading, Holding, Counted, Writing, Outcome, FileState, callVars, semVars, fileVars
<1>1. ASSUME NEW p \in Proc, NEW d \in Digest, WriteBlob(p, d) PROVE ControlInv'
  BY <1>1 DEF WriteBlob, Goto, Finish
<1>2. ASSUME NEW p \in Proc, NEW d \in Digest, Push(p, d) PROVE ControlInv'
  BY <1>2 DEF Push, Goto
<1>3. ASSUME NEW p \in Proc, FastPath(p) PROVE ControlInv'
  BY <1>3 DEF FastPath, Goto, Finish
<1>4. ASSUME NEW p \in Proc, Lead(p) PROVE ControlInv'
  BY <1>4, BlobAssumption DEF Lead, Goto, BlobAssumption
<1>5. ASSUME NEW p \in Proc, JoinFlight(p) PROVE ControlInv'
  BY <1>5 DEF JoinFlight, Goto
<1>6. ASSUME NEW p \in Proc, Return(p) PROVE ControlInv'
  BY <1>6 DEF Return, Goto
<1>7. ASSUME NEW p \in Proc, PushStat(p) PROVE ControlInv'
  BY <1>7 DEF PushStat, Goto
<1>8. ASSUME NEW p \in Proc, Discard(p) PROVE ControlInv'
  BY <1>8 DEF Discard, Goto, Finish
<1>9. ASSUME NEW p \in Proc, Acquire(p) PROVE ControlInv'
  BY <1>9 DEF Acquire, Goto
<1>10. ASSUME NEW p \in Proc, AcquireCanceled(p) PROVE ControlInv'
  BY <1>10 DEF AcquireCanceled, Goto, Finish, EndFlight
<1>11. ASSUME NEW p \in Proc, EnterBlob(p) PROVE ControlInv'
  BY <1>11 DEF EnterBlob, Goto
<1>12. ASSUME NEW p \in Proc, Recheck(p) PROVE ControlInv'
  BY <1>12 DEF Recheck, Goto, Leave
<1>13. ASSUME NEW p \in Proc, CreateTemp(p) PROVE ControlInv'
  BY <1>13 DEF CreateTemp, Goto
<1>14. ASSUME NEW p \in Proc, Stream(p) PROVE ControlInv'
  BY <1>14 DEF Stream, Goto
<1>15. ASSUME NEW p \in Proc, StreamCanceled(p) PROVE ControlInv'
  BY <1>15 DEF StreamCanceled, Goto, Leave
<1>16. ASSUME NEW p \in Proc, Verify(p) PROVE ControlInv'
  BY <1>16 DEF Verify, Goto, Leave
<1>17. ASSUME NEW p \in Proc, Rename(p) PROVE ControlInv'
  BY <1>17 DEF Rename, Goto, Leave
<1>18. ASSUME NEW p \in Proc, IOError(p) PROVE ControlInv'
  BY <1>18 DEF IOError, Goto, Leave, Finish
<1>19. ASSUME NEW p \in Proc, ExitBlob(p) PROVE ControlInv'
  BY <1>19 DEF ExitBlob, Goto
<1>20. ASSUME NEW p \in Proc, Release(p) PROVE ControlInv'
  BY <1>20 DEF Release, Goto, EndFlight
<1>21. ASSUME NEW p \in Proc, Consume(p) PROVE ControlInv'
  BY <1>21 DEF Consume, Goto
<1>22. ASSUME NEW c \in Ctx, Cancel(c) \/ FreshCtx(c) PROVE ControlInv'
  BY <1>22 DEF Cancel, FreshCtx
<1>23. CASE Kill
  BY <1>23 DEF Kill, Restart
<1>24. CASE PowerLoss
  BY <1>24 DEF PowerLoss, Restart
<1>25. CASE UNCHANGED vars
  BY <1>25 DEF vars
<1> QED
  BY <1>1, <1>2, <1>3, <1>4, <1>5, <1>6, <1>7, <1>8, <1>9, <1>10, <1>11, <1>12, <1>13,
     <1>14, <1>15, <1>16, <1>17, <1>18, <1>19, <1>20, <1>21, <1>22, <1>23, <1>24, <1>25
  DEF Next, Step

(* Only Rename and a power loss change what a final path holds.            *)
LEMMA FileStep == TypeOK /\ TempInv /\ FileInv /\ [Next]_vars => FileInv'
<1> SUFFICES ASSUME TypeOK, TempInv, FileInv, [Next]_vars PROVE FileInv'
  OBVIOUS
<1>1. ASSUME NEW p \in Proc, Rename(p) PROVE FileInv'
  BY <1>1 DEF Rename, TypeOK, TempInv, FileInv, Clean
<1>2. CASE PowerLoss
  BY <1>2 DEF PowerLoss, TypeOK, FileInv, Clean
<1>3. CASE UNCHANGED fileVars
  BY <1>3 DEF FileInv, fileVars
<1> QED
  BY <1>1, <1>2, <1>3
  DEF Next, Step, WriteBlob, Push, FastPath, Lead, JoinFlight, Return, PushStat, Discard, Acquire,
      AcquireCanceled, EnterBlob, Recheck, CreateTemp, Stream, StreamCanceled, Verify, IOError,
      ExitBlob, Release, Consume, Cancel, FreshCtx, Kill, fileVars, vars

(* Acquire and Release are the only steps that change who holds a permit,  *)
(* EnterBlob and ExitBlob the only ones that change who is counted; a      *)
(* goroutine is counted only while it holds a permit.                      *)
LEMMA CountStep == TypeOK /\ CallInv /\ CountInv /\ [Next]_vars => CountInv'
<1> SUFFICES ASSUME TypeOK, CallInv, CountInv, [Next]_vars PROVE CountInv'
  OBVIOUS
<1> USE DEF TypeOK, CallInv, PC, Leading, Holding, Counted, Writing, Outcome, FileState, callVars, semVars, fileVars
<1>fin. /\ IsFiniteSet(Holders) /\ Cardinality(Holders) \in Nat
         /\ IsFiniteSet(Writers) /\ Cardinality(Writers) \in Nat
         /\ held = Holders /\ Permits \in Nat
  BY BlobAssumption, FS_Subset, FS_CardinalityType DEF BlobAssumption, Holders, Writers, CountInv
<1>same. ASSUME Holders' = Holders, Writers' = Writers, UNCHANGED semVars PROVE CountInv'
  BY <1>same DEF CountInv
<1>1. ASSUME NEW p \in Proc, NEW d \in Digest, WriteBlob(p, d) PROVE CountInv'
  BY <1>same, <1>1 DEF WriteBlob, Goto, Finish, Holders, Writers
<1>2. ASSUME NEW p \in Proc, NEW d \in Digest, Push(p, d) PROVE CountInv'
  BY <1>same, <1>2 DEF Push, Goto, Holders, Writers
<1>3. ASSUME NEW p \in Proc, FastPath(p) PROVE CountInv'
  BY <1>same, <1>3 DEF FastPath, Goto, Finish, Holders, Writers
<1>4. ASSUME NEW p \in Proc, Lead(p) PROVE CountInv'
  BY <1>same, <1>4 DEF Lead, Goto, Holders, Writers
<1>5. ASSUME NEW p \in Proc, JoinFlight(p) PROVE CountInv'
  BY <1>same, <1>5 DEF JoinFlight, Goto, Holders, Writers
<1>6. ASSUME NEW p \in Proc, Return(p) PROVE CountInv'
  BY <1>same, <1>6 DEF Return, Goto, Holders, Writers
<1>7. ASSUME NEW p \in Proc, PushStat(p) PROVE CountInv'
  BY <1>same, <1>7 DEF PushStat, Goto, Holders, Writers
<1>8. ASSUME NEW p \in Proc, Discard(p) PROVE CountInv'
  BY <1>same, <1>8 DEF Discard, Goto, Finish, Holders, Writers
<1>9. ASSUME NEW p \in Proc, Acquire(p) PROVE CountInv'
  <2>1. Holders' = Holders \cup {p} /\ Writers' = Writers /\ p \notin Holders
    BY <1>9 DEF Acquire, Goto, Holders, Writers
  <2>2. held' = Holders' /\ Cardinality(held) < Permits
    BY <2>1, <1>fin, <1>9 DEF Acquire
  <2>3. Cardinality(Holders') = Cardinality(Holders) + 1
    BY <2>1, <1>fin, FS_AddElement
  <2>4. Cardinality(held') <= Permits
    BY <2>2, <2>3, <1>fin
  <2> QED
    BY <2>1, <2>2, <2>4, <1>9 DEF Acquire, Goto, CountInv
<1>10. ASSUME NEW p \in Proc, AcquireCanceled(p) PROVE CountInv'
  BY <1>same, <1>10 DEF AcquireCanceled, Goto, Finish, EndFlight, Holders, Writers
<1>11. ASSUME NEW p \in Proc, EnterBlob(p) PROVE CountInv'
  <2>1. Holders' = Holders /\ Writers' = Writers \cup {p} /\ p \notin Writers
    BY <1>11 DEF EnterBlob, Goto, Holders, Writers
  <2>2. Cardinality(Writers') = Cardinality(Writers) + 1
    BY <2>1, <1>fin, FS_AddElement
  <2>3. Writers' \subseteq Holders
    BY <2>1, <1>11 DEF EnterBlob, Holders, Writers
  <2>4. Cardinality(Writers') <= Cardinality(Holders)
    BY <2>3, <1>fin, FS_Subset
  <2> QED
    BY <2>1, <2>2, <2>4, <1>fin, <1>11 DEF EnterBlob, Goto, CountInv
<1>12. ASSUME NEW p \in Proc, Recheck(p) PROVE CountInv'
  BY <1>same, <1>12 DEF Recheck, Goto, Leave, Holders, Writers
<1>13. ASSUME NEW p \in Proc, CreateTemp(p) PROVE CountInv'
  BY <1>same, <1>13 DEF CreateTemp, Goto, Holders, Writers
<1>14. ASSUME NEW p \in Proc, Stream(p) PROVE CountInv'
  BY <1>same, <1>14 DEF Stream, Goto, Holders, Writers
<1>15. ASSUME NEW p \in Proc, StreamCanceled(p) PROVE CountInv'
  BY <1>same, <1>15 DEF StreamCanceled, Goto, Leave, Holders, Writers
<1>16. ASSUME NEW p \in Proc, Verify(p) PROVE CountInv'
  BY <1>same, <1>16 DEF Verify, Goto, Leave, Holders, Writers
<1>17. ASSUME NEW p \in Proc, Rename(p) PROVE CountInv'
  BY <1>same, <1>17 DEF Rename, Goto, Leave, Holders, Writers
<1>18. ASSUME NEW p \in Proc, IOError(p) PROVE CountInv'
  BY <1>same, <1>18 DEF IOError, Goto, Leave, Finish, Holders, Writers
<1>19. ASSUME NEW p \in Proc, ExitBlob(p) PROVE CountInv'
  <2>1. Holders' = Holders /\ Writers' = Writers \ {p} /\ p \in Writers
    BY <1>19 DEF ExitBlob, Goto, Holders, Writers
  <2>2. Cardinality(Writers') = Cardinality(Writers) - 1
    BY <2>1, <1>fin, FS_RemoveElement
  <2> QED
    BY <2>1, <2>2, <1>19 DEF ExitBlob, Goto, CountInv
<1>20. ASSUME NEW p \in Proc, Release(p) PROVE CountInv'
  <2>1. Holders' = Holders \ {p} /\ Writers' = Writers
    BY <1>20 DEF Release, Goto, EndFlight, Holders, Writers
  <2>2. held' = Holders'
    BY <2>1, <1>fin, <1>20 DEF Release
  <2>3. Cardinality(Holders') \in Nat /\ Cardinality(Holders') <= Cardinality(Holders)
    BY <2>1, <1>fin, FS_RemoveElement, FS_CardinalityType, FS_Subset
  <2>4. inflight' = inflight /\ peak' = peak
    BY <1>20 DEF Release
  <2> QED
    BY <2>1, <2>2, <2>3, <2>4, <1>fin DEF CountInv
<1>21. ASSUME NEW p \in Proc, Consume(p) PROVE CountInv'
  BY <1>same, <1>21 DEF Consume, Goto, Holders, Writers
<1>22. ASSUME NEW c \in Ctx, Cancel(c) \/ FreshCtx(c) PROVE CountInv'
  BY <1>same, <1>22 DEF Cancel, FreshCtx, Holders, Writers
<1>23. CASE Kill
  <2>1. Holders' = {} /\ Writers' = {}
    BY <1>23 DEF Kill, Restart, Holders, Writers
  <2> QED
    BY <2>1, <1>fin, FS_EmptySet, <1>23 DEF Kill, Restart, CountInv
<1>24. CASE PowerLoss
  <2>1. Holders' = {} /\ Writers' = {}
    BY <1>24 DEF PowerLoss, Restart, Holders, Writers
  <2> QED
    BY <2>1, <1>fin, FS_EmptySet, <1>24 DEF PowerLoss, Restart, CountInv
<1>25. CASE UNCHANGED vars
  BY <1>same, <1>25 DEF vars, Holders, Writers
<1> QED
  BY <1>1, <1>2, <1>3, <1>4, <1>5, <1>6, <1>7, <1>8, <1>9, <1>10, <1>11, <1>12, <1>13,
     <1>14, <1>15, <1>16, <1>17, <1>18, <1>19, <1>20, <1>21, <1>22, <1>23, <1>24, <1>25
  DEF Next, Step

(* A flight's result reaches only waiters of its digest, and no step takes *)
(* a blob away from a call that was answered.                              *)
LEMMA OkStep == TypeOK /\ CallInv /\ ResultInv /\ TempInv /\ DiscardInv /\ OkMeansStored /\ [Next]_vars => OkMeansStored'
<1> SUFFICES ASSUME TypeOK, CallInv, ResultInv, TempInv, DiscardInv, OkMeansStored, [Next]_vars PROVE OkMeansStored'
  OBVIOUS
<1> USE DEF TypeOK, CallInv, ResultInv, TempInv, DiscardInv, OkMeansStored, StatHit, PC, Leading, Holding, Counted, Writing, Outcome, FileState, callVars, semVars, fileVars
<1>1. ASSUME NEW p \in Proc, NEW d \in Digest, WriteBlob(p, d) PROVE OkMeansStored'
  BY <1>1 DEF WriteBlob, Goto, Finish
<1>2. ASSUME NEW p \in Proc, NEW d \in Digest, Push(p, d) PROVE OkMeansStored'
  BY <1>2 DEF Push, Goto
<1>3. ASSUME NEW p \in Proc, FastPath(p) PROVE OkMeansStored'
  BY <1>3 DEF FastPath, Goto, Finish
<1>4. ASSUME NEW p \in Proc, Lead(p) PROVE OkMeansStored'
  BY <1>4 DEF Lead, Goto
<1>5. ASSUME NEW p \in Proc, JoinFlight(p) PROVE OkMeansStored'
  BY <1>5 DEF JoinFlight, Goto
<1>6. ASSUME NEW p \in Proc, Return(p) PROVE OkMeansStored'
  BY <1>6 DEF Return, Goto
<1>7. ASSUME NEW p \in Proc, PushStat(p) PROVE OkMeansStored'
  BY <1>7 DEF PushStat, Goto
<1>8. ASSUME NEW p \in Proc, Discard(p) PROVE OkMeansStored'
  BY <1>8 DEF Discard, Goto, Finish
<1>9. ASSUME NEW p \in Proc, Acquire(p) PROVE OkMeansStored'
  BY <1>9 DEF Acquire, Goto
<1>10. ASSUME NEW p \in Proc, AcquireCanceled(p) PROVE OkMeansStored'
  BY <1>10 DEF AcquireCanceled, Goto, Finish, EndFlight
<1>11. ASSUME NEW p \in Proc, EnterBlob(p) PROVE OkMeansStored'
  BY <1>11 DEF EnterBlob, Goto
<1>12. ASSUME NEW p \in Proc, Recheck(p) PROVE OkMeansStored'
  BY <1>12 DEF Recheck, Goto, Leave
<1>13. ASSUME NEW p \in Proc, CreateTemp(p) PROVE OkMeansStored'
  BY <1>13 DEF CreateTemp, Goto
<1>14. ASSUME NEW p \in Proc, Stream(p) PROVE OkMeansStored'
  BY <1>14 DEF Stream, Goto
<1>15. ASSUME NEW p \in Proc, StreamCanceled(p) PROVE OkMeansStored'
  BY <1>15 DEF StreamCanceled, Goto, Leave
<1>16. ASSUME NEW p \in Proc, Verify(p) PROVE OkMeansStored'
  BY <1>16 DEF Verify, Goto, Leave
<1>17. ASSUME NEW p \in Proc, Rename(p) PROVE OkMeansStored'
  BY <1>17 DEF Rename, Goto, Leave
<1>18. ASSUME NEW p \in Proc, IOError(p) PROVE OkMeansStored'
  BY <1>18 DEF IOError, Goto, Leave, Finish
<1>19. ASSUME NEW p \in Proc, ExitBlob(p) PROVE OkMeansStored'
  BY <1>19 DEF ExitBlob, Goto
<1>20. ASSUME NEW p \in Proc, Release(p) PROVE OkMeansStored'
  BY <1>20 DEF Release, Goto, EndFlight
<1>21. ASSUME NEW p \in Proc, Consume(p) PROVE OkMeansStored'
  BY <1>21 DEF Consume, Goto
<1>22. ASSUME NEW c \in Ctx, Cancel(c) \/ FreshCtx(c) PROVE OkMeansStored'
  BY <1>22 DEF Cancel, FreshCtx
<1>23. CASE Kill
  BY <1>23 DEF Kill, Restart
<1>24. CASE PowerLoss
  BY <1>24 DEF PowerLoss, Restart
<1>25. CASE UNCHANGED vars
  BY <1>25 DEF vars
<1> QED
  BY <1>1, <1>2, <1>3, <1>4, <1>5, <1>6, <1>7, <1>8, <1>9, <1>10, <1>11, <1>12, <1>13,
     <1>14, <1>15, <1>16, <1>17, <1>18, <1>19, <1>20, <1>21, <1>22, <1>23, <1>24, <1>25
  DEF Next, Step

(* The strengthened invariant is inductive.                                *)
LEMMA InvariantStep == Invariant /\ [Next]_vars => Invariant'
BY TypeStep, ControlStep, FileStep, CountStep, OkStep DEF Invariant, ControlInv

(* Whatever the goroutines do and wherever the process or the machine      *)
(* stops, the strengthened invariant holds.                                *)
THEOREM InvariantHolds == Spec => []Invariant
BY InitInvariant, InvariantStep, PTL DEF Spec

-----------------------------------------------------------------------------
(* Every variable of the write paths keeps to its range; blobInFlight is   *)
(* never negative.                                                         *)
THEOREM TypeCorrect == Spec => []TypeOK
<1>1. Invariant => TypeOK
  BY DEF Invariant
<1> QED
  BY <1>1, InvariantHolds, PTL

(* writeBlobShared: however many goroutines ask for a digest, one of them  *)
(* downloads it.                                                           *)
THEOREM SingleDownload == Spec => []OneDownloadPerDigest
<1>1. Invariant => OneDownloadPerDigest
  BY DEF Invariant, ControlInv, FlightInv, OneDownloadPerDigest
<1> QED
  BY <1>1, InvariantHolds, PTL

(* blobSem: no permit leaks on any path, and both write paths together     *)
(* stay under the ceiling.                                                 *)
THEOREM PermitsNeverLeak == Spec => []PermitsAccounted
<1>1. Invariant => PermitsAccounted
  BY DEF Invariant, CountInv, Holders, PermitsAccounted
<1> QED
  BY <1>1, InvariantHolds, PTL

(* WriteBlob and Push answer nil only for content that is there.           *)
THEOREM AnswersAreTrue == Spec => []OkMeansStored
<1>1. Invariant => OkMeansStored
  BY DEF Invariant
<1> QED
  BY <1>1, InvariantHolds, PTL

(* A clean store holds only verified content, at every moment.             *)
THEOREM CleanStaysClean == Spec => []FinalPathVerified
<1>1. Invariant => FinalPathVerified
  BY DEF Invariant, FileInv, FinalPathVerified
<1> QED
  BY <1>1, InvariantHolds, PTL

(* In any store, no step makes a final path worse than it was.             *)
THEOREM NeverSpoiled == Spec => FinalOnlyImproves
<1> DEFINE Improves == \A d \in Digest : file'[d] \in {file[d], "good", disk[d]}
<1>1. Invariant /\ [Next]_vars => [Improves]_vars
  <2> SUFFICES ASSUME Invariant, [Next]_vars PROVE Improves
    OBVIOUS
  <2>1. ASSUME NEW p \in Proc, Rename(p) PROVE Improves
    BY <2>1 DEF Rename, Invariant, ControlInv, TypeOK, TempInv
  <2>2. CASE PowerLoss
    BY <2>2 DEF PowerLoss, Invariant, FileInv
  <2>3. CASE file' = file
    BY <2>3
  <2> QED
    BY <2>1, <2>2, <2>3
    DEF Next, Step, WriteBlob, Push, FastPath, Lead, JoinFlight, Return, PushStat, Discard, Acquire,
        AcquireCanceled, EnterBlob, Recheck, CreateTemp, Stream, StreamCanceled, Verify, IOError,
        ExitBlob, Release, Consume, Cancel, FreshCtx, Kill, fileVars, vars
<1> QED
  BY <1>1, InvariantHolds, PTL DEF Spec, FinalOnlyImproves

-----------------------------------------------------------------------------
(* The refinement of VerifiedBlobs.                                        *)

(* A step that leaves the store alone and takes one busy caller to busy or *)
(* to a justified answer is an Answer or a stutter.                        *)
LEMMA AnswerStep ==
  ASSUME NEW p \in Proc, Stored' = Stored, want' = want,
         StatusOf(p) = "busy", StatusOf(p)' \in {"busy", "ok", "error"},
         \A q \in Proc \ {p} : StatusOf(q)' = StatusOf(q),
         StatusOf(p)' = "ok" => want[p] \in Stored
  PROVE  [Abstract!Next]_Abstract!blobVars
<1>1. CASE StatusOf(p)' = "busy"
  BY <1>1 DEF Abstract!blobVars
<1>2. CASE StatusOf(p)' \in {"ok", "error"}
  <2>1. Abstract!Answer(p)
    BY <1>2 DEF Abstract!Answer
  <2> QED
    BY <2>1 DEF Abstract!Next
<1> QED
  BY <1>1, <1>2

(* The store a clean start opens is an initial state of VerifiedBlobs.     *)
LEMMA AbstractInit == Init => Abstract!Init
BY DEF Init, Abstract!Init, Stored, StatusOf

(* Every step of a clean store is a step of VerifiedBlobs or a stutter.    *)
LEMMA AbstractStep == InitFiles \subseteq Clean /\ TypeOK /\ CallInv /\ TempInv /\ FileInv /\ DiscardInv /\ OkMeansStored /\ [Next]_vars => [Abstract!Next]_Abstract!blobVars
<1> SUFFICES ASSUME InitFiles \subseteq Clean, TypeOK, CallInv, TempInv, FileInv, DiscardInv, OkMeansStored, [Next]_vars PROVE [Abstract!Next]_Abstract!blobVars
  OBVIOUS
<1> USE DEF TypeOK, CallInv, TempInv, PC, Leading, Holding, Counted, Writing, Outcome, FileState, callVars, semVars, fileVars
<1>clean. \A d \in Digest : file[d] \in Clean
  BY DEF FileInv
<1>stutter. ASSUME Stored' = Stored, want' = want, \A q \in Proc : StatusOf(q)' = StatusOf(q)
            PROVE  [Abstract!Next]_Abstract!blobVars
  BY <1>stutter DEF Abstract!blobVars
<1>1. ASSUME NEW p \in Proc, NEW d \in Digest, WriteBlob(p, d) PROVE [Abstract!Next]_Abstract!blobVars
  <2>1. Stored' = Stored /\ want' = [want EXCEPT ![p] = d]
    BY <1>1 DEF WriteBlob, Goto, Finish, Stored
  <2>2. StatusOf(p) = "idle" /\ StatusOf(p)' \in {"busy", "error"}
    BY <1>1 DEF WriteBlob, Goto, Finish, StatusOf
  <2>3. \A q \in Proc \ {p} : StatusOf(q)' = StatusOf(q)
    BY <1>1 DEF WriteBlob, Goto, Finish, StatusOf
  <2>4. [q \in Proc |-> StatusOf(q)]' = [[q \in Proc |-> StatusOf(q)] EXCEPT ![p] = StatusOf(p)']
    BY <2>3
  <2>5. Abstract!Ask(p, d)
    BY ONLY <2>1, <2>2, <2>4, p \in Proc DEF Abstract!Ask
  <2> QED
    BY <2>5 DEF Abstract!Next
<1>2. ASSUME NEW p \in Proc, NEW d \in Digest, Push(p, d) PROVE [Abstract!Next]_Abstract!blobVars
  <2>1. Stored' = Stored /\ want' = [want EXCEPT ![p] = d]
    BY <1>2 DEF Push, Goto, Stored
  <2>2. StatusOf(p) = "idle" /\ StatusOf(p)' \in {"busy", "error"}
    BY <1>2 DEF Push, Goto, StatusOf
  <2>3. \A q \in Proc \ {p} : StatusOf(q)' = StatusOf(q)
    BY <1>2 DEF Push, Goto, StatusOf
  <2>4. [q \in Proc |-> StatusOf(q)]' = [[q \in Proc |-> StatusOf(q)] EXCEPT ![p] = StatusOf(p)']
    BY <2>3
  <2>5. Abstract!Ask(p, d)
    BY ONLY <2>1, <2>2, <2>4, p \in Proc DEF Abstract!Ask
  <2> QED
    BY <2>5 DEF Abstract!Next
<1>3. ASSUME NEW p \in Proc, FastPath(p) PROVE [Abstract!Next]_Abstract!blobVars
  <2>1. Stored' = Stored /\ want' = want
    BY <1>3 DEF FastPath, Goto, Finish, Stored
  <2>2. StatusOf(p) = "busy" /\ StatusOf(p)' \in {"busy", "ok", "error"}
    BY <1>3 DEF FastPath, Goto, Finish, StatusOf
  <2>3. \A q \in Proc \ {p} : StatusOf(q)' = StatusOf(q)
    BY <1>3 DEF FastPath, Goto, Finish, StatusOf
  <2>4. StatusOf(p)' = "ok" => want[p] \in Stored
    BY <1>3, <1>clean DEF FastPath, Goto, Finish, StatusOf, Stored, Clean, OkMeansStored, StatHit, DiscardInv, FileInv
  <2> QED
    BY <2>1, <2>2, <2>3, <2>4, AnswerStep
<1>4. ASSUME NEW p \in Proc, Lead(p) PROVE [Abstract!Next]_Abstract!blobVars
  BY <1>stutter, <1>4 DEF Lead, Goto, Stored, StatusOf
<1>5. ASSUME NEW p \in Proc, JoinFlight(p) PROVE [Abstract!Next]_Abstract!blobVars
  BY <1>stutter, <1>5 DEF JoinFlight, Goto, Stored, StatusOf
<1>6. ASSUME NEW p \in Proc, Return(p) PROVE [Abstract!Next]_Abstract!blobVars
  <2>1. Stored' = Stored /\ want' = want
    BY <1>6 DEF Return, Goto, Stored
  <2>2. StatusOf(p) = "busy" /\ StatusOf(p)' \in {"busy", "ok", "error"}
    BY <1>6 DEF Return, Goto, StatusOf
  <2>3. \A q \in Proc \ {p} : StatusOf(q)' = StatusOf(q)
    BY <1>6 DEF Return, Goto, StatusOf
  <2>4. StatusOf(p)' = "ok" => want[p] \in Stored
    BY <1>6, <1>clean DEF Return, Goto, StatusOf, Stored, Clean, OkMeansStored, StatHit, DiscardInv, FileInv
  <2> QED
    BY <2>1, <2>2, <2>3, <2>4, AnswerStep
<1>7. ASSUME NEW p \in Proc, PushStat(p) PROVE [Abstract!Next]_Abstract!blobVars
  BY <1>stutter, <1>7 DEF PushStat, Goto, Stored, StatusOf
<1>8. ASSUME NEW p \in Proc, Discard(p) PROVE [Abstract!Next]_Abstract!blobVars
  <2>1. Stored' = Stored /\ want' = want
    BY <1>8 DEF Discard, Goto, Finish, Stored
  <2>2. StatusOf(p) = "busy" /\ StatusOf(p)' \in {"busy", "ok", "error"}
    BY <1>8 DEF Discard, Goto, Finish, StatusOf
  <2>3. \A q \in Proc \ {p} : StatusOf(q)' = StatusOf(q)
    BY <1>8 DEF Discard, Goto, Finish, StatusOf
  <2>4. StatusOf(p)' = "ok" => want[p] \in Stored
    BY <1>8, <1>clean DEF Discard, Goto, Finish, StatusOf, Stored, Clean, OkMeansStored, StatHit, DiscardInv, FileInv
  <2> QED
    BY <2>1, <2>2, <2>3, <2>4, AnswerStep
<1>9. ASSUME NEW p \in Proc, Acquire(p) PROVE [Abstract!Next]_Abstract!blobVars
  BY <1>stutter, <1>9 DEF Acquire, Goto, Stored, StatusOf
<1>10. ASSUME NEW p \in Proc, AcquireCanceled(p) PROVE [Abstract!Next]_Abstract!blobVars
  <2>1. Stored' = Stored /\ want' = want
    BY <1>10 DEF AcquireCanceled, Goto, Finish, EndFlight, Stored
  <2>2. StatusOf(p) = "busy" /\ StatusOf(p)' \in {"busy", "ok", "error"}
    BY <1>10 DEF AcquireCanceled, Goto, Finish, EndFlight, StatusOf
  <2>3. \A q \in Proc \ {p} : StatusOf(q)' = StatusOf(q)
    BY <1>10 DEF AcquireCanceled, Goto, Finish, EndFlight, StatusOf
  <2>4. StatusOf(p)' = "ok" => want[p] \in Stored
    BY <1>10, <1>clean DEF AcquireCanceled, Goto, Finish, EndFlight, StatusOf, Stored, Clean, OkMeansStored, StatHit, DiscardInv, FileInv
  <2> QED
    BY <2>1, <2>2, <2>3, <2>4, AnswerStep
<1>11. ASSUME NEW p \in Proc, EnterBlob(p) PROVE [Abstract!Next]_Abstract!blobVars
  BY <1>stutter, <1>11 DEF EnterBlob, Goto, Stored, StatusOf
<1>12. ASSUME NEW p \in Proc, Recheck(p) PROVE [Abstract!Next]_Abstract!blobVars
  BY <1>stutter, <1>12 DEF Recheck, Goto, Leave, Stored, StatusOf
<1>13. ASSUME NEW p \in Proc, CreateTemp(p) PROVE [Abstract!Next]_Abstract!blobVars
  BY <1>stutter, <1>13 DEF CreateTemp, Goto, Stored, StatusOf
<1>14. ASSUME NEW p \in Proc, Stream(p) PROVE [Abstract!Next]_Abstract!blobVars
  BY <1>stutter, <1>14 DEF Stream, Goto, Stored, StatusOf
<1>15. ASSUME NEW p \in Proc, StreamCanceled(p) PROVE [Abstract!Next]_Abstract!blobVars
  BY <1>stutter, <1>15 DEF StreamCanceled, Goto, Leave, Stored, StatusOf
<1>16. ASSUME NEW p \in Proc, Verify(p) PROVE [Abstract!Next]_Abstract!blobVars
  BY <1>stutter, <1>16 DEF Verify, Goto, Leave, Stored, StatusOf
<1>17. ASSUME NEW p \in Proc, Rename(p) PROVE [Abstract!Next]_Abstract!blobVars
  <2>1. Stored' = Stored \cup {want[p]} /\ want' = want
    BY <1>17 DEF Rename, Goto, Leave, Stored
  <2>2. StatusOf(p) = "busy" /\ \A q \in Proc : StatusOf(q)' = StatusOf(q)
    BY <1>17 DEF Rename, Goto, Leave, StatusOf
  <2>3. Abstract!Store(p)
    BY <2>1, <2>2 DEF Abstract!Store
  <2> QED
    BY <2>3 DEF Abstract!Next
<1>18. ASSUME NEW p \in Proc, IOError(p) PROVE [Abstract!Next]_Abstract!blobVars
  <2>1. Stored' = Stored /\ want' = want
    BY <1>18 DEF IOError, Goto, Leave, Finish, Stored
  <2>2. StatusOf(p) = "busy" /\ StatusOf(p)' \in {"busy", "ok", "error"}
    BY <1>18 DEF IOError, Goto, Leave, Finish, StatusOf
  <2>3. \A q \in Proc \ {p} : StatusOf(q)' = StatusOf(q)
    BY <1>18 DEF IOError, Goto, Leave, Finish, StatusOf
  <2>4. StatusOf(p)' = "ok" => want[p] \in Stored
    BY <1>18, <1>clean DEF IOError, Goto, Leave, Finish, StatusOf, Stored, Clean, OkMeansStored, StatHit, DiscardInv, FileInv
  <2> QED
    BY <2>1, <2>2, <2>3, <2>4, AnswerStep
<1>19. ASSUME NEW p \in Proc, ExitBlob(p) PROVE [Abstract!Next]_Abstract!blobVars
  BY <1>stutter, <1>19 DEF ExitBlob, Goto, Stored, StatusOf
<1>20. ASSUME NEW p \in Proc, Release(p) PROVE [Abstract!Next]_Abstract!blobVars
  <2>1. Stored' = Stored /\ want' = want
    BY <1>20 DEF Release, Goto, EndFlight, Stored
  <2>2. StatusOf(p) = "busy" /\ StatusOf(p)' \in {"busy", "ok", "error"}
    BY <1>20 DEF Release, Goto, EndFlight, StatusOf
  <2>3. \A q \in Proc \ {p} : StatusOf(q)' = StatusOf(q)
    BY <1>20 DEF Release, Goto, EndFlight, StatusOf
  <2>4. StatusOf(p)' = "ok" => want[p] \in Stored
    BY <1>20, <1>clean DEF Release, Goto, EndFlight, StatusOf, Stored, Clean, OkMeansStored, StatHit, DiscardInv, FileInv
  <2> QED
    BY <2>1, <2>2, <2>3, <2>4, AnswerStep
<1>21. ASSUME NEW p \in Proc, Consume(p) PROVE [Abstract!Next]_Abstract!blobVars
  <2>1. Stored' = Stored /\ want' = [want EXCEPT ![p] = None]
    BY <1>21 DEF Consume, Goto, Stored
  <2>2. StatusOf(p) \in {"ok", "error"} /\ StatusOf(p)' = "idle"
    BY <1>21 DEF Consume, Goto, StatusOf
  <2>3. \A q \in Proc \ {p} : StatusOf(q)' = StatusOf(q)
    BY <1>21 DEF Consume, Goto, StatusOf
  <2>4. [q \in Proc |-> StatusOf(q)]' = [[q \in Proc |-> StatusOf(q)] EXCEPT ![p] = StatusOf(p)']
    BY <2>3
  <2>5. Abstract!Consume(p)
    BY ONLY <2>1, <2>2, <2>4, p \in Proc DEF Abstract!Consume
  <2> QED
    BY <2>5 DEF Abstract!Next
<1>22. ASSUME NEW c \in Ctx, Cancel(c) \/ FreshCtx(c) PROVE [Abstract!Next]_Abstract!blobVars
  BY <1>stutter, <1>22 DEF Cancel, FreshCtx, Stored, StatusOf
<1>23. CASE Kill
  <2>1. Stored' \subseteq Stored /\ want' = [q \in Proc |-> None]
    BY <1>23 DEF Kill, Restart, Stored, FileInv
  <2>2. \A q \in Proc : StatusOf(q)' = "idle"
    BY <1>23 DEF Kill, Restart, StatusOf
  <2>3. Abstract!Stop
    BY <2>1, <2>2 DEF Abstract!Stop
  <2> QED
    BY <2>3 DEF Abstract!Next
<1>24. CASE PowerLoss
  <2>1. Stored' \subseteq Stored /\ want' = [q \in Proc |-> None]
    BY <1>24 DEF PowerLoss, Restart, Stored, FileInv
  <2>2. \A q \in Proc : StatusOf(q)' = "idle"
    BY <1>24 DEF PowerLoss, Restart, StatusOf
  <2>3. Abstract!Stop
    BY <2>1, <2>2 DEF Abstract!Stop
  <2> QED
    BY <2>3 DEF Abstract!Next
<1>25. CASE UNCHANGED vars
  BY <1>stutter, <1>25 DEF vars, Stored, StatusOf
<1> QED
  BY <1>1, <1>2, <1>3, <1>4, <1>5, <1>6, <1>7, <1>8, <1>9, <1>10, <1>11, <1>12, <1>13,
     <1>14, <1>15, <1>16, <1>17, <1>18, <1>19, <1>20, <1>21, <1>22, <1>23, <1>24, <1>25
  DEF Next, Step

(* The two write paths with their temp files, flights, permits, failures   *)
(* and crashes implement a set of verified blobs.                          *)
THEOREM Refinement == InitFiles \subseteq Clean => (Spec => ImplementsVerifiedBlobs)
<1> SUFFICES ASSUME InitFiles \subseteq Clean PROVE Spec => ImplementsVerifiedBlobs
  OBVIOUS
<1>1. Invariant /\ [Next]_vars => [Abstract!Next]_Abstract!blobVars
  BY AbstractStep DEF Invariant, ControlInv
<1> QED
  BY <1>1, AbstractInit, InvariantHolds, PTL DEF Spec, ImplementsVerifiedBlobs, Abstract!Spec
=============================================================================
