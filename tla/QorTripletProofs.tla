-------------------------- MODULE QorTripletProofs --------------------------
(***************************************************************************)
(* Theorems about QorTriplet, for any set of contents and any number of    *)
(* runs: type correctness, what a report reads, what a rollback restores,  *)
(* and what a run that returns or is interrupted leaves behind.            *)
(***************************************************************************)
EXTENDS QorTriplet, TLAPS

\* How far the writer has come with the three files, at each of its points.
WriterInv ==
    /\ pc \in {"starting", "clearing"} =>
          at \in 1..4 /\ \A k \in Files : k < at => file[k] = None
    /\ pc = "settling" => file = Nothing /\ detail = Nothing
    /\ pc = "staging" =>
          at \in Files /\ \A k \in Files : k < at => original[k] = file[k]
    /\ pc = "publishing" =>
          /\ at \in Files
          /\ \A k \in Files : k < at => file[k] = gen
          /\ \A k \in Files : k >= at => file[k] = original[k]
    /\ pc = "published" => \A k \in Files : file[k] = gen
    /\ pc = "undoing" =>
          /\ at \in 0..2
          /\ ~failed => \A k \in Files : k > at => file[k] = original[k]
    /\ pc = "snapshot" => Uniform(file)
    /\ pc \in {"running", "staging", "publishing", "undoing", "published", "raised",
               "handling", "snapshot"} => detail = Nothing

\* What the run that has ended last has left.
EndedInv ==
    /\ ended = "returned" => pc = "idle" /\ Uniform(file) /\ detail \in {file, Nothing}
    /\ ended = "interrupted" =>
          \/ pc \in {"clearing", "settling"}
          \/ pc = "idle" /\ file = Nothing /\ detail = Nothing

\* What the reader holds.
ReaderInv ==
    /\ reader \in {"reading2", "reading3", "comparing"} => got[1] # None
    /\ reader = "accepted" => Uniform(got) /\ got[1] # None

Inv == TypeOK /\ WriterInv /\ EndedInv /\ ReaderInv

Writes ==
    \/ Clear \/ Publish
    \/ RunRaises \/ HandleException \/ Finish \/ Snapshot
    \/ Interrupt \/ Escape \/ Crash

LEMMA NothingType == Nothing \in Triplets
BY DEF Nothing, Triplets

LEMMA InitInv == Init => Inv
<1> SUFFICES ASSUME Init PROVE Inv
  OBVIOUS
<1>1. ongoing \in BOOLEAN /\ handling \in BOOLEAN /\ failed \in BOOLEAN
  BY DEF Init
<1>2. TypeOK
  BY <1>1, NothingType, MaxRunsAssumption DEF Init, TypeOK
<1>3. WriterInv /\ EndedInv /\ ReaderInv
  BY DEF Init, WriterInv, EndedInv, ReaderInv
<1> QED BY <1>2, <1>3 DEF Inv

-----------------------------------------------------------------------------
(* The reader touches nothing but itself. *)

LEMMA ReadInv ==
    ASSUME Inv, Read
    PROVE  Inv'
<1> USE MaxRunsAssumption DEF Inv
<1>1. UNCHANGED <<file, detail, ongoing, pc, at, gen, original, handling, failed, ended, runs>>
  BY DEF Read, LookForFiles, ReadFile, Compare, ReadAgain, writer, history
<1>2. WriterInv' /\ EndedInv'
  BY <1>1 DEF WriterInv, EndedInv, Uniform
<1>3. ASSUME LookForFiles \/ Compare \/ ReadAgain PROVE TypeOK' /\ ReaderInv'
  BY <1>1, <1>3, NothingType DEF LookForFiles, Compare, ReadAgain, TypeOK, ReaderInv
<1>4. ASSUME NEW k \in Files, ReadFile(k) PROVE TypeOK' /\ ReaderInv'
  <2>1. CASE k = 1
    BY <1>1, <1>4, <2>1 DEF ReadFile, TypeOK, ReaderInv, Triplets, Files
  <2>2. CASE k = 2
    BY <1>1, <1>4, <2>2 DEF ReadFile, TypeOK, ReaderInv, Triplets, Files
  <2>3. CASE k = 3
    BY <1>1, <1>4, <2>3 DEF ReadFile, TypeOK, ReaderInv, Triplets, Files
  <2> QED BY <2>1, <2>2, <2>3 DEF Files
<1> QED BY <1>2, <1>3, <1>4 DEF Read

-----------------------------------------------------------------------------
(* The writer leaves the reader's copies alone. *)

LEMMA ClearInv ==
    ASSUME Inv, Clear
    PROVE  TypeOK' /\ WriterInv' /\ EndedInv'
<1> USE NothingType, MaxRunsAssumption DEF Inv, history, reading
<1>1. ASSUME BeginRun PROVE TypeOK' /\ WriterInv' /\ EndedInv'
  <2>1. ongoing' = ongoing /\ handling' \in BOOLEAN /\ failed' \in BOOLEAN
    BY <1>1 DEF BeginRun
  <2>2. TypeOK'
    BY <1>1, <2>1 DEF BeginRun, TypeOK
  <2> QED BY <1>1, <2>2 DEF BeginRun, TypeOK, WriterInv, EndedInv, Files
<1>2. ASSUME Recover PROVE TypeOK' /\ WriterInv' /\ EndedInv'
  BY <1>2 DEF Recover, TypeOK, WriterInv, EndedInv, Files
<1>3. ASSUME ClearFile PROVE TypeOK' /\ WriterInv' /\ EndedInv'
  <2>1. file' \in Triplets /\ \A k \in Files : file'[k] = IF k = at THEN None ELSE file[k]
    BY <1>3 DEF ClearFile, TypeOK, Triplets
  <2> QED BY <1>3, <2>1 DEF ClearFile, TypeOK, WriterInv, EndedInv, Files
<1>4. ASSUME ClearDetail PROVE TypeOK' /\ WriterInv' /\ EndedInv'
  <2>1. \A k \in Files : file[k] = None
    BY <1>4 DEF ClearDetail, WriterInv, Files
  <2>2. file = Nothing
    BY <2>1 DEF TypeOK, Triplets, Nothing
  <2> QED BY <1>4, <2>2 DEF ClearDetail, TypeOK, WriterInv, EndedInv
<1>5. ASSUME Settle PROVE TypeOK' /\ WriterInv' /\ EndedInv'
  <2>1. ongoing' \in BOOLEAN
    BY <1>5 DEF Settle
  <2>2. TypeOK'
    BY <1>5, <2>1 DEF Settle, TypeOK
  <2>3. Uniform(file)
    BY <1>5 DEF Settle, WriterInv, Uniform, Nothing, Files
  <2> QED BY <1>5, <2>2, <2>3 DEF Settle, WriterInv, EndedInv, Uniform
<1> QED BY <1>1, <1>2, <1>3, <1>4, <1>5 DEF Clear

LEMMA PublishInv ==
    ASSUME Inv, Publish
    PROVE  TypeOK' /\ WriterInv' /\ EndedInv'
<1> USE NothingType, MaxRunsAssumption DEF Inv, history, reading
<1>1. ASSUME NEW g \in Generations, PublishQor(g) PROVE TypeOK' /\ WriterInv' /\ EndedInv'
  BY <1>1 DEF PublishQor, Write, TypeOK, WriterInv, EndedInv, Files
<1>2. ASSUME StageFile PROVE TypeOK' /\ WriterInv' /\ EndedInv'
  <2>1. /\ original' \in Triplets
        /\ \A k \in Files : original'[k] = IF k = at THEN file[k] ELSE original[k]
    BY <1>2 DEF StageFile, TypeOK, Triplets, WriterInv
  <2>2. CASE at = 3
    BY <1>2, <2>1, <2>2 DEF StageFile, TypeOK, WriterInv, EndedInv, Files
  <2>3. CASE at # 3
    BY <1>2, <2>1, <2>3 DEF StageFile, TypeOK, WriterInv, EndedInv, Files
  <2> QED BY <2>2, <2>3
<1>3. ASSUME StageRaises \/ RolledBack PROVE TypeOK' /\ WriterInv' /\ EndedInv'
  BY <1>3 DEF StageRaises, RolledBack, TypeOK, WriterInv, EndedInv
<1>4. ASSUME PublishFile PROVE TypeOK' /\ WriterInv' /\ EndedInv'
  <2>1. file' \in Triplets /\ \A k \in Files : file'[k] = IF k = at THEN gen ELSE file[k]
    BY <1>4 DEF PublishFile, TypeOK, Triplets, WriterInv
  <2>2. CASE at = 3
    BY <1>4, <2>1, <2>2 DEF PublishFile, TypeOK, WriterInv, EndedInv, Files
  <2>3. CASE at # 3
    BY <1>4, <2>1, <2>3 DEF PublishFile, TypeOK, WriterInv, EndedInv, Files
  <2> QED BY <2>2, <2>3
<1>5. ASSUME PublishRaises PROVE TypeOK' /\ WriterInv' /\ EndedInv'
  BY <1>5 DEF PublishRaises, TypeOK, WriterInv, EndedInv, Files
<1>6. ASSUME RollBackFile PROVE TypeOK' /\ WriterInv' /\ EndedInv'
  <2>1. CASE failed' = TRUE /\ UNCHANGED file
    BY <1>6, <2>1 DEF RollBackFile, TypeOK, WriterInv, EndedInv, Files
  <2>2. CASE file' = [file EXCEPT ![at] = original[at]] /\ UNCHANGED failed
    <3>1. /\ file' \in Triplets
          /\ \A k \in Files : file'[k] = IF k = at THEN original[k] ELSE file[k]
      BY <1>6, <2>2 DEF RollBackFile, TypeOK, Triplets
    <3> QED BY <1>6, <2>2, <3>1 DEF RollBackFile, TypeOK, WriterInv, EndedInv, Files
  <2> QED BY <1>6, <2>1, <2>2 DEF RollBackFile
<1> QED BY <1>1, <1>2, <1>3, <1>4, <1>5, <1>6 DEF Publish

LEMMA EndInv ==
    ASSUME Inv, RunRaises \/ HandleException \/ Finish \/ Snapshot
    PROVE  TypeOK' /\ WriterInv' /\ EndedInv'
<1> USE MaxRunsAssumption DEF Inv, history, reading
<1>1. ASSUME RunRaises PROVE TypeOK' /\ WriterInv' /\ EndedInv'
  BY <1>1 DEF RunRaises, TypeOK, WriterInv, EndedInv
<1>2. ASSUME HandleException PROVE TypeOK' /\ WriterInv' /\ EndedInv'
  BY <1>2 DEF HandleException, TypeOK, WriterInv, EndedInv, Files
<1>3. ASSUME Finish PROVE TypeOK' /\ WriterInv' /\ EndedInv'
  <2>1. ongoing' \in BOOLEAN
    BY <1>3 DEF Finish
  <2>2. TypeOK'
    BY <1>3, <2>1 DEF Finish, TypeOK
  <2>3. Uniform(file)
    BY <1>3 DEF Finish, WriterInv, Uniform, Files
  <2> QED BY <1>3, <2>2, <2>3 DEF Finish, WriterInv, EndedInv, Uniform
<1>4. ASSUME Snapshot PROVE TypeOK' /\ WriterInv' /\ EndedInv'
  BY <1>4 DEF Snapshot, TypeOK, WriterInv, EndedInv, Uniform
<1> QED BY <1>1, <1>2, <1>3, <1>4

LEMMA StopInv ==
    ASSUME Inv, Interrupt \/ Escape \/ Crash
    PROVE  TypeOK' /\ WriterInv' /\ EndedInv'
<1> USE MaxRunsAssumption DEF Inv, reading
<1>1. ASSUME Interrupt PROVE TypeOK' /\ WriterInv' /\ EndedInv'
  BY <1>1 DEF Interrupt, TypeOK, WriterInv, EndedInv, Files
<1>2. ASSUME Escape \/ Crash PROVE TypeOK' /\ WriterInv' /\ EndedInv'
  BY <1>2 DEF Escape, Crash, TypeOK, WriterInv, EndedInv
<1> QED BY <1>1, <1>2

LEMMA WritesKeepReader == Writes => UNCHANGED reading
BY DEF Writes, Clear, BeginRun, Recover, ClearFile, ClearDetail, Settle,
       Publish, PublishQor, StageFile, StageRaises, PublishFile, PublishRaises,
       RollBackFile, RolledBack, RunRaises, HandleException, Finish, Snapshot,
       Interrupt, Escape, Crash

LEMMA NextInv == Inv /\ [Next]_vars => Inv'
<1> SUFFICES ASSUME Inv, [Next]_vars PROVE Inv'
  OBVIOUS
<1>1. CASE Read
  BY <1>1, ReadInv
<1>2. CASE Writes
  <2>1. TypeOK' /\ WriterInv' /\ EndedInv'
    BY <1>2, ClearInv, PublishInv, EndInv, StopInv DEF Writes
  <2>2. ReaderInv'
    BY <1>2, WritesKeepReader DEF Inv, ReaderInv, reading, Uniform
  <2> QED BY <2>1, <2>2 DEF Inv
<1>3. CASE UNCHANGED vars
  BY <1>3 DEF vars, writer, history, reading, Inv, TypeOK, WriterInv, EndedInv,
              ReaderInv, Uniform
<1> QED BY <1>1, <1>2, <1>3 DEF Next, Writes

LEMMA Inductive == Spec => []Inv
BY InitInv, NextInv, PTL DEF Spec

-----------------------------------------------------------------------------

\* The files, the writer's locals and the reader's copies keep their types.
THEOREM TypeCorrect == Spec => []TypeOK
<1>1. Inv => TypeOK
  BY DEF Inv
<1> QED BY <1>1, Inductive, PTL

\* _read_qor_artifacts accepts three files of one generation only, whatever the
\* writer does between its reads.
THEOREM ReportsAreUniform == Spec => []ReportIsOneGeneration
<1>1. Inv => ReportIsOneGeneration
  BY DEF Inv, ReaderInv, ReportIsOneGeneration
<1> QED BY <1>1, Inductive, PTL

\* The except clause of _write_qor_triplet_atomic restores what it has replaced.
THEOREM RollbackIsExact == Spec => []RollbackRestores
<1>1. Inv => RollbackRestores
  <2> SUFFICES ASSUME Inv, pc = "undoing", at = 0, ~failed PROVE file = original
    BY DEF RollbackRestores
  <2>1. \A k \in Files : file[k] = original[k]
    BY DEF Inv, WriterInv, Files
  <2> QED BY <2>1 DEF Inv, TypeOK, Triplets
<1> QED BY <1>1, Inductive, PTL

\* run_step returns with the QoR of one publication or with none, and the frontend
\* detail embeds the same or nothing: that of an earlier run is gone before the tool
\* starts, whether or not _write_frontend_step_detail succeeds.
THEOREM ReturnsConsistent == Spec => []ReturnedRunIsConsistent
<1>1. Inv => ReturnedRunIsConsistent
  BY DEF Inv, EndedInv, ReturnedRunIsConsistent
<1> QED BY <1>1, Inductive, PTL

\* An interrupt that the except clause has handled, and a recovery, leave no
\* QoR file and no copy of one.
THEOREM InterruptsClear == Spec => []InterruptedRunLeavesNothing
<1>1. Inv => InterruptedRunLeavesNothing
  BY DEF Inv, EndedInv, InterruptedRunLeavesNothing
<1> QED BY <1>1, Inductive, PTL
=============================================================================
