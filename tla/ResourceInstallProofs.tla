------------------------ MODULE ResourceInstallProofs ------------------------
(***************************************************************************)
(* Theorems about ResourceInstall, for any registry, tools and versions.    *)
(* For any number of installers and any faults: its types, that no entry   *)
(* of the manifest is lost, and that tools are recorded dependency-first.  *)
(* For one installer: a failure restores what it found.  For racing ones:  *)
(* not all of them fail, and what they report is there.                    *)
(***************************************************************************)
EXTENDS ResourceInstall, TLAPS

-----------------------------------------------------------------------------
(* Sequences of frames. *)

\* The call stack of a process that has ended or not begun.
LEMMA EmptySeq == <<>> \in Seq(Frames) /\ <<>> \in Seq(Tools)
OBVIOUS

\* The registry's requirements of a tool make a frame (install).
LEMMA FrameType ==
    ASSUME NEW t \in Tools, NEW v \in Versions
    PROVE  Frame(t, v) \in Frames
BY RequiresAssumption DEF Frame, Frames

\* The call of install that is in progress is a frame.
LEMMA TopType ==
    ASSUME NEW s \in Seq(Frames), s # <<>>
    PROVE  Head(s) \in Frames /\ Tail(s) \in Seq(Frames)
OBVIOUS

\* A nested call of install pushes a frame and shortens its caller's worklist.
LEMMA PushType ==
    ASSUME NEW s \in Seq(Frames), s # <<>>, NEW f \in Frames, Head(s).todo # <<>>
    PROVE  <<f>> \o [s EXCEPT ![1].todo = Tail(@)] \in Seq(Frames)
<1> DEFINE u == [s EXCEPT ![1].todo = Tail(@)]
<1>1. s[1] \in Frames /\ s[1] = Head(s)
  OBVIOUS
<1>2. Tail(s[1].todo) \in Seq(Tools)
  BY <1>1 DEF Frames
<1>3. [s[1] EXCEPT !.todo = Tail(@)] \in Frames
  BY <1>1, <1>2 DEF Frames
<1>4. u \in Seq(Frames)
  BY <1>1, <1>3
<1>5. <<f>> \in Seq(Frames)
  OBVIOUS
<1> QED BY <1>4, <1>5

-----------------------------------------------------------------------------
(* Type correctness. *)


\* Points of _install_one after its first look at the manifest, except those it
\* shares with _record_required_resources.
ReplacePoints == {"staging", "staged", "moving", "placing", "undoing", "removing",
                  "putting back", "committing", "unwinding"}

\* Inside the with statement of _manifest_lock.
LockedPoints == {"locked", "writing"}

\* Who is inside holds the lock, and what it has read is what is there.
LockInv ==
    \A p \in Installers :
        /\ pc[p] \in ReplacePoints => stack[p] # <<>>
        /\ pc[p] \in LockedPoints => lock = p
        /\ pc[p] = "writing" => copy[p] = manifest

IInv == TypeOK /\ LockInv

LEMMA InitInv == Init => IInv
BY FoundAssumption, EmptySeq
   DEF Init, IInv, TypeOK, LockInv, Manifests, PCs, ReplacePoints, LockedPoints

\* A command starts (InstallCommand, InstallRequired).
LEMMA CommandInv ==
    ASSUME IInv, NEW p \in Installers, Command(p)
    PROVE  IInv'
<1> USE DEF IInv, TypeOK
<1>1. ASSUME NEW t \in Tools, NEW v \in Versions, InstallCommand(p, t, v)
      PROVE  IInv'
  <2>1. <<Frame(t, v)>> \in Seq(Frames)
    BY FrameType
  <2>2. TypeOK'
    BY <1>1, <2>1 DEF InstallCommand, Goto, PCs
  <2>3. LockInv'
    BY <1>1 DEF InstallCommand, Goto, LockInv, ReplacePoints, LockedPoints
  <2> QED BY <2>2, <2>3
<1>2. CASE InstallRequired(p)
  <2>1. TypeOK'
    BY <1>2, LatestAssumption, RequiresAssumption DEF InstallRequired, Goto, PCs, TryPoints
  <2>2. LockInv'
    BY <1>2 DEF InstallRequired, Goto, LockInv, ReplacePoints, LockedPoints
  <2> QED BY <2>1, <2>2
<1> QED BY <1>1, <1>2 DEF Command

\* The type of what a step of an installer reads.
LEMMA LocalTypes ==
    ASSUME IInv, NEW p \in Installers
    PROVE  /\ stack[p] # <<>> =>
                /\ Top(p) \in Frames /\ Here(p) \in Places
                /\ Tail(stack[p]) \in Seq(Frames)
           /\ Payload \in Contents /\ Payload.sha \in Shas
           /\ <<>> \in Seq(Frames)
<1>1. stack[p] \in Seq(Frames)
  BY DEF IInv, TypeOK
<1>2. stack[p] # <<>> => Top(p) \in Frames /\ Tail(stack[p]) \in Seq(Frames)
  BY <1>1, TopType DEF Top
<1>3. stack[p] # <<>> => Here(p) \in Places
  BY <1>2 DEF Here, Places, Frames
<1>4. Payload \in Contents /\ Payload.sha \in Shas
  BY DEF Payload, Contents, Shas
<1> QED BY <1>2, <1>3, <1>4

\* The recursion of install, and the commands' worklist.
LEMMA ResolveInv ==
    ASSUME IInv, NEW p \in Installers,
           NextRoot(p) \/ Descend(p) \/ ResolveRaises(p)
             \/ ReportInstalled(p) \/ BeginReplace(p)
    PROVE  IInv'
<1> USE DEF IInv, TypeOK
<1>t. stack[p] # <<>> => Top(p) \in Frames /\ Tail(stack[p]) \in Seq(Frames)
  BY LocalTypes
<1>1. CASE NextRoot(p)
  <2>1. roots[p] \in Seq(Tools)
    OBVIOUS
  <2>2. roots[p] # <<>> => Head(roots[p]) \in Tools /\ Tail(roots[p]) \in Seq(Tools)
    BY <2>1
  <2>3. roots[p] # <<>> => <<Frame(Head(roots[p]), Latest)>> \in Seq(Frames)
    BY <2>2, FrameType, LatestAssumption
  <2>4. TypeOK'
    BY <1>1, <2>2, <2>3 DEF NextRoot, Goto, PCs, Ended
  <2>5. LockInv'
    BY <1>1 DEF NextRoot, Goto, LockInv, ReplacePoints, LockedPoints
  <2> QED BY <2>4, <2>5
<1>2. CASE Descend(p)
  <2>1. stack[p] # <<>> /\ Top(p).todo # <<>> /\ Head(Top(p).todo) \in Tools
    BY <1>2, <1>t DEF Descend, Waiting, Frames
  <2>2. Frame(Head(Top(p).todo), Latest) \in Frames
    BY <2>1, FrameType, LatestAssumption
  <2>3. <<Frame(Head(Top(p).todo), Latest)>> \o Caller(p) \in Seq(Frames)
    BY <2>1, <2>2, PushType DEF Top, Caller
  <2>4. TypeOK'
    BY <1>2, <2>3, EmptySeq DEF Descend, Fail, Goto, PCs, Ended
  <2>5. LockInv'
    BY <1>2 DEF Descend, Waiting, Fail, Goto, LockInv, ReplacePoints, LockedPoints
  <2> QED BY <2>4, <2>5
<1>3. CASE ResolveRaises(p)
  <2>1. TypeOK'
    BY <1>3, EmptySeq DEF ResolveRaises, Fail, Goto, PCs, Ended
  <2>2. LockInv'
    BY <1>3 DEF ResolveRaises, Fail, Goto, LockInv, ReplacePoints, LockedPoints
  <2> QED BY <2>1, <2>2
<1>4. CASE ReportInstalled(p)
  <2>1. TypeOK'
    BY <1>4, <1>t DEF ReportInstalled, Resolved, Finish, Goto, PCs
  <2>2. LockInv'
    BY <1>4 DEF ReportInstalled, Resolved, Finish, Goto, LockInv, ReplacePoints, LockedPoints
  <2> QED BY <2>1, <2>2
<1>5. CASE BeginReplace(p)
  <2>1. TypeOK'
    BY <1>5 DEF BeginReplace, Goto, PCs, TryPoints
  <2>2. LockInv'
    BY <1>5 DEF BeginReplace, Resolved, Goto, LockInv, ReplacePoints, LockedPoints
  <2> QED BY <2>1, <2>2
<1> QED BY <1>1, <1>2, <1>3, <1>4, <1>5

\* Staging and replacing the directory: nothing here holds the manifest lock.
LEMMA ReplaceInv ==
    ASSUME IInv, NEW p \in Installers,
           Stage(p) \/ StageRaises(p) \/ LookAtDestination(p) \/ MoveAside(p)
             \/ Place(p) \/ PlaceRaises(p)
    PROVE  IInv'
<1> USE DEF IInv, TypeOK
<1>h. pc[p] \in ReplacePoints => stack[p] # <<>> /\ Here(p) \in Places
  BY LocalTypes DEF LockInv
<1>1. CASE Stage(p) \/ StageRaises(p) \/ LookAtDestination(p)
  <2>1. TypeOK'
    BY <1>1 DEF Stage, StageRaises, LookAtDestination, Goto, PCs, TryPoints
  <2>2. LockInv'
    BY <1>1 DEF Stage, StageRaises, LookAtDestination, Goto, LockInv, ReplacePoints, LockedPoints
  <2> QED BY <2>1, <2>2
<1>2. CASE MoveAside(p)
  <2>1. TypeOK'
    BY <1>2, <1>h DEF MoveAside, Goto, PCs, TryPoints, ReplacePoints
  <2>2. LockInv'
    BY <1>2 DEF MoveAside, Goto, LockInv, ReplacePoints, LockedPoints
  <2> QED BY <2>1, <2>2
<1>3. CASE Place(p)
  <2>1. TypeOK'
    BY <1>3, LocalTypes DEF Place, Goto, PCs, TryPoints
  <2>2. LockInv'
    BY <1>3 DEF Place, Goto, LockInv, ReplacePoints, LockedPoints
  <2> QED BY <2>1, <2>2
<1>4. CASE PlaceRaises(p)
  <2>1. TypeOK'
    BY <1>4 DEF PlaceRaises, Goto, PCs
  <2>2. LockInv'
    BY <1>4 DEF PlaceRaises, Goto, LockInv, ReplacePoints, LockedPoints
  <2> QED BY <2>1, <2>2
<1> QED BY <1>1, <1>2, <1>3, <1>4

\* Nobody else is inside the lock while p is.
LEMMA Alone ==
    ASSUME LockInv, NEW p \in Installers, NEW q \in Installers,
           pc[p] \in LockedPoints, pc[q] \in LockedPoints
    PROVE  p = q
BY DEF LockInv

\* The critical section of the manifest.
LEMMA RecordInv ==
    ASSUME IInv, NEW p \in Installers,
           LockManifest(p) \/ ReadManifest(p) \/ WriteManifest(p) \/ RecordRaises(p)
    PROVE  IInv'
<1> USE DEF IInv, TypeOK
<1>1. CASE LockManifest(p)
  <2>1. TypeOK'
    BY <1>1 DEF LockManifest, Goto, PCs, TryPoints
  <2>2. LockInv'
    BY <1>1, NoneAssumption DEF LockManifest, Goto, LockInv, ReplacePoints, LockedPoints
  <2> QED BY <2>1, <2>2
<1>2. CASE ReadManifest(p)
  <2>1. TypeOK'
    BY <1>2 DEF ReadManifest, Goto, PCs, TryPoints
  <2>2. LockInv'
    BY <1>2 DEF ReadManifest, Goto, LockInv, ReplacePoints, LockedPoints
  <2> QED BY <2>1, <2>2
<1>3. CASE WriteManifest(p)
  <2>1. copy[p] = manifest
    BY <1>3 DEF WriteManifest, LockInv
  <2>2. stack[p] # <<>> =>
            Top(p).tool \in Tools /\ [ver |-> Top(p).ver, sha |-> Payload.sha] \in Entries
    BY LocalTypes DEF Frames, Entries
  <2>3. manifest' \in Manifests
    <3>1. CASE stack[p] = <<>>
      BY <1>3, <2>1, <3>1 DEF WriteManifest, Manifests
    <3>2. CASE stack[p] # <<>>
      <4> DEFINE entry == [ver |-> Top(p).ver, sha |-> Payload.sha]
      <4>1. manifest' = [manifest EXCEPT !.installed[Top(p).tool] = entry]
        BY <1>3, <2>1, <3>2 DEF WriteManifest
      <4>2. entry \in Entries
        BY <2>2, <3>2
      <4> HIDE DEF entry
      <4>3. manifest' = [installed |-> [manifest.installed EXCEPT ![Top(p).tool] = entry],
                         required |-> manifest.required]
        BY <4>1 DEF Manifests
      <4> QED BY <4>2, <4>3 DEF Manifests
    <3> QED BY <3>1, <3>2
  <2>4. pc' \in [Installers -> PCs] /\ lock' \in Installers \cup {None}
    BY <1>3 DEF WriteManifest, Goto, Release, PCs, TryPoints
  <2>5. TypeOK'
    BY <1>3, <2>3, <2>4 DEF WriteManifest
  <2>6. ASSUME NEW q \in Installers, pc'[q] \in LockedPoints
        PROVE  FALSE
    <3>1. q # p
      BY <1>3, <2>6 DEF WriteManifest, Goto, LockedPoints
    <3>2. pc[q] \in LockedPoints
      BY <1>3, <2>6, <3>1 DEF WriteManifest, Goto
    <3> QED BY <1>3, <3>1, <3>2, Alone DEF WriteManifest, LockedPoints
  <2>7. ASSUME NEW q \in Installers, pc'[q] \in ReplacePoints
        PROVE  stack'[q] # <<>>
    BY <1>3, <2>7 DEF WriteManifest, Goto, LockInv, ReplacePoints
  <2>8. LockInv'
    BY <2>6, <2>7 DEF LockInv, LockedPoints
  <2> QED BY <2>5, <2>8
<1>4. CASE RecordRaises(p)
  <2>1. TypeOK'
    BY <1>4 DEF RecordRaises, Release, Goto, PCs, TryPoints, Ended
  <2>2. ASSUME NEW q \in Installers, pc'[q] \in LockedPoints
        PROVE  FALSE
    <3>1. q # p
      BY <1>4, <2>2 DEF RecordRaises, Goto, LockedPoints
    <3>2. pc[q] \in LockedPoints
      BY <1>4, <2>2, <3>1 DEF RecordRaises, Goto
    <3> QED BY <1>4, <3>1, <3>2, Alone DEF RecordRaises, LockedPoints
  <2>3. ASSUME NEW q \in Installers, pc'[q] \in ReplacePoints
        PROVE  stack'[q] # <<>>
    BY <1>4, <2>3 DEF RecordRaises, Goto, LockInv, ReplacePoints
  <2>4. LockInv'
    BY <2>2, <2>3 DEF LockInv, LockedPoints
  <2> QED BY <2>1, <2>4
<1> QED BY <1>1, <1>2, <1>3, <1>4

\* Undoing, committing and the finally clause.
LEMMA SettleInv ==
    ASSUME IInv, NEW p \in Installers,
           RemoveNew(p) \/ RemovedNew(p) \/ RemoveRaises(p) \/ PutBack(p)
             \/ Commit(p) \/ Unwind(p) \/ UnwindRaises(p)
    PROVE  IInv'
<1> USE DEF IInv, TypeOK
<1>h. pc[p] \in ReplacePoints =>
          stack[p] # <<>> /\ Here(p) \in Places /\ Tail(stack[p]) \in Seq(Frames)
  BY LocalTypes DEF LockInv
<1>1. CASE RemoveNew(p)
  <2>1. dir[Here(p)] # None => [dir[Here(p)] EXCEPT !.whole = FALSE] \in Contents
    BY <1>1, <1>h DEF RemoveNew, ReplacePoints, Contents
  <2>2. TypeOK'
    BY <1>1, <2>1 DEF RemoveNew, Goto, PCs, TryPoints
  <2>3. LockInv'
    BY <1>1 DEF RemoveNew, Goto, LockInv, ReplacePoints, LockedPoints
  <2> QED BY <2>2, <2>3
<1>2. CASE RemovedNew(p) \/ RemoveRaises(p)
  <2>1. TypeOK'
    BY <1>2 DEF RemovedNew, RemoveRaises, Goto, PCs, TryPoints
  <2>2. LockInv'
    BY <1>2 DEF RemovedNew, RemoveRaises, Goto, LockInv, ReplacePoints, LockedPoints
  <2> QED BY <2>1, <2>2
<1>3. CASE PutBack(p)
  <2>1. TypeOK'
    BY <1>3 DEF PutBack, Goto, PCs
  <2>2. LockInv'
    BY <1>3 DEF PutBack, Goto, LockInv, ReplacePoints, LockedPoints
  <2> QED BY <2>1, <2>2
<1>4. CASE Commit(p)
  <2>1. TypeOK'
    BY <1>4, <1>h DEF Commit, Finish, Goto, PCs, ReplacePoints
  <2>2. LockInv'
    BY <1>4 DEF Commit, Finish, Goto, LockInv, ReplacePoints, LockedPoints
  <2> QED BY <2>1, <2>2
<1>5. CASE Unwind(p) \/ UnwindRaises(p)
  <2>1. TypeOK'
    BY <1>5, EmptySeq DEF Unwind, UnwindRaises, Fail, Goto, PCs, Ended
  <2>2. LockInv'
    BY <1>5 DEF Unwind, UnwindRaises, Fail, Goto, LockInv, ReplacePoints, LockedPoints
  <2> QED BY <2>1, <2>2
<1> QED BY <1>1, <1>2, <1>3, <1>4, <1>5

\* An interrupt or a kill releases the lock of its process, and no other.
LEMMA StopInv ==
    ASSUME IInv, NEW p \in Installers, Interrupt(p) \/ Crash(p)
    PROVE  IInv'
<1> USE DEF IInv, TypeOK
<1>1. pc' = [pc EXCEPT ![p] = pc'[p]] /\ pc'[p] \in {"unwinding", "failed", "dead"}
  BY DEF Interrupt, Crash, Fail, Goto
<1>2. TypeOK'
  <2>1. stack' \in [Installers -> Seq(Frames)]
    BY EmptySeq DEF Interrupt, Crash, Fail
  <2>2. pc' \in [Installers -> PCs]
    BY <1>1 DEF PCs, Ended
  <2> QED BY <2>1, <2>2 DEF Interrupt, Crash, Release
<1>3. ASSUME NEW q \in Installers
      PROVE  /\ pc'[q] \in ReplacePoints => stack'[q] # <<>>
             /\ pc'[q] \in LockedPoints => lock' = q
             /\ pc'[q] = "writing" => copy'[q] = manifest'
  <2>1. CASE q = p
    BY <1>1, <2>1 DEF Interrupt, Crash, Fail, Goto, ReplacePoints, LockedPoints
  <2>2. CASE q # p
    BY <1>1, <2>2 DEF Interrupt, Crash, Fail, Release, LockInv, ReplacePoints, LockedPoints
  <2> QED BY <2>1, <2>2
<1>4. LockInv'
  BY <1>3 DEF LockInv
<1> QED BY <1>2, <1>4

LEMMA StepInv == IInv /\ [Next]_vars => IInv'
<1> SUFFICES ASSUME IInv, [Next]_vars PROVE IInv'
  OBVIOUS
<1>1. CASE UNCHANGED vars
  BY <1>1 DEF vars, IInv, TypeOK, LockInv
<1>2. ASSUME NEW p \in Installers, Command(p) \/ Continue(p) \/ Interrupt(p) \/ Crash(p)
      PROVE  IInv'
  BY <1>2, CommandInv, ResolveInv, ReplaceInv, RecordInv, SettleInv, StopInv DEF Continue
<1> QED BY <1>1, <1>2 DEF Next

LEMMA Inductive == Spec => []IInv
BY InitInv, StepInv, PTL DEF Spec

-----------------------------------------------------------------------------
(* The theorems. *)

\* The manifest and the directories always have the shape that the resource
\* manager and the desktop application read.
THEOREM TypeCorrect == Spec => []TypeOK
<1>1. IInv => TypeOK
  BY DEF IInv
<1> QED BY <1>1, Inductive, PTL

\* A step changes the manifest only as its writer read it, under the lock.
LEMMA ManifestStep ==
    ASSUME IInv, [Next]_vars, manifest' # manifest
    PROVE  \E p \in Installers : WriteManifest(p) /\ copy[p] = manifest
<1>1. PICK p \in Installers : Command(p) \/ Continue(p) \/ Interrupt(p) \/ Crash(p)
  BY DEF Next, vars
<1>2. WriteManifest(p)
  BY <1>1 DEF Command, InstallCommand, InstallRequired, Continue, NextRoot, Descend,
     ResolveRaises, ReportInstalled, BeginReplace, Stage, StageRaises,
     LookAtDestination, MoveAside, Place, PlaceRaises, LockManifest, ReadManifest,
     RecordRaises, RemoveNew, RemovedNew, RemoveRaises, PutBack, Commit, Unwind,
     UnwindRaises, Interrupt, Crash
<1> QED BY <1>2 DEF IInv, LockInv, WriteManifest

\* A step that writes the manifest keeps what was in it.
LEMMA SurvivesStep == IInv /\ [Next]_vars => [ManifestKept]_vars
<1> SUFFICES ASSUME IInv, [Next]_vars, manifest' # manifest PROVE ManifestKept
  BY DEF ManifestKept
<1>1. PICK p \in Installers : WriteManifest(p) /\ copy[p] = manifest
  BY ManifestStep
<1>2. manifest \in Manifests /\ manifest.installed \in [Tools -> Entries \cup {None}]
  BY DEF IInv, TypeOK, Manifests
<1>3. CASE stack[p] = <<>>
  BY <1>1, <1>2, <1>3 DEF WriteManifest, ManifestKept, Manifests
<1>4. CASE stack[p] # <<>>
  <2> DEFINE entry == [ver |-> Top(p).ver, sha |-> Payload.sha]
  <2>1. Top(p).tool \in Tools /\ entry \in Entries
    BY <1>4, LocalTypes DEF Frames, Entries
  <2>2. manifest' = [manifest EXCEPT !.installed[Top(p).tool] = entry]
    BY <1>1, <1>4 DEF WriteManifest
  <2>3. manifest'.required = manifest.required
    BY <1>2, <2>2 DEF Manifests
  <2>4. \A t \in Tools : t # Top(p).tool => manifest'.installed[t] = manifest.installed[t]
    BY <1>2, <2>2 DEF Manifests
  <2>5. manifest'.installed[Top(p).tool] = entry
    BY <1>2, <2>1, <2>2 DEF Manifests
  <2>6. entry # None
    BY <2>1, NoneAssumption
  <2> QED BY <1>4, <2>3, <2>4, <2>5, <2>6 DEF ManifestKept
<1> QED BY <1>3, <1>4

\* No entry of the manifest, nor the recorded required set, is ever lost to
\* another installer, whatever raises, is interrupted or is killed
\* (_record_install and _record_required_resources under _manifest_lock).
THEOREM EntriesAreNeverLost == Spec => EntriesSurvive
BY Inductive, SurvivesStep, PTL DEF Spec, EntriesSurvive

-----------------------------------------------------------------------------
(* Dependency-first order.  Every requirement of a tool whose installation *)
(* is in progress is still on its worklist, is being installed by the call *)
(* on top of it, or has an entry in the manifest, where it stays.          *)

\* The tools that have an entry.
InManifest == {t \in Tools : manifest.installed[t] # None}

\* s: the calls in progress; have: the tools that have been recorded.
Covered(s, have) ==
    \A k \in 1..Len(s) : \A i \in 1..Len(Requires[s[k].tool]) :
        \/ \E j \in 1..Len(s[k].todo) : s[k].todo[j] = Requires[s[k].tool][i]
        \/ Requires[s[k].tool][i] \in have
        \/ k > 1 /\ s[k - 1].tool = Requires[s[k].tool][i]

\* Where the requirements of the innermost call have all been dealt with.
WorkPoints == ReplacePoints \cup {"recording"} \cup LockedPoints

\* A call records its tool when its worklist is empty, and then all requirements are there.
Prepared(p) ==
    /\ Covered(stack[p], InManifest)
    /\ pc[p] = "idle" => stack[p] = <<>>
    /\ pc[p] \in WorkPoints /\ stack[p] # <<>> => Top(p).todo = <<>>
    /\ pc[p] = "committing" => Top(p).tool \in InManifest

DepsInv == \A p \in Installers : Prepared(p)

\* What a tool requires is tools.
LEMMA RequiresType ==
    ASSUME NEW t \in Tools
    PROVE  /\ Requires[t] \in Seq(Tools) /\ Len(Requires[t]) \in Nat
           /\ DOMAIN Requires[t] = 1..Len(Requires[t])
           /\ \A i \in 1..Len(Requires[t]) : Requires[t][i] \in Tools
BY RequiresAssumption

LEMMA CoveredEmpty == \A have : Covered(<<>>, have)
BY DEF Covered

\* A call that begins has its whole worklist before it.
LEMMA CoveredCall ==
    ASSUME NEW t \in Tools, NEW v \in Versions, NEW have
    PROVE  Covered(<<Frame(t, v)>>, have)
<1>1. Frame(t, v).tool = t /\ Frame(t, v).todo = Requires[t]
  BY DEF Frame
<1> DEFINE s == <<Frame(t, v)>>
<1>2. Len(s) = 1 /\ s[1] = Frame(t, v)
  OBVIOUS
<1> HIDE DEF s
<1> QED BY <1>1, <1>2 DEF Covered, s

LEMMA CoveredMore ==
    ASSUME NEW s, NEW have, NEW more, have \subseteq more, Covered(s, have)
    PROVE  Covered(s, more)
BY DEF Covered

\* Where a pushed call finds its callers.
LEMMA PushIndex ==
    ASSUME NEW u \in Seq(Frames), NEW f \in Frames
    PROVE  /\ Len(<<f>> \o u) = Len(u) + 1 /\ (<<f>> \o u)[1] = f
           /\ \A k \in 1..Len(u) : (<<f>> \o u)[k + 1] = u[k]
<1>1. <<f>> \in Seq(Frames) /\ Len(<<f>>) = 1 /\ <<f>>[1] = f
  OBVIOUS
<1>2. Len(<<f>> \o u) = Len(u) + 1
  BY <1>1
<1>3. (<<f>> \o u)[1] = f
  BY <1>1
<1>4. ASSUME NEW k \in 1..Len(u)
      PROVE  (<<f>> \o u)[k + 1] = u[k]
  BY <1>1, <1>4
<1> QED BY <1>2, <1>3, <1>4

LEMMA DeepIndex ==
    ASSUME NEW n \in Nat, NEW k \in 1..(n + 1), k # 1, k # 2
    PROVE  /\ k > 2 /\ k > 1 /\ k - 1 > 1 /\ k - 1 \in 2..n /\ k - 1 \in 1..n
           /\ k - 2 \in 1..n /\ (k - 1) + 1 = k /\ (k - 2) + 1 = k - 1
           /\ (k - 1) - 1 = k - 2
OBVIOUS

\* The caller takes its next requirement off its worklist and calls install.
LEMMA CoveredPush ==
    ASSUME NEW s \in Seq(Frames), s # <<>>, NEW have, Covered(s, have), Head(s).todo # <<>>,
           NEW f \in Frames, f.tool = Head(Head(s).todo), f.todo = Requires[f.tool]
    PROVE  Covered(<<f>> \o [s EXCEPT ![1].todo = Tail(@)], have)
<1> DEFINE u == [s EXCEPT ![1].todo = Tail(@)]
           w == <<f>> \o u
<1>0. Len(s) \in Nat /\ Len(s) > 0 /\ s[1] = Head(s) /\ s[1] \in Frames
  OBVIOUS
<1>t. s[1].todo \in Seq(Tools) /\ s[1].todo # <<>>
  BY <1>0 DEF Frames
<1>1. /\ Len(s) \in Nat /\ Len(s) > 0 /\ s[1] = Head(s) /\ s[1] \in Frames
      /\ s[1].todo \in Seq(Tools) /\ s[1].todo # <<>>
  BY <1>0, <1>t
<1>2. /\ u \in Seq(Frames) /\ Len(u) = Len(s)
      /\ u[1] = [s[1] EXCEPT !.todo = Tail(@)]
      /\ \A k \in 2..Len(s) : u[k] = s[k]
  <2>1. Tail(s[1].todo) \in Seq(Tools)
    BY <1>1
  <2>2. [s[1] EXCEPT !.todo = Tail(@)] \in Frames
    BY <1>1, <2>1 DEF Frames
  <2> PICK g \in Frames : g = [s[1] EXCEPT !.todo = Tail(@)]
    BY <2>2
  <2>3. u = [s EXCEPT ![1] = g]
    OBVIOUS
  <2>4. u \in Seq(Frames) /\ Len(u) = Len(s)
    BY <1>0, <2>3
  <2>5. DOMAIN s = 1..Len(s) /\ 1 \in DOMAIN s
    BY <1>0
  <2>6. u[1] = g
    BY <2>3, <2>5
  <2>7. ASSUME NEW k \in 2..Len(s)
        PROVE  u[k] = s[k]
    <3>1. k \in DOMAIN s /\ k # 1
      BY <1>0, <2>5
    <3> QED BY <2>3, <3>1
  <2> QED BY <2>4, <2>6, <2>7
<1>3. u[1].tool = s[1].tool /\ u[1].todo = Tail(s[1].todo)
  BY <1>1, <1>2 DEF Frames
<1> HIDE DEF u
<1>4. Len(w) = Len(s) + 1 /\ w[1] = f /\ \A k \in 1..Len(s) : w[k + 1] = u[k]
  BY <1>1, <1>2, PushIndex
<1> HIDE DEF w
<1>5. ASSUME NEW k \in 1..Len(w), NEW i \in 1..Len(Requires[w[k].tool])
      PROVE  \/ \E j \in 1..Len(w[k].todo) : w[k].todo[j] = Requires[w[k].tool][i]
             \/ Requires[w[k].tool][i] \in have
             \/ k > 1 /\ w[k - 1].tool = Requires[w[k].tool][i]
  <2>1. CASE k = 1
    BY <1>4, <2>1
  <2>2. CASE k = 2
    <3>1. /\ w[k] = u[1] /\ w[k].tool = s[1].tool /\ w[k].todo = Tail(s[1].todo)
          /\ w[k - 1] = f /\ k > 1 /\ 1 \in 1..Len(s)
      BY <1>1, <1>3, <1>4, <2>2
    <3> DEFINE r == Requires[s[1].tool][i]
    <3>2. \/ \E j \in 1..Len(s[1].todo) : s[1].todo[j] = r
          \/ r \in have
      BY <3>1 DEF Covered
    <3>3. ASSUME NEW j \in 1..Len(s[1].todo), s[1].todo[j] = r
          PROVE  \/ \E m \in 1..Len(Tail(s[1].todo)) : Tail(s[1].todo)[m] = r
                 \/ f.tool = r
      <4>1. CASE j = 1
        BY <1>1, <3>3, <4>1
      <4>2. CASE j # 1
        <5>1. /\ j - 1 \in 1..Len(Tail(s[1].todo))
              /\ Tail(s[1].todo)[j - 1] = s[1].todo[j]
          BY <1>1, <4>2
        <5> QED BY <3>3, <5>1
      <4> QED BY <4>1, <4>2
    <3> HIDE DEF r
    <3>4. \/ \E m \in 1..Len(w[k].todo) : w[k].todo[m] = r
          \/ r \in have
          \/ k > 1 /\ w[k - 1].tool = r
      BY <3>1, <3>2, <3>3
    <3> QED BY <3>1, <3>4 DEF r
  <2>3. CASE k # 1 /\ k # 2
    <3>1. /\ k - 1 \in 2..Len(s) /\ w[k] = s[k - 1] /\ k > 1 /\ k - 1 > 1
          /\ k - 2 \in 1..Len(s) /\ w[k - 1] = u[k - 2] /\ (k - 1) - 1 = k - 2
      <4>1. Len(w) = Len(s) + 1 /\ Len(s) \in Nat
        BY <1>1, <1>4
      <4>2. k \in 1..(Len(s) + 1)
        BY <4>1
      <4>3. /\ k > 2 /\ k > 1 /\ k - 1 > 1 /\ k - 1 \in 2..Len(s) /\ k - 1 \in 1..Len(s)
            /\ k - 2 \in 1..Len(s) /\ (k - 1) + 1 = k /\ (k - 2) + 1 = k - 1
            /\ (k - 1) - 1 = k - 2
        BY <4>1, <4>2, <2>3, DeepIndex
      <4>4. w[k] = u[k - 1] /\ w[k - 1] = u[k - 2]
        BY <1>4, <4>3
      <4>5. u[k - 1] = s[k - 1]
        BY <1>2, <4>3
      <4> QED BY <4>3, <4>4, <4>5
    <3>2. w[k - 1].tool = s[k - 2].tool
      <4>1. CASE k - 2 = 1
        BY <1>3, <3>1, <4>1
      <4>2. CASE k - 2 # 1
        BY <1>2, <3>1, <4>2
      <4> QED BY <4>1, <4>2
    <3>3. k - 1 \in 1..Len(s)
      BY <3>1
    <3>4. \/ \E j \in 1..Len(s[k - 1].todo) : s[k - 1].todo[j] = Requires[s[k - 1].tool][i]
          \/ Requires[s[k - 1].tool][i] \in have
          \/ s[k - 2].tool = Requires[s[k - 1].tool][i]
      BY <3>1, <3>3 DEF Covered
    <3> QED BY <3>1, <3>2, <3>4
  <2> QED BY <2>1, <2>2, <2>3
<1>6. Covered(w, have)
  BY <1>5 DEF Covered
<1> QED BY <1>6 DEF w, u

\* The innermost call returns when its tool is recorded.
LEMMA CoveredPop ==
    ASSUME NEW s \in Seq(Frames), s # <<>>, NEW have, Covered(s, have), Head(s).tool \in have
    PROVE  Covered(Tail(s), have)
<1> DEFINE u == Tail(s)
<1>1. /\ Len(s) \in Nat /\ Len(s) > 0 /\ Len(u) = Len(s) - 1 /\ s[1] = Head(s)
      /\ \A k \in 1..Len(u) : u[k] = s[k + 1]
  OBVIOUS
<1> HIDE DEF u
<1>2. ASSUME NEW k \in 1..Len(u), NEW i \in 1..Len(Requires[u[k].tool])
      PROVE  \/ \E j \in 1..Len(u[k].todo) : u[k].todo[j] = Requires[u[k].tool][i]
             \/ Requires[u[k].tool][i] \in have
             \/ k > 1 /\ u[k - 1].tool = Requires[u[k].tool][i]
  <2>1. k + 1 \in 1..Len(s) /\ u[k] = s[k + 1] /\ (k + 1) - 1 = k /\ k \in Nat
    BY <1>1
  <2>2. \/ \E j \in 1..Len(u[k].todo) : u[k].todo[j] = Requires[u[k].tool][i]
        \/ Requires[u[k].tool][i] \in have
        \/ s[k].tool = Requires[u[k].tool][i]
    <3>1. s[(k + 1) - 1].tool = s[k].tool
      BY <2>1
    <3> PICK m \in 1..Len(s) : m = k + 1
      BY <2>1
    <3>2. \/ \E j \in 1..Len(s[m].todo) : s[m].todo[j] = Requires[s[m].tool][i]
          \/ Requires[s[m].tool][i] \in have
          \/ m > 1 /\ s[m - 1].tool = Requires[s[m].tool][i]
      BY <2>1 DEF Covered
    <3> QED BY <2>1, <3>1, <3>2
  <2>3. CASE k = 1
    BY <1>1, <2>2, <2>3
  <2>4. CASE k # 1
    <3>1. k > 1 /\ k - 1 \in 1..Len(u) /\ (k - 1) + 1 = k
      BY <1>1, <2>4
    <3>2. u[k - 1] = s[k]
      BY <1>1, <3>1
    <3> QED BY <2>2, <3>1, <3>2
  <2> QED BY <2>3, <2>4
<1>3. Covered(u, have)
  BY <1>2 DEF Covered
<1> QED BY <1>3 DEF u

LEMMA DepsInit == Init => DepsInv
BY CoveredEmpty DEF Init, DepsInv, Prepared, WorkPoints, ReplacePoints, LockedPoints

\* What is in the manifest stays there (ManifestKept).
LEMMA ManifestGrows == IInv /\ [Next]_vars => InManifest \subseteq InManifest'
<1> SUFFICES ASSUME IInv, [Next]_vars, NEW t \in Tools, manifest.installed[t] # None
             PROVE  manifest'.installed[t] # None
  BY DEF InManifest
<1>1. CASE manifest' = manifest
  BY <1>1
<1>2. CASE manifest' # manifest
  <2>1. ManifestKept
    BY <1>2, SurvivesStep DEF vars
  <2> QED BY <2>1 DEF ManifestKept
<1> QED BY <1>1, <1>2

\* A process that does not move stays prepared, whatever the others record.
LEMMA PreparedStays ==
    ASSUME NEW q \in Installers, Prepared(q), InManifest \subseteq InManifest',
           stack'[q] = stack[q], pc'[q] = pc[q]
    PROVE  Prepared(q)'
<1>1. Covered(stack[q], InManifest')
  BY CoveredMore DEF Prepared
<1> QED BY <1>1 DEF Prepared, Top

\* A step that neither calls install nor returns from it, nor writes the entry.
LEMMA PreparedSame ==
    ASSUME NEW p \in Installers, Prepared(p), InManifest \subseteq InManifest',
           stack'[p] = stack[p], pc'[p] \notin {"idle", "committing"},
           pc'[p] \in WorkPoints =>
                pc[p] \in WorkPoints \/ stack[p] = <<>> \/ Top(p).todo = <<>>
    PROVE  Prepared(p)'
<1>1. Covered(stack[p], InManifest')
  BY CoveredMore DEF Prepared
<1> QED BY <1>1 DEF Prepared, Top

\* The calls end with the command, or with an exception.
LEMMA PreparedEnd ==
    ASSUME NEW p \in Installers, stack'[p] = <<>>, pc'[p] # "committing"
    PROVE  Prepared(p)'
BY CoveredEmpty DEF Prepared

\* _install_one returns: its tool is in the manifest (Finish).
LEMMA PreparedReturn ==
    ASSUME IInv, NEW p \in Installers, Prepared(p), stack[p] # <<>>, Finish(p),
           InManifest \subseteq InManifest', Top(p).tool \in InManifest
    PROVE  Prepared(p)'
<1>1. stack[p] \in Seq(Frames) /\ Covered(stack[p], InManifest)
  BY DEF IInv, TypeOK, Prepared
<1>2. Covered(Tail(stack[p]), InManifest)
  BY <1>1, CoveredPop DEF Top
<1>3. Covered(Tail(stack[p]), InManifest')
  BY <1>2, CoveredMore
<1>4. stack'[p] = Tail(stack[p]) /\ pc'[p] = "resolving"
  BY DEF Finish, Goto, IInv, TypeOK
<1> QED BY <1>3, <1>4 DEF Prepared, WorkPoints, ReplacePoints, LockedPoints

\* A command starts.
LEMMA PreparedCommand ==
    ASSUME IInv, NEW p \in Installers, Prepared(p), Command(p),
           InManifest \subseteq InManifest'
    PROVE  Prepared(p)'
<1>1. ASSUME NEW t \in Tools, NEW v \in Versions, InstallCommand(p, t, v)
      PROVE  Prepared(p)'
  <2>1. stack'[p] = <<Frame(t, v)>> /\ pc'[p] = "resolving"
    BY <1>1 DEF InstallCommand, Goto, IInv, TypeOK
  <2>2. Covered(stack'[p], InManifest')
    BY <2>1, CoveredCall
  <2> QED BY <2>1, <2>2 DEF Prepared, WorkPoints, ReplacePoints, LockedPoints
<1>2. CASE InstallRequired(p)
  <2>1. stack'[p] = stack[p] /\ pc'[p] = "recording" /\ stack[p] = <<>>
    BY <1>2 DEF InstallRequired, Goto, IInv, TypeOK, Prepared
  <2> QED BY <2>1, PreparedSame
<1> QED BY <1>1, <1>2 DEF Command

\* The recursion: a nested call takes its requirement off its caller's worklist.
LEMMA PreparedResolve ==
    ASSUME IInv, NEW p \in Installers, Prepared(p), InManifest \subseteq InManifest',
           NextRoot(p) \/ Descend(p) \/ ResolveRaises(p)
             \/ ReportInstalled(p) \/ BeginReplace(p)
    PROVE  Prepared(p)'
<1>t. stack[p] # <<>> => Top(p) \in Frames /\ Tail(stack[p]) \in Seq(Frames)
  BY LocalTypes
<1>d. pc \in [Installers -> PCs] /\ stack \in [Installers -> Seq(Frames)] /\ roots[p] \in Seq(Tools)
  BY DEF IInv, TypeOK
<1>1. CASE NextRoot(p)
  <2>1. CASE roots[p] = <<>>
    BY <1>1, <2>1, <1>d, PreparedEnd DEF NextRoot, Goto
  <2>2. CASE roots[p] # <<>>
    <3>1. stack'[p] = <<Frame(Head(roots[p]), Latest)>> /\ pc'[p] = "resolving"
      BY <1>1, <2>2, <1>d DEF NextRoot
    <3>2. Head(roots[p]) \in Tools
      BY <1>d, <2>2
    <3>3. Covered(stack'[p], InManifest')
      BY <3>1, <3>2, CoveredCall, LatestAssumption
    <3> QED BY <3>1, <3>3 DEF Prepared, WorkPoints, ReplacePoints, LockedPoints
  <2> QED BY <2>1, <2>2
<1>2. CASE Descend(p)
  <2>1. stack[p] # <<>> /\ Top(p).todo # <<>> /\ Head(Top(p).todo) \in Tools
    BY <1>2, <1>t DEF Descend, Waiting, Frames
  <2>2. CASE Head(Top(p).todo) \in Visiting(p)
    BY <1>2, <2>2, <1>d, PreparedEnd DEF Descend, Fail, Goto
  <2>3. CASE Head(Top(p).todo) \notin Visiting(p)
    <3> PICK f \in Frames : f = Frame(Head(Top(p).todo), Latest)
      BY <2>1, FrameType, LatestAssumption
    <3>1. f.tool = Head(Head(stack[p]).todo) /\ f.todo = Requires[f.tool]
      BY DEF Frame, Top
    <3>2. Covered(<<f>> \o [stack[p] EXCEPT ![1].todo = Tail(@)], InManifest)
      BY <1>d, <2>1, <3>1, CoveredPush DEF Prepared, Top
    <3>3. stack'[p] = <<f>> \o Caller(p) /\ pc'[p] = "resolving"
      BY <1>2, <2>3, <1>d DEF Descend, Waiting
    <3>4. Covered(stack'[p], InManifest')
      BY <3>2, <3>3, CoveredMore DEF Caller
    <3> QED BY <3>3, <3>4 DEF Prepared, WorkPoints, ReplacePoints, LockedPoints
  <2> QED BY <2>2, <2>3
<1>3. CASE ResolveRaises(p)
  BY <1>3, <1>d, PreparedEnd DEF ResolveRaises, Fail, Goto
<1>4. CASE ReportInstalled(p)
  <2>1. stack[p] # <<>> /\ Finish(p) /\ Top(p).tool \in Tools
    BY <1>4, <1>t DEF ReportInstalled, Resolved, Frames
  <2>2. [ver |-> Top(p).ver, sha |-> Payload.sha] \in Entries
    BY <1>t, <2>1, LocalTypes DEF Frames, Entries
  <2>3. Top(p).tool \in InManifest
    BY <1>4, <2>1, <2>2, NoneAssumption DEF ReportInstalled, AlreadyInstalled, InManifest
  <2> QED BY <2>1, <2>3, PreparedReturn
<1>5. CASE BeginReplace(p)
  <2>1. stack'[p] = stack[p] /\ pc'[p] = "staging" /\ Top(p).todo = <<>>
    BY <1>5, <1>d DEF BeginReplace, Resolved, Goto
  <2> QED BY <2>1, PreparedSame
<1> QED BY <1>1, <1>2, <1>3, <1>4, <1>5

\* Replacing the directory, recording and undoing.
LEMMA PreparedWork ==
    ASSUME IInv, NEW p \in Installers, Prepared(p), InManifest \subseteq InManifest',
           \/ Stage(p) \/ StageRaises(p) \/ LookAtDestination(p) \/ MoveAside(p)
           \/ Place(p) \/ PlaceRaises(p)
           \/ LockManifest(p) \/ ReadManifest(p) \/ RecordRaises(p)
           \/ RemoveNew(p) \/ RemovedNew(p) \/ RemoveRaises(p) \/ PutBack(p)
    PROVE  Prepared(p)'
<1>1. stack' = stack
  BY DEF Stage, StageRaises, LookAtDestination, MoveAside, Place, PlaceRaises,
         LockManifest, ReadManifest, RecordRaises, RemoveNew, RemovedNew, RemoveRaises, PutBack
<1>2. pc[p] \in WorkPoints
  BY DEF Stage, StageRaises, LookAtDestination, MoveAside, Place, PlaceRaises,
         LockManifest, ReadManifest, RecordRaises, RemoveNew, RemovedNew, RemoveRaises, PutBack,
         WorkPoints, ReplacePoints, LockedPoints
<1>3. pc'[p] \notin {"idle", "committing"}
  BY DEF Stage, StageRaises, LookAtDestination, MoveAside, Place, PlaceRaises,
         LockManifest, ReadManifest, RecordRaises, RemoveNew, RemovedNew, RemoveRaises, PutBack,
         Goto, IInv, TypeOK
<1> QED BY <1>1, <1>2, <1>3, PreparedSame

\* The entry is written, and the new directory kept.
LEMMA PreparedSettle ==
    ASSUME IInv, NEW p \in Installers, Prepared(p), InManifest \subseteq InManifest',
           WriteManifest(p) \/ Commit(p) \/ Unwind(p) \/ UnwindRaises(p)
             \/ Interrupt(p) \/ Crash(p)
    PROVE  Prepared(p)'
<1>d. pc \in [Installers -> PCs] /\ stack \in [Installers -> Seq(Frames)]
  BY DEF IInv, TypeOK
<1>1. CASE WriteManifest(p)
  <2>1. CASE stack[p] = <<>>
    BY <1>1, <2>1, <1>d, PreparedEnd DEF WriteManifest, Goto
  <2>2. CASE stack[p] # <<>>
    <3>1. stack'[p] = stack[p] /\ pc'[p] = "committing" /\ Top(p).todo = <<>>
      BY <1>1, <2>2, <1>d
         DEF WriteManifest, Goto, Prepared, WorkPoints, LockedPoints
    <3> DEFINE entry == [ver |-> Top(p).ver, sha |-> Payload.sha]
    <3>2. Top(p).tool \in Tools /\ entry \in Entries
      BY <2>2, LocalTypes DEF Frames, Entries
    <3>3. copy[p] = manifest /\ manifest \in Manifests
      BY <1>1 DEF WriteManifest, IInv, LockInv, TypeOK
    <3>4. manifest' = [manifest EXCEPT !.installed[Top(p).tool] = entry]
      BY <1>1, <2>2, <3>3 DEF WriteManifest
    <3>5. manifest'.installed[Top(p).tool] = entry
      BY <3>2, <3>3, <3>4 DEF Manifests
    <3>6. Top(p).tool \in InManifest'
      BY <3>2, <3>5, NoneAssumption DEF InManifest
    <3>7. Covered(stack[p], InManifest')
      BY CoveredMore DEF Prepared
    <3> QED BY <3>1, <3>6, <3>7 DEF Prepared, Top
  <2> QED BY <2>1, <2>2
<1>2. CASE Commit(p)
  <2>1. stack[p] # <<>> /\ Finish(p) /\ Top(p).tool \in InManifest
    BY <1>2 DEF Commit, IInv, LockInv, ReplacePoints, Prepared
  <2> QED BY <2>1, PreparedReturn
<1>3. CASE Unwind(p) \/ UnwindRaises(p) \/ Crash(p)
  BY <1>3, <1>d, PreparedEnd DEF Unwind, UnwindRaises, Crash, Fail, Goto
<1>4. CASE Interrupt(p)
  <2>1. CASE pc[p] \in TryPoints /\ stack[p] # <<>>
    <3>1. stack' = stack /\ pc'[p] = "unwinding"
      BY <1>4, <2>1, <1>d DEF Interrupt, Goto
    <3>2. pc[p] \in WorkPoints
      BY <2>1 DEF TryPoints, WorkPoints, ReplacePoints, LockedPoints
    <3> QED BY <3>1, <3>2, PreparedSame
  <2>2. CASE ~(pc[p] \in TryPoints /\ stack[p] # <<>>)
    BY <1>4, <2>2, <1>d, PreparedEnd DEF Interrupt, Fail, Goto
  <2> QED BY <2>1, <2>2
<1> QED BY <1>1, <1>2, <1>3, <1>4

\* An action of one process leaves the others where they are.
LEMMA OthersStay ==
    ASSUME IInv, NEW p \in Installers,
           Command(p) \/ Continue(p) \/ Interrupt(p) \/ Crash(p),
           NEW q \in Installers, q # p
    PROVE  pc'[q] = pc[q] /\ stack'[q] = stack[q]
<1>1. \/ pc' = pc
      \/ \E x : pc' = [pc EXCEPT ![p] = x]
  BY DEF Command, InstallCommand, InstallRequired, Continue, NextRoot, Descend,
     ResolveRaises, ReportInstalled, BeginReplace, Stage, StageRaises,
     LookAtDestination, MoveAside, Place, PlaceRaises, LockManifest, ReadManifest,
     WriteManifest, RecordRaises, RemoveNew, RemovedNew, RemoveRaises, PutBack,
     Commit, Unwind, UnwindRaises, Interrupt, Crash, Fail, Finish, Goto
<1>2. \/ stack' = stack
      \/ \E x : stack' = [stack EXCEPT ![p] = x]
  BY DEF Command, InstallCommand, InstallRequired, Continue, NextRoot, Descend,
     ResolveRaises, ReportInstalled, BeginReplace, Stage, StageRaises,
     LookAtDestination, MoveAside, Place, PlaceRaises, LockManifest, ReadManifest,
     WriteManifest, RecordRaises, RemoveNew, RemovedNew, RemoveRaises, PutBack,
     Commit, Unwind, UnwindRaises, Interrupt, Crash, Fail, Finish, Goto
<1> QED BY <1>1, <1>2 DEF IInv, TypeOK

LEMMA DepsStep == IInv /\ DepsInv /\ [Next]_vars => DepsInv'
<1> SUFFICES ASSUME IInv, DepsInv, [Next]_vars PROVE DepsInv'
  OBVIOUS
<1>1. InManifest \subseteq InManifest'
  BY ManifestGrows
<1>2. CASE UNCHANGED vars
  BY <1>2, <1>1, PreparedStays DEF vars, DepsInv
<1>3. ASSUME NEW p \in Installers, Command(p) \/ Continue(p) \/ Interrupt(p) \/ Crash(p)
      PROVE  DepsInv'
  <2>1. Prepared(p)'
    BY <1>1, <1>3, PreparedCommand, PreparedResolve, PreparedWork, PreparedSettle
       DEF Continue, DepsInv
  <2>2. ASSUME NEW q \in Installers, q # p
        PROVE  Prepared(q)'
    BY <1>1, <1>3, <2>2, OthersStay, PreparedStays DEF DepsInv
  <2> QED BY <2>1, <2>2 DEF DepsInv
<1> QED BY <1>2, <1>3 DEF Next

LEMMA DepsHold == Spec => [](IInv /\ DepsInv)
BY InitInv, StepInv, DepsInit, DepsStep, PTL DEF Spec

\* Who writes an entry has the requirements of its tool in the manifest.
LEMMA RecordedLast ==
    ASSUME IInv, DepsInv, [Next]_vars,
           NEW t \in Tools, manifest'.installed[t] # manifest.installed[t]
    PROVE  \A i \in DOMAIN Requires[t] : manifest.installed[Requires[t][i]] # None
<1>1. PICK p \in Installers : WriteManifest(p) /\ copy[p] = manifest
  BY ManifestStep
<1>2. manifest \in Manifests /\ stack[p] \in Seq(Frames) /\ Prepared(p)
  BY DEF IInv, TypeOK, DepsInv
<1>3. CASE stack[p] = <<>>
  BY <1>1, <1>2, <1>3 DEF WriteManifest, Manifests
<1>4. CASE stack[p] # <<>>
  <2> DEFINE entry == [ver |-> Top(p).ver, sha |-> Payload.sha]
  <2>1. manifest' = [manifest EXCEPT !.installed[Top(p).tool] = entry]
    BY <1>1, <1>4 DEF WriteManifest
  <2>2. Top(p).tool = t
    BY <1>2, <2>1 DEF Manifests
  <2>3. pc[p] \in WorkPoints
    BY <1>1 DEF WriteManifest, WorkPoints, LockedPoints
  <2>4. Top(p).todo = <<>>
    BY <1>2, <1>4, <2>3 DEF Prepared
  <2>5. Len(stack[p]) >= 1 /\ stack[p][1] = Top(p) /\ 1 \in 1..Len(stack[p])
    BY <1>2, <1>4 DEF Top
  <2>6. stack[p][1].todo = <<>> /\ stack[p][1].tool = t
    BY <2>2, <2>4, <2>5
  <2>7. \A i \in 1..Len(Requires[t]) : Requires[t][i] \in InManifest
    BY <1>2, <2>5, <2>6 DEF Prepared, Covered
  <2> QED BY <2>7, RequiresType DEF InManifest
<1> QED BY <1>3, <1>4

\* Install order is dependency-first, across any number of installers that share
\* the manifest and whatever fails: when a tool enters the manifest, all that it
\* requires is there (install, _install_one, _record_install).
THEOREM DependenciesComeFirst == Spec => DependenciesFirst
<1>1. IInv /\ DepsInv /\ [Next]_vars =>
        [\A t \in Tools : manifest'.installed[t] # manifest.installed[t] =>
            \A i \in DOMAIN Requires[t] : manifest.installed[Requires[t][i]] # None]_vars
  BY RecordedLast
<1> QED BY <1>1, DepsHold, PTL DEF Spec, DependenciesFirst

-----------------------------------------------------------------------------
(* A failed installation keeps what was there.  Between the look at the    *)
(* manifest and the entry that is written, what the directory was is       *)
(* either still in place or in the backup, and nowhere else.               *)

\* No process is at work but one, and no cleanup of _install_one itself fails:
\* what removes a tree never raises, nobody interrupts or kills the process.
Undisturbed ==
    /\ \A p, q \in Installers : p = q
    /\ Faults \cap {"remove", "interrupt", "crash"} = {}

\* The stages of a replacement, by where the old directory is.
Before == {"staging", "staged", "moving"}
Replaced == {"recording", "locked", "writing", "undoing", "removing"}
Outside == {"idle", "resolving", "done"}

\* p has noted the place it replaces, and its entry is still the one it found.
Noted(p) ==
    /\ prior[p].place = Here(p)
    /\ prior[p].entry = manifest.installed[Top(p).tool]

\* The place and the entry that p has noted are as they were.
Restored(p) ==
    /\ dir[prior[p].place] = prior[p].dir
    /\ manifest.installed[prior[p].place[1]] = prior[p].entry

\* Where the old directory of p's replacement is, at each of its points.
Keeps(p) ==
    /\ pc[p] \in Outside \/ (pc[p] \in Replaced /\ stack[p] = <<>>) =>
         prior[p] = NoPrior /\ backup[p] = None
    /\ pc[p] \in Before =>
         Noted(p) /\ dir[Here(p)] = prior[p].dir /\ backup[p] = None
    /\ pc[p] \in {"placing", "putting back"} =>
         Noted(p) /\ dir[Here(p)] = None /\ backup[p] = prior[p].dir
    /\ pc[p] \in Replaced /\ stack[p] # <<>> =>
         Noted(p) /\ backup[p] = prior[p].dir
    /\ pc[p] = "unwinding" =>
         Noted(p) /\ dir[Here(p)] = prior[p].dir /\ backup[p] = None
    /\ pc[p] = "failed" => prior[p] = NoPrior \/ Restored(p)

PriorInv ==
    /\ prior = [p \in Installers |-> prior[p]]
    /\ \A p \in Installers : Keeps(p)

LEMMA PriorInit == Init => PriorInv
BY DEF Init, PriorInv, Keeps, Outside, Before, Replaced

\* The parts of the state that Keeps(p) reads, as functions.
LEMMA PriorTypes ==
    ASSUME IInv, PriorInv
    PROVE  /\ pc \in [Installers -> PCs] /\ DOMAIN prior = Installers
           /\ DOMAIN backup = Installers /\ DOMAIN dir = Places /\ DOMAIN stack = Installers
BY DEF IInv, TypeOK, PriorInv

\* A step that touches nothing of the replacement and stays outside of it.
LEMMA KeepsOutside ==
    ASSUME NEW p \in Installers, prior[p] = NoPrior, backup[p] = None,
           prior' = prior, backup' = backup,
           \/ pc'[p] \in Outside \cup {"failed"}
           \/ pc'[p] \in Replaced /\ stack'[p] = <<>>
    PROVE  Keeps(p)'
BY DEF Keeps, Outside, Before, Replaced

\* Before and after the replacement: commands, resolving, and the required set.
LEMMA KeepsResolve ==
    ASSUME Undisturbed, IInv, DepsInv, PriorInv, NEW p \in Installers, Keeps(p),
           \/ Command(p) \/ NextRoot(p) \/ Descend(p) \/ ResolveRaises(p)
           \/ ReportInstalled(p)
    PROVE  Keeps(p)'
<1>1. /\ pc[p] \in Outside /\ prior' = prior /\ backup' = backup
  BY DEF Command, InstallCommand, InstallRequired, NextRoot, Descend, Waiting,
         ResolveRaises, ReportInstalled, Resolved, Outside
<1>2. prior[p] = NoPrior /\ backup[p] = None
  BY <1>1 DEF Keeps
<1>3. \/ pc'[p] \in Outside \cup {"failed"}
      \/ pc'[p] \in Replaced /\ stack'[p] = <<>>
  <2>1. CASE InstallRequired(p)
    <3>1. pc'[p] = "recording" /\ stack' = stack
      BY <2>1, PriorTypes DEF InstallRequired, Goto
    <3>2. stack[p] = <<>>
      BY <2>1 DEF InstallRequired, DepsInv, Prepared
    <3> QED BY <3>1, <3>2 DEF Replaced
  <2>2. CASE ~InstallRequired(p)
    BY <2>2, PriorTypes DEF Command, InstallCommand, NextRoot, Descend, Waiting, Fail, Goto,
       ResolveRaises, ReportInstalled, Resolved, Finish, Outside
  <2> QED BY <2>1, <2>2
<1> QED BY <1>1, <1>2, <1>3, KeepsOutside

\* From the first look to the staged payload: the destination is untouched.
LEMMA KeepsBefore ==
    ASSUME Undisturbed, IInv, PriorInv, NEW p \in Installers, Keeps(p),
           BeginReplace(p) \/ Stage(p) \/ StageRaises(p) \/ LookAtDestination(p)
    PROVE  Keeps(p)'
<1>1. stack' = stack /\ dir' = dir /\ manifest' = manifest /\ backup' = backup
  BY DEF BeginReplace, Stage, StageRaises, LookAtDestination
<1>2. Here(p)' = Here(p) /\ Top(p)' = Top(p)
  BY <1>1 DEF Here, Top
<1>3. CASE BeginReplace(p)
  <2>1. backup[p] = None /\ pc'[p] = "staging" /\ prior'[p] =
            [place |-> Here(p), dir |-> dir[Here(p)], entry |-> manifest.installed[Top(p).tool]]
    BY <1>3, PriorTypes DEF BeginReplace, Resolved, Goto, Keeps, Outside
  <2>2. Noted(p)'
    BY <1>1, <1>2, <2>1 DEF Noted
  <2>3. prior'[p].dir = dir[Here(p)]
    BY <2>1
  <2> QED BY <1>1, <1>2, <2>1, <2>2, <2>3 DEF Keeps, Outside, Before, Replaced
<1>4. CASE Stage(p) \/ StageRaises(p) \/ LookAtDestination(p)
  <2>1. /\ pc[p] \in Before /\ prior' = prior
        /\ pc'[p] \in {"staged", "moving", "placing", "unwinding"}
        /\ pc'[p] = "placing" => dir[Here(p)] = None
    BY <1>4, PriorTypes DEF Stage, StageRaises, LookAtDestination, Goto, Before
  <2>2. Noted(p) /\ dir[Here(p)] = prior[p].dir /\ backup[p] = None
    BY <2>1 DEF Keeps
  <2>3. Noted(p)'
    BY <1>1, <1>2, <2>1, <2>2 DEF Noted
  <2> QED BY <1>1, <1>2, <2>1, <2>2, <2>3 DEF Keeps, Outside, Before, Replaced
<1> QED BY <1>3, <1>4

\* The two renames: what was there is in the backup, or back in its place.
LEMMA KeepsReplace ==
    ASSUME Undisturbed, IInv, PriorInv, NEW p \in Installers, Keeps(p),
           MoveAside(p) \/ Place(p) \/ PlaceRaises(p) \/ PutBack(p)
    PROVE  Keeps(p)'
<1>1. stack' = stack /\ manifest' = manifest /\ prior' = prior
  BY DEF MoveAside, Place, PlaceRaises, PutBack
<1>2. Here(p)' = Here(p) /\ Top(p)' = Top(p)
  BY <1>1 DEF Here, Top
<1>3. stack[p] # <<>> /\ Here(p) \in Places
  BY LocalTypes DEF MoveAside, Place, PlaceRaises, PutBack, IInv, LockInv, ReplacePoints
<1>4. Noted(p)
  BY DEF MoveAside, Place, PlaceRaises, PutBack, Keeps, Before
<1>5. Noted(p)'
  BY <1>1, <1>2, <1>4 DEF Noted
<1>6. CASE MoveAside(p)
  <2>1. dir[Here(p)] = prior[p].dir /\ backup[p] = None
    BY <1>6 DEF MoveAside, Keeps, Before
  <2>2. CASE dir[Here(p)] = None
    <3>1. pc'[p] = "unwinding" /\ dir' = dir /\ backup' = backup
      BY <1>6, <2>2, PriorTypes DEF MoveAside, Goto
    <3> QED BY <1>1, <1>2, <1>5, <2>1, <3>1 DEF Keeps, Outside, Before, Replaced
  <2>3. CASE dir[Here(p)] # None
    <3>1. pc'[p] = "placing" /\ dir'[Here(p)] = None /\ backup'[p] = dir[Here(p)]
      BY <1>3, <1>6, <2>3, PriorTypes DEF MoveAside, Goto
    <3> QED BY <1>1, <1>2, <1>5, <2>1, <3>1 DEF Keeps, Outside, Before, Replaced
  <2> QED BY <2>2, <2>3
<1>7. CASE Place(p)
  <2>1. backup' = backup /\ pc'[p] = "recording" /\ backup[p] = prior[p].dir
    BY <1>7, PriorTypes DEF Place, Goto, Keeps
  <2> QED BY <1>1, <1>2, <1>3, <1>5, <2>1 DEF Keeps, Outside, Before, Replaced
<1>8. CASE PlaceRaises(p) \/ PutBack(p)
  <2>1. dir[Here(p)] = None /\ backup[p] = prior[p].dir /\ pc'[p] = "unwinding"
    BY <1>8, PriorTypes DEF PlaceRaises, PutBack, Goto, Keeps
  <2>2. CASE backup[p] # None
    <3>1. dir'[Here(p)] = backup[p] /\ backup'[p] = None
      BY <1>3, <1>8, <2>1, <2>2, PriorTypes DEF PlaceRaises, PutBack
    <3> QED BY <1>1, <1>2, <1>5, <2>1, <3>1 DEF Keeps, Outside, Before, Replaced
  <2>3. CASE backup[p] = None
    <3>1. dir' = dir /\ backup' = backup
      BY <1>8, <2>3 DEF PlaceRaises, PutBack
    <3> QED BY <1>1, <1>2, <1>5, <2>1, <2>3, <3>1 DEF Keeps, Outside, Before, Replaced
  <2> QED BY <2>2, <2>3
<1> QED BY <1>6, <1>7, <1>8

\* Recording the entry, and taking the new directory away when that raises.
LEMMA KeepsRecord ==
    ASSUME Undisturbed, IInv, PriorInv, NEW p \in Installers, Keeps(p),
           \/ LockManifest(p) \/ ReadManifest(p) \/ RecordRaises(p)
           \/ RemoveNew(p) \/ RemovedNew(p)
    PROVE  Keeps(p)'
<1>1. stack' = stack /\ manifest' = manifest /\ prior' = prior /\ backup' = backup
  BY DEF LockManifest, ReadManifest, RecordRaises, RemoveNew, RemovedNew
<1>2. Here(p)' = Here(p) /\ Top(p)' = Top(p)
  BY <1>1 DEF Here, Top
<1>3. pc[p] \in Replaced
  BY DEF LockManifest, ReadManifest, RecordRaises, RemoveNew, RemovedNew, Replaced
<1>4. CASE stack[p] = <<>>
  <2>1. pc[p] \notin {"undoing", "removing"}
    BY <1>4 DEF IInv, LockInv, ReplacePoints
  <2>2. pc'[p] \in {"locked", "writing", "failed"}
    BY <1>4, <2>1, PriorTypes
       DEF LockManifest, ReadManifest, RecordRaises, RemoveNew, RemovedNew, Goto
  <2>3. prior[p] = NoPrior /\ backup[p] = None
    BY <1>3, <1>4 DEF Keeps
  <2> QED BY <1>1, <1>4, <2>2, <2>3, KeepsOutside DEF Replaced
<1>5. CASE stack[p] # <<>>
  <2>1. Noted(p) /\ backup[p] = prior[p].dir /\ Here(p) \in Places
    BY <1>3, <1>5, LocalTypes DEF Keeps
  <2>2. Noted(p)'
    BY <1>1, <1>2, <2>1 DEF Noted
  <2>3. /\ pc'[p] \in {"locked", "writing", "undoing", "removing", "putting back"}
        /\ pc'[p] = "putting back" => dir'[Here(p)] = None
    BY <1>5, <2>1, PriorTypes
       DEF LockManifest, ReadManifest, RecordRaises, RemoveNew, RemovedNew, Goto
  <2> QED BY <1>1, <1>2, <1>5, <2>1, <2>2, <2>3 DEF Keeps, Outside, Before, Replaced
<1> QED BY <1>4, <1>5

\* The entry is written, or the exception leaves _install_one.
LEMMA KeepsSettle ==
    ASSUME Undisturbed, IInv, PriorInv, NEW p \in Installers, Keeps(p),
           WriteManifest(p) \/ Commit(p) \/ Unwind(p)
    PROVE  Keeps(p)'
<1>1. CASE WriteManifest(p) /\ stack[p] = <<>>
  <2>1. prior[p] = NoPrior /\ backup[p] = None
    BY <1>1 DEF WriteManifest, Keeps, Replaced
  <2>2. prior' = prior /\ backup' = backup /\ pc'[p] = "resolving"
    BY <1>1, PriorTypes DEF WriteManifest, Goto
  <2> QED BY <2>1, <2>2, KeepsOutside DEF Outside
<1>2. CASE WriteManifest(p) /\ stack[p] # <<>>
  <2>1. pc'[p] = "committing"
    BY <1>2, PriorTypes DEF WriteManifest, Goto
  <2> QED BY <2>1 DEF Keeps, Outside, Before, Replaced
<1>3. CASE Commit(p)
  <2>1. pc'[p] = "resolving" /\ backup'[p] = None /\ prior'[p] = NoPrior
    BY <1>3, PriorTypes DEF Commit, Finish, Goto
  <2> QED BY <2>1 DEF Keeps, Outside, Before, Replaced
<1>4. CASE Unwind(p)
  <2>1. Noted(p) /\ dir[Here(p)] = prior[p].dir /\ backup[p] = None
    BY <1>4 DEF Unwind, Keeps
  <2>2. dir' = dir /\ manifest' = manifest /\ prior' = prior /\ pc'[p] = "failed"
    BY <1>4, <2>1, PriorTypes DEF Unwind, Fail, Goto
  <2>3. prior[p].place[1] = Top(p).tool
    BY <2>1 DEF Noted, Here
  <2>4. Restored(p)
    BY <2>1, <2>3 DEF Restored, Noted
  <2>5. Restored(p)'
    BY <2>2, <2>4 DEF Restored
  <2> QED BY <2>2, <2>5 DEF Keeps, Outside, Before, Replaced
<1> QED BY <1>1, <1>2, <1>3, <1>4

LEMMA PriorStep == Undisturbed /\ IInv /\ DepsInv /\ PriorInv /\ [Next]_vars => PriorInv'
<1> SUFFICES ASSUME Undisturbed, IInv, DepsInv, PriorInv, [Next]_vars PROVE PriorInv'
  OBVIOUS
<1>1. CASE UNCHANGED vars
  BY <1>1 DEF vars, PriorInv, Keeps, Noted, Restored, Here, Top
<1>2. ASSUME NEW p \in Installers, Command(p) \/ Continue(p) \/ Interrupt(p) \/ Crash(p)
      PROVE  PriorInv'
  <2>1. prior' = prior \/ \E x : prior' = [prior EXCEPT ![p] = x]
    BY <1>2 DEF Command, InstallCommand, InstallRequired, Continue, NextRoot, Descend,
       ResolveRaises, ReportInstalled, BeginReplace, Stage, StageRaises,
       LookAtDestination, MoveAside, Place, PlaceRaises, LockManifest, ReadManifest,
       WriteManifest, RecordRaises, RemoveNew, RemovedNew, RemoveRaises, PutBack,
       Commit, Unwind, UnwindRaises, Interrupt, Crash
  <2>2. (prior = [q \in Installers |-> prior[q]])'
    BY <2>1 DEF PriorInv
  <2>3. ~RemoveRaises(p) /\ ~UnwindRaises(p) /\ ~Interrupt(p) /\ ~Crash(p)
    BY DEF Undisturbed, RemoveRaises, UnwindRaises, Interrupt, Crash
  <2>4. Keeps(p)
    BY DEF PriorInv
  <2>5. Keeps(p)'
    BY <1>2, <2>3, <2>4, KeepsResolve, KeepsBefore, KeepsReplace, KeepsRecord, KeepsSettle
       DEF Continue
  <2>6. \A q \in Installers : q = p
    BY DEF Undisturbed
  <2> QED BY <2>2, <2>5, <2>6 DEF PriorInv
<1> QED BY <1>1, <1>2 DEF Next

\* A failed installation by the only process at work leaves the directory and the
\* entry as it found them, at whatever stage staging, placing or recording failed
\* and however deep in the recursion (the except and finally clauses of _install_one).
THEOREM FailuresRestore ==
    ASSUME Undisturbed
    PROVE  Spec => []FailureKeepsPrior
<1>1. Init => PriorInv
  BY PriorInit
<1>2. IInv /\ DepsInv /\ PriorInv /\ [Next]_vars => PriorInv'
  BY PriorStep
<1>3. PriorInv => FailureKeepsPrior
  BY DEF PriorInv, Keeps, Restored, FailureKeepsPrior
<1> QED BY <1>1, <1>2, <1>3, DepsHold, PTL DEF Spec

-----------------------------------------------------------------------------
(* Racing for a directory.  As long as nobody has placed a payload or found *)
(* one, a racer that has lost was beaten by one that stands before its      *)
(* rename, with nothing in the way.                                         *)

\* Nothing goes wrong of itself, and no tool requires another.
Race == Faults = {} /\ Installers # {} /\ \A t \in Tools : Requires[t] = <<>>

\* One call at a time, with an empty worklist; nothing is ever undone.
Plain(p) ==
    /\ roots[p] = <<>>
    /\ stack[p] # <<>> => Tail(stack[p]) = <<>> /\ Top(p).todo = <<>>
    /\ pc[p] = "idle" => stack[p] = <<>>
    /\ pc[p] \notin {"undoing", "removing", "putting back", "dead"}

\* p has placed its payload, or has found the tool installed; nothing can fail now.
Ahead(p) ==
    \/ pc[p] \in {"recording", "locked", "writing", "committing", "done"}
    \/ pc[p] = "resolving" /\ stack[p] = <<>>

\* p has lost its place to another process, or is about to find that it has.
Beaten(p) ==
    \/ pc[p] \in {"unwinding", "failed"}
    \/ pc[p] = "moving" /\ dir[Here(p)] = None

\* Nobody has succeeded yet: then somebody stands before its rename, and can.
NobodyAhead ==
    /\ \A p \in Installers : Beaten(p) => \E q \in Installers : pc[q] = "placing"
    /\ \A p \in Installers : pc[p] = "placing" => dir[Here(p)] = None
    /\ \A p \in Installers : pc[p] # "placing" => backup[p] = None

RaceInv ==
    /\ \A p \in Installers : Plain(p)
    /\ (\E p \in Installers : Ahead(p)) \/ NobodyAhead

LEMMA RaceInit == Race /\ Init => RaceInv
<1> SUFFICES ASSUME Race, Init PROVE RaceInv
  OBVIOUS
<1>1. \A p \in Installers : Plain(p)
  BY DEF Init, Plain
<1>2. NobodyAhead
  BY DEF Init, NobodyAhead, Beaten
<1> QED BY <1>1, <1>2 DEF RaceInv

\* What does not happen in a race.
LEMMA NoFaults ==
    ASSUME Race, NEW p \in Installers
    PROVE  /\ ~ResolveRaises(p) /\ ~StageRaises(p) /\ ~RecordRaises(p) /\ ~RemoveRaises(p)
           /\ ~UnwindRaises(p) /\ ~Interrupt(p) /\ ~Crash(p)
BY DEF Race, ResolveRaises, StageRaises, RecordRaises, RemoveRaises, UnwindRaises,
       Interrupt, Crash

\* Without requirements there is no call inside a call, and nothing to undo.
LEMMA NoDescent ==
    ASSUME NEW p \in Installers, Plain(p)
    PROVE  ~Descend(p) /\ ~RemoveNew(p) /\ ~RemovedNew(p) /\ ~PutBack(p)
BY DEF Plain, Descend, Waiting, RemoveNew, RemovedNew, PutBack

LEMMA PlainStep ==
    ASSUME Race, IInv, NEW p \in Installers, Plain(p), Command(p) \/ Continue(p)
    PROVE  Plain(p)'
<1>d. pc \in [Installers -> PCs] /\ stack \in [Installers -> Seq(Frames)]
        /\ roots \in [Installers -> Seq(Tools)]
  BY DEF IInv, TypeOK
<1>1. ASSUME NEW t \in Tools, NEW v \in Versions, InstallCommand(p, t, v)
      PROVE  Plain(p)'
  <2> PICK f \in Frames : f = Frame(t, v)
    BY FrameType
  <2>1. f.todo = <<>>
    BY DEF Frame, Race
  <2>2. Head(<<f>>) = f /\ Tail(<<f>>) = <<>>
    OBVIOUS
  <2>3. stack'[p] = <<f>> /\ pc'[p] = "resolving" /\ roots' = roots
    BY <1>1, <1>d DEF InstallCommand, Goto
  <2> QED BY <2>1, <2>2, <2>3 DEF Plain, Top
<1>2. CASE InstallRequired(p)
  <2>1. stack'[p] = <<>> /\ pc'[p] = "recording" /\ roots'[p] = <<>>
    BY <1>2, <1>d, LatestAssumption DEF InstallRequired, Goto, Plain, Race
  <2> QED BY <2>1 DEF Plain
<1>3. CASE NextRoot(p)
  <2>1. stack' = stack /\ pc'[p] = "done" /\ roots' = roots
    BY <1>3, <1>d DEF NextRoot, Goto, Plain
  <2> QED BY <2>1 DEF Plain, Top
<1>4. CASE ReportInstalled(p) \/ Commit(p)
  <2>1. stack[p] # <<>>
    BY <1>4 DEF ReportInstalled, Resolved, Commit, IInv, LockInv, ReplacePoints
  <2>2. stack'[p] = <<>> /\ pc'[p] = "resolving" /\ roots' = roots
    BY <1>4, <1>d, <2>1 DEF ReportInstalled, Commit, Finish, Goto, Plain
  <2> QED BY <2>2 DEF Plain
<1>5. CASE Unwind(p)
  <2>1. stack'[p] = <<>> /\ pc'[p] = "failed" /\ roots' = roots
    BY <1>5, <1>d DEF Unwind, Fail, Goto
  <2> QED BY <2>1 DEF Plain
<1>6. CASE BeginReplace(p) \/ Stage(p) \/ LookAtDestination(p) \/ MoveAside(p)
             \/ Place(p) \/ PlaceRaises(p) \/ LockManifest(p) \/ ReadManifest(p)
             \/ WriteManifest(p)
  <2>1. stack' = stack /\ roots' = roots
    BY <1>6 DEF BeginReplace, Stage, LookAtDestination, MoveAside, Place, PlaceRaises,
       LockManifest, ReadManifest, WriteManifest
  <2>2. pc'[p] \notin {"idle", "undoing", "removing", "putting back", "dead"}
    BY <1>6, <1>d DEF BeginReplace, Stage, LookAtDestination, MoveAside, Place, PlaceRaises,
       LockManifest, ReadManifest, WriteManifest, Goto
  <2> QED BY <2>1, <2>2 DEF Plain, Top
<1> QED BY <1>1, <1>2, <1>3, <1>4, <1>5, <1>6, NoFaults, NoDescent DEF Command, Continue

\* Who is ahead stays ahead.
LEMMA AheadStep ==
    ASSUME Race, IInv, NEW p \in Installers, Plain(p), Ahead(p), Command(p) \/ Continue(p)
    PROVE  Ahead(p)'
<1>d. pc \in [Installers -> PCs] /\ stack \in [Installers -> Seq(Frames)]
  BY DEF IInv, TypeOK
<1>1. LockManifest(p) \/ ReadManifest(p) \/ WriteManifest(p) \/ Commit(p) \/ NextRoot(p)
  <2>1. pc[p] \in {"recording", "locked", "writing", "committing", "done", "resolving"}
    BY DEF Ahead
  <2>2. pc[p] = "resolving" => stack[p] = <<>>
    BY DEF Ahead
  <2> QED BY <2>1, <2>2, NoFaults, NoDescent
          DEF Command, InstallCommand, InstallRequired, Continue, ReportInstalled,
          BeginReplace, Resolved, Stage, LookAtDestination, MoveAside, Place, PlaceRaises, Unwind
<1>2. CASE LockManifest(p) \/ ReadManifest(p)
  BY <1>2, <1>d DEF LockManifest, ReadManifest, Goto, Ahead
<1>3. CASE WriteManifest(p)
  BY <1>3, <1>d DEF WriteManifest, Goto, Ahead
<1>4. CASE Commit(p)
  <2>1. stack[p] # <<>>
    BY <1>4 DEF Commit, IInv, LockInv, ReplacePoints
  <2>2. stack'[p] = <<>> /\ pc'[p] = "resolving"
    BY <1>4, <1>d, <2>1 DEF Commit, Finish, Goto, Plain
  <2> QED BY <2>2 DEF Ahead
<1>5. CASE NextRoot(p)
  <2>1. pc'[p] = "done"
    BY <1>5, <1>d DEF NextRoot, Goto, Plain
  <2> QED BY <2>1 DEF Ahead
<1> QED BY <1>1, <1>2, <1>3, <1>4, <1>5

\* A step of p that neither moves nor restores a directory.
LEMMA NobodyAheadLocal ==
    ASSUME IInv, NobodyAhead, NEW p \in Installers,
           \A q \in Installers : q # p => pc'[q] = pc[q] /\ stack'[q] = stack[q],
           dir' = dir, backup' = backup, pc[p] # "placing", Beaten(p)' => Beaten(p),
           pc'[p] = "placing" => dir'[Here(p)'] = None
    PROVE  NobodyAhead'
<1>1. ASSUME NEW r \in Installers, Beaten(r)'
      PROVE  \E q \in Installers : pc'[q] = "placing"
  <2>1. Beaten(r)
    BY <1>1 DEF Beaten, Here, Top
  <2>2. PICK q \in Installers : pc[q] = "placing"
    BY <2>1 DEF NobodyAhead
  <2>3. pc'[q] = "placing"
    BY <2>2
  <2> QED BY <2>3
<1>2. ASSUME NEW r \in Installers, pc'[r] = "placing"
      PROVE  dir'[Here(r)'] = None
  BY <1>2 DEF NobodyAhead, Here, Top
<1>3. ASSUME NEW r \in Installers, pc'[r] # "placing"
      PROVE  backup'[r] = None
  BY <1>3 DEF NobodyAhead
<1> QED BY <1>1, <1>2, <1>3 DEF NobodyAhead

\* p moves the directory aside: it stands before its rename, and whoever was
\* about to move the same directory is beaten by it.
LEMMA NobodyAheadMove ==
    ASSUME IInv, NobodyAhead, NEW p \in Installers, MoveAside(p), dir[Here(p)] # None
    PROVE  NobodyAhead'
<1>1. stack[p] # <<>> /\ Here(p) \in Places
  BY LocalTypes DEF MoveAside, IInv, LockInv, ReplacePoints
<1>2. /\ pc' = [pc EXCEPT ![p] = "placing"] /\ stack' = stack
      /\ dir' = [dir EXCEPT ![Here(p)] = None]
      /\ backup' = [backup EXCEPT ![p] = dir[Here(p)]]
  BY DEF MoveAside, Goto
<1>3. pc \in [Installers -> PCs] /\ DOMAIN dir = Places /\ DOMAIN backup = Installers
  BY DEF IInv, TypeOK
<1>4. pc'[p] = "placing"
  BY <1>2, <1>3
<1>5. ASSUME NEW r \in Installers, pc'[r] = "placing"
      PROVE  dir'[Here(r)'] = None
  <2>1. Here(r)' = Here(r)
    BY <1>2 DEF Here, Top
  <2>2. CASE Here(r) = Here(p)
    BY <1>1, <1>2, <1>3, <2>1, <2>2
  <2>3. CASE Here(r) # Here(p)
    <3>1. pc[r] = "placing"
      BY <1>2, <1>3, <1>5, <2>3
    <3>2. dir[Here(r)] = None
      BY <3>1 DEF NobodyAhead
    <3>3. dir'[Here(r)] = dir[Here(r)]
      <4>1. stack[r] # <<>> /\ Here(r) \in Places
        BY <3>1, LocalTypes DEF IInv, LockInv, ReplacePoints
      <4> QED BY <1>2, <1>3, <2>3, <4>1
    <3> QED BY <2>1, <3>2, <3>3
  <2> QED BY <2>2, <2>3
<1>6. ASSUME NEW r \in Installers, pc'[r] # "placing"
      PROVE  backup'[r] = None
  BY <1>2, <1>3, <1>6 DEF NobodyAhead
<1> QED BY <1>4, <1>5, <1>6 DEF NobodyAhead

LEMMA RaceOn ==
    ASSUME Race, IInv, NEW p \in Installers, Plain(p), ~Ahead(p), NobodyAhead,
           Command(p) \/ Continue(p)
    PROVE  Ahead(p)' \/ NobodyAhead'
<1>d. pc \in [Installers -> PCs] /\ stack \in [Installers -> Seq(Frames)]
  BY DEF IInv, TypeOK
<1>o. \A q \in Installers : q # p => pc'[q] = pc[q] /\ stack'[q] = stack[q]
  BY OthersStay
<1>1. CASE \E t \in Tools, v \in Versions : InstallCommand(p, t, v)
  <2>1. pc[p] = "idle" /\ pc'[p] = "resolving" /\ dir' = dir /\ backup' = backup
    BY <1>1, <1>d DEF InstallCommand, Goto
  <2> QED BY <1>o, <2>1, NobodyAheadLocal DEF Beaten
<1>2. CASE InstallRequired(p)
  BY <1>2, <1>d DEF InstallRequired, Goto, Ahead
<1>3. CASE ReportInstalled(p)
  <2>1. stack'[p] = <<>> /\ pc'[p] = "resolving"
    BY <1>3, <1>d DEF ReportInstalled, Resolved, Finish, Goto, Plain
  <2> QED BY <2>1 DEF Ahead
<1>4. CASE BeginReplace(p) \/ Stage(p)
  <2>1. /\ pc[p] # "placing" /\ pc'[p] \in {"staging", "staged"}
        /\ dir' = dir /\ backup' = backup
    BY <1>4, <1>d DEF BeginReplace, Resolved, Stage, Goto
  <2> QED BY <1>o, <2>1, NobodyAheadLocal DEF Beaten
<1>5. CASE LookAtDestination(p)
  <2>1. /\ pc[p] = "staged" /\ dir' = dir /\ backup' = backup /\ stack' = stack
        /\ pc'[p] = IF dir[Here(p)] = None THEN "placing" ELSE "moving"
    BY <1>5, <1>d DEF LookAtDestination, Goto
  <2>2. Here(p)' = Here(p)
    BY <2>1 DEF Here, Top
  <2>3. pc'[p] = "placing" => dir'[Here(p)'] = None
    BY <2>1, <2>2
  <2>4. ~Beaten(p)'
    BY <2>1, <2>2 DEF Beaten
  <2> QED BY <1>o, <2>1, <2>3, <2>4, NobodyAheadLocal
<1>6. CASE MoveAside(p)
  <2>1. CASE dir[Here(p)] = None
    <3>1. /\ pc[p] = "moving" /\ pc'[p] = "unwinding" /\ dir' = dir /\ backup' = backup
      BY <1>6, <2>1, <1>d DEF MoveAside, Goto
    <3>2. Beaten(p)
      BY <2>1, <3>1 DEF Beaten
    <3> QED BY <1>o, <3>1, <3>2, NobodyAheadLocal
  <2> QED BY <1>6, <2>1, NobodyAheadMove
<1>7. CASE Place(p)
  BY <1>7, <1>d DEF Place, Goto, Ahead
<1>8. ~PlaceRaises(p)
  BY DEF PlaceRaises, NobodyAhead, Race
<1>9. CASE Unwind(p)
  <2>1. pc[p] = "unwinding" /\ pc'[p] = "failed"
    BY <1>9, <1>d DEF Unwind, Fail, Goto
  <2>2. backup[p] = None
    BY <2>1 DEF NobodyAhead
  <2>3. dir' = dir /\ backup' = backup
    BY <1>9, <2>2 DEF Unwind, IInv, TypeOK
  <2>4. Beaten(p)
    BY <2>1 DEF Beaten
  <2> QED BY <1>o, <2>1, <2>3, <2>4, NobodyAheadLocal
<1>10. ~NextRoot(p) /\ ~LockManifest(p) /\ ~ReadManifest(p) /\ ~WriteManifest(p) /\ ~Commit(p)
  BY DEF NextRoot, LockManifest, ReadManifest, WriteManifest, Commit, Ahead
<1> QED BY <1>1, <1>2, <1>3, <1>4, <1>5, <1>6, <1>7, <1>8, <1>9, <1>10, NoFaults, NoDescent
        DEF Command, Continue

LEMMA RaceStep == Race /\ IInv /\ RaceInv /\ [Next]_vars => RaceInv'
<1> SUFFICES ASSUME Race, IInv, RaceInv, [Next]_vars PROVE RaceInv'
  OBVIOUS
<1>1. CASE UNCHANGED vars
  BY <1>1 DEF vars, RaceInv, Plain, Ahead, NobodyAhead, Beaten, Here, Top
<1>2. ASSUME NEW p \in Installers, Command(p) \/ Continue(p) \/ Interrupt(p) \/ Crash(p)
      PROVE  RaceInv'
  <2>1. Command(p) \/ Continue(p)
    BY <1>2, NoFaults
  <2>2. ASSUME NEW q \in Installers, q # p
        PROVE  pc'[q] = pc[q] /\ stack'[q] = stack[q] /\ roots'[q] = roots[q]
    <3>1. roots' = roots \/ \E x : roots' = [roots EXCEPT ![p] = x]
      BY <1>2 DEF Command, InstallCommand, InstallRequired, Continue, NextRoot, Descend,
         ResolveRaises, ReportInstalled, BeginReplace, Stage, StageRaises,
         LookAtDestination, MoveAside, Place, PlaceRaises, LockManifest, ReadManifest,
         WriteManifest, RecordRaises, RemoveNew, RemovedNew, RemoveRaises, PutBack,
         Commit, Unwind, UnwindRaises, Interrupt, Crash
    <3>2. roots'[q] = roots[q]
      BY <2>2, <3>1 DEF IInv, TypeOK
    <3> QED BY <1>2, <2>2, <3>2, OthersStay
  <2>3. \A q \in Installers : Plain(q)'
    <3>1. Plain(p)'
      BY <2>1, PlainStep DEF RaceInv
    <3>2. ASSUME NEW q \in Installers, q # p
          PROVE  Plain(q)'
      BY <2>2, <3>2 DEF RaceInv, Plain, Top
    <3> QED BY <3>1, <3>2
  <2>4. CASE \E q \in Installers : Ahead(q)
    <3>1. PICK q \in Installers : Ahead(q)
      BY <2>4
    <3>2. Ahead(q)'
      <4>1. CASE q = p
        BY <2>1, <3>1, <4>1, AheadStep DEF RaceInv
      <4>2. CASE q # p
        BY <2>2, <3>1, <4>2 DEF Ahead
      <4> QED BY <4>1, <4>2
    <3> QED BY <2>3, <3>2 DEF RaceInv
  <2>5. CASE ~\E q \in Installers : Ahead(q)
    <3>1. Plain(p) /\ ~Ahead(p) /\ NobodyAhead
      BY <2>5 DEF RaceInv
    <3>2. Ahead(p)' \/ NobodyAhead'
      BY <2>1, <3>1, RaceOn
    <3> QED BY <2>3, <3>2 DEF RaceInv
  <2> QED BY <2>4, <2>5
<1> QED BY <1>1, <1>2 DEF Next

\* However many installers race for the same directories without a lock, they
\* do not all fail: one of them ends with its tool installed (the renames of
\* _install_one, when nothing else goes wrong and no requirement interposes).
THEOREM RacesAreWon ==
    ASSUME Race
    PROVE  Spec => []SomeRacerSucceeds
<1>1. Init => RaceInv
  BY RaceInit
<1>2. IInv /\ RaceInv /\ [Next]_vars => RaceInv'
  BY RaceStep
<1>3. IInv /\ RaceInv => SomeRacerSucceeds
  <2> SUFFICES ASSUME IInv, RaceInv, \A p \in Installers : pc[p] \in Ended
               PROVE  \E p \in Installers : pc[p] = "done"
    BY DEF SomeRacerSucceeds
  <2>1. CASE \E p \in Installers : Ahead(p)
    BY <2>1 DEF Ahead, Ended
  <2>2. CASE NobodyAhead
    <3>1. \A q \in Installers : pc[q] # "placing"
      BY DEF Ended
    <3>2. PICK p \in Installers : TRUE
      BY DEF Race
    <3>3. ~Beaten(p)
      BY <2>2, <3>1 DEF NobodyAhead
    <3>4. pc[p] \in Ended /\ pc[p] # "dead"
      BY DEF RaceInv, Plain
    <3> QED BY <3>3, <3>4 DEF Beaten, Ended
  <2> QED BY <2>1, <2>2 DEF RaceInv
<1> QED BY <1>1, <1>2, <1>3, Inductive, PTL DEF Spec

-----------------------------------------------------------------------------
(* What has been reported stays.  A directory that is not in its place is  *)
(* in the backup of a process that will rename over it or put it back.     *)

\* The directories are whole when the first installer starts, and what fails is
\* staging, placing or a whole process: nothing takes a placed payload away, and
\* the cleanup of a failed rename runs to its end.
Intact ==
    /\ Faults \cap {"record", "remove", "interrupt"} = {}
    /\ \A c \in Found : c # None => c.whole

\* No damaged directory is anywhere, and none comes to be.
AllWhole ==
    /\ \A place \in Places : dir[place] # None => dir[place].whole
    /\ \A p \in Installers : backup[p] # None => backup[p].whole
    /\ \A p \in Installers : pc[p] \notin {"undoing", "removing", "putting back"}

\* Somebody is about to fill the place, or to put back what was there.
InHand(p, place) ==
    pc[p] \in {"placing", "unwinding"} /\ backup[p] # None /\ Here(p) = place

\* The place is filled, or will be.
Secured(place) == dir[place] # None \/ \E p \in Installers : InHand(p, place)

\* p has placed its payload and has still to report it.
Recording(p) ==
    pc[p] \in {"recording", "locked", "writing", "committing"} /\ stack[p] # <<>>

\* All that p has reported, and what it is about to report.
Promised(p) ==
    /\ \A place \in records[p] : place \in Places /\ Secured(place)
    /\ Recording(p) => Secured(Here(p))

\* A process that was killed may have left its backup behind.
Killed == \E p \in Installers : pc[p] = "dead"

ReportInv ==
    /\ records = [p \in Installers |-> records[p]]
    /\ AllWhole
    /\ Killed \/ \A p \in Installers : Promised(p)

LEMMA ReportInit == Intact /\ Init => ReportInv
<1> SUFFICES ASSUME Intact, Init PROVE ReportInv
  OBVIOUS
<1>1. AllWhole
  BY DEF Init, AllWhole, Intact
<1>2. \A p \in Installers : Promised(p)
  BY DEF Init, Promised, Recording
<1>3. records = [p \in Installers |-> records[p]]
  BY DEF Init
<1> QED BY <1>1, <1>2, <1>3 DEF ReportInv

\* What does not happen to whole directories.
LEMMA IntactFaults ==
    ASSUME Intact, NEW p \in Installers
    PROVE  ~RecordRaises(p) /\ ~RemoveRaises(p) /\ ~UnwindRaises(p) /\ ~Interrupt(p)
BY DEF Intact, RecordRaises, RemoveRaises, UnwindRaises, Interrupt

\* What the steps of _install_one see: the place is one, and their state a function.
LEMMA PlacedTypes ==
    ASSUME IInv, NEW p \in Installers
    PROVE  /\ pc \in [Installers -> PCs] /\ DOMAIN dir = Places /\ DOMAIN backup = Installers
           /\ stack \in [Installers -> Seq(Frames)]
           /\ pc[p] \in ReplacePoints => stack[p] # <<>> /\ Here(p) \in Places
           /\ Payload # None
<1>1. pc[p] \in ReplacePoints => stack[p] # <<>> /\ Here(p) \in Places
  BY LocalTypes DEF IInv, LockInv
<1>2. Payload # None
  BY NoneAssumption, LocalTypes
<1> QED BY <1>1, <1>2 DEF IInv, TypeOK

\* A step of a process keeps every directory and backup whole.
LEMMA WholeStep ==
    ASSUME Intact, IInv, AllWhole, NEW p \in Installers,
           Command(p) \/ Continue(p) \/ Interrupt(p) \/ Crash(p)
    PROVE  AllWhole'
<1>t. /\ pc \in [Installers -> PCs] /\ DOMAIN dir = Places /\ DOMAIN backup = Installers
      /\ pc[p] \in ReplacePoints => Here(p) \in Places
  BY PlacedTypes
<1>1. ~RemoveNew(p) /\ ~RemovedNew(p) /\ ~PutBack(p)
  BY DEF AllWhole, RemoveNew, RemovedNew, PutBack
<1>2. \/ dir' = dir /\ backup' = backup
      \/ dir' = dir /\ backup' = [backup EXCEPT ![p] = None]
      \/ MoveAside(p) \/ Place(p) \/ PlaceRaises(p) \/ Unwind(p)
  BY <1>1, IntactFaults DEF Command, InstallCommand, InstallRequired, Continue, NextRoot,
     Descend, ResolveRaises, ReportInstalled, BeginReplace, Stage, StageRaises,
     LookAtDestination, LockManifest, ReadManifest, WriteManifest, Commit, Crash
<1>3. \A q \in Installers : pc'[q] \notin {"undoing", "removing", "putting back"}
  <2>1. pc'[p] \notin {"undoing", "removing", "putting back"}
    BY <1>t, <1>1, IntactFaults
       DEF AllWhole, Command, InstallCommand, InstallRequired, Continue, NextRoot,
       Descend, ResolveRaises, ReportInstalled, BeginReplace, Stage, StageRaises,
       LookAtDestination, MoveAside, Place, PlaceRaises, LockManifest, ReadManifest,
       WriteManifest, Commit, Unwind, Crash, Fail, Finish, Goto
  <2> QED BY <2>1, OthersStay DEF AllWhole
<1>4. CASE dir' = dir /\ (backup' = backup \/ backup' = [backup EXCEPT ![p] = None])
  BY <1>t, <1>3, <1>4 DEF AllWhole
<1>5. CASE MoveAside(p)
  <2>1. pc[p] \in ReplacePoints
    BY <1>5 DEF MoveAside, ReplacePoints
  <2> QED BY <1>t, <1>3, <1>5, <2>1 DEF AllWhole, MoveAside
<1>6. CASE Place(p)
  <2>1. backup' = backup /\ dir' = [dir EXCEPT ![Here(p)] = Payload] /\ Payload.whole
    BY <1>6 DEF Place, Payload
  <2> QED BY <1>t, <1>3, <2>1 DEF AllWhole
<1>7. CASE PlaceRaises(p) \/ Unwind(p)
  <2>1. \/ dir' = dir
        \/ dir' = [dir EXCEPT ![Here(p)] = backup[p]] /\ backup[p] # None
    BY <1>7 DEF PlaceRaises, Unwind
  <2>2. backup' = backup \/ backup' = [backup EXCEPT ![p] = None]
    BY <1>7 DEF PlaceRaises, Unwind
  <2>3. \A place \in Places : dir'[place] # None => dir'[place].whole
    BY <1>t, <2>1 DEF AllWhole
  <2>4. \A q \in Installers : backup'[q] # None => backup'[q].whole
    BY <1>t, <2>2 DEF AllWhole
  <2> QED BY <1>3, <2>3, <2>4 DEF AllWhole
<1> QED BY <1>2, <1>4, <1>5, <1>6, <1>7

\* A place that is filled, or in hand, stays so: whoever empties it has the
\* directory in its backup, and gives it up only when the place is filled.
LEMMA SecuredStep ==
    ASSUME Intact, IInv, AllWhole, NEW p \in Installers, Command(p) \/ Continue(p),
           NEW place \in Places, Secured(place)
    PROVE  Secured(place)'
<1>t. /\ pc \in [Installers -> PCs] /\ DOMAIN dir = Places /\ DOMAIN backup = Installers
      /\ stack \in [Installers -> Seq(Frames)]
      /\ pc[p] \in ReplacePoints => stack[p] # <<>> /\ Here(p) \in Places
      /\ Payload # None
  BY PlacedTypes
<1>o. \A q \in Installers : q # p => pc'[q] = pc[q] /\ stack'[q] = stack[q]
  BY OthersStay
<1>1. ~RemoveNew(p) /\ ~RemovedNew(p) /\ ~PutBack(p)
  BY DEF AllWhole, RemoveNew, RemovedNew, PutBack
<1>b. \A q \in Installers : q # p => backup'[q] = backup[q]
  <2>1. backup' = backup \/ \E x : backup' = [backup EXCEPT ![p] = x]
    BY DEF Command, InstallCommand, InstallRequired, Continue, NextRoot,
       Descend, ResolveRaises, ReportInstalled, BeginReplace, Stage, StageRaises,
       LookAtDestination, MoveAside, Place, PlaceRaises, LockManifest, ReadManifest,
       WriteManifest, RecordRaises, RemoveNew, RemovedNew, RemoveRaises, PutBack, Commit,
       Unwind, UnwindRaises
  <2> QED BY <1>t, <2>1
<1>2. CASE dir[place] # None
  <2>1. CASE MoveAside(p) /\ Here(p) = place
    <3>1. /\ pc'[p] = "placing" /\ backup'[p] = dir[place] /\ stack' = stack
      BY <1>2, <1>t, <2>1 DEF MoveAside, Goto
    <3>2. Here(p)' = place
      BY <2>1, <3>1 DEF Here, Top
    <3>3. InHand(p, place)'
      BY <1>2, <3>1, <3>2 DEF InHand
    <3> QED BY <3>3 DEF Secured
  <2>2. CASE MoveAside(p) /\ Here(p) # place
    <3>1. dir'[place] = dir[place]
      BY <1>t, <2>2 DEF MoveAside
    <3> QED BY <1>2, <3>1 DEF Secured
  <2>3. CASE Place(p) \/ PlaceRaises(p) \/ Unwind(p)
    <3>1. \E c : c # None /\ (dir' = dir \/ dir' = [dir EXCEPT ![Here(p)] = c])
      BY <1>2, <1>t, <2>3 DEF Place, PlaceRaises, Unwind
    <3>2. dir'[place] # None
      BY <1>2, <1>t, <3>1
    <3> QED BY <3>2 DEF Secured
  <2>4. CASE ~MoveAside(p) /\ ~Place(p) /\ ~PlaceRaises(p) /\ ~Unwind(p)
    <3>1. dir' = dir
      BY <1>1, <2>4, IntactFaults DEF Command, InstallCommand, InstallRequired, Continue,
         NextRoot, Descend, ResolveRaises, ReportInstalled, BeginReplace, Stage, StageRaises,
         LookAtDestination, LockManifest, ReadManifest, WriteManifest, Commit
    <3> QED BY <1>2, <3>1 DEF Secured
  <2> QED BY <2>1, <2>2, <2>3, <2>4
<1>3. ASSUME NEW q \in Installers, InHand(q, place)
      PROVE  Secured(place)'
  <2>1. CASE q # p
    <3>1. Here(q)' = Here(q)
      BY <1>o, <2>1 DEF Here, Top
    <3>2. InHand(q, place)'
      BY <1>3, <1>o, <1>b, <2>1, <3>1 DEF InHand
    <3> QED BY <3>2 DEF Secured
  <2>2. CASE q = p
    <3>1. pc[p] \in {"placing", "unwinding"} /\ backup[p] # None /\ Here(p) = place
      BY <1>3, <2>2 DEF InHand
    <3>2. Place(p) \/ PlaceRaises(p) \/ Unwind(p)
      BY <1>1, <3>1, IntactFaults DEF Command, InstallCommand, InstallRequired, Continue,
         NextRoot, Descend, Waiting, ResolveRaises, ReportInstalled, Resolved, BeginReplace,
         Stage, StageRaises, LookAtDestination, MoveAside, LockManifest, ReadManifest,
         WriteManifest, Commit
    <3>3. dir'[place] # None
      BY <1>t, <3>1, <3>2 DEF Place, PlaceRaises, Unwind
    <3> QED BY <3>3 DEF Secured
  <2> QED BY <2>1, <2>2
<1> QED BY <1>2, <1>3 DEF Secured

\* What p has reported, and what it is recording, is secured.
LEMMA PromisedStep ==
    ASSUME Intact, IInv, DepsInv, ReportInv, NEW p \in Installers, Command(p) \/ Continue(p),
           Promised(p)
    PROVE  Promised(p)'
<1>t. /\ pc \in [Installers -> PCs] /\ DOMAIN dir = Places
      /\ stack \in [Installers -> Seq(Frames)]
      /\ stack[p] # <<>> => Top(p) \in Frames /\ Here(p) \in Places
      /\ Payload # None
  BY PlacedTypes, LocalTypes
<1>w. AllWhole
  BY DEF ReportInv
<1>1. ~RemoveNew(p) /\ ~RemovedNew(p) /\ ~PutBack(p)
  BY <1>w DEF AllWhole, RemoveNew, RemovedNew, PutBack
<1>s. \A place \in Places : Secured(place) => Secured(place)'
  BY <1>w, SecuredStep
<1>2. \/ records' = records
      \/ ReportInstalled(p) \/ Commit(p)
  BY <1>1, IntactFaults DEF Command, InstallCommand, InstallRequired, Continue, NextRoot,
     Descend, ResolveRaises, BeginReplace, Stage, StageRaises,
     LookAtDestination, MoveAside, Place, PlaceRaises, LockManifest, ReadManifest,
     WriteManifest, Unwind
<1>3. CASE ReportInstalled(p) \/ Commit(p)
  <2>1. stack[p] # <<>>
    BY <1>3 DEF ReportInstalled, Resolved, Commit, IInv, LockInv, ReplacePoints
  <2>2. Secured(Here(p))
    <3>1. CASE ReportInstalled(p)
      BY <3>1 DEF ReportInstalled, AlreadyInstalled, Healthy, Here, Secured
    <3>2. CASE Commit(p)
      BY <2>1, <3>2 DEF Commit, Promised, Recording
    <3> QED BY <1>3, <3>1, <3>2
  <2>3. records'[p] = records[p] \cup {Here(p)} /\ pc'[p] = "resolving"
    BY <1>3, <1>t DEF ReportInstalled, Commit, Finish, Goto, ReportInv
  <2>4. \A place \in records'[p] : place \in Places /\ Secured(place)'
    BY <1>s, <1>t, <2>1, <2>2, <2>3 DEF Promised
  <2> QED BY <2>3, <2>4 DEF Promised, Recording
<1>4. CASE records' = records /\ ~ReportInstalled(p) /\ ~Commit(p)
  <2>1. \A place \in records'[p] : place \in Places /\ Secured(place)'
    BY <1>s, <1>4 DEF Promised
  <2>2. ASSUME Recording(p)'
        PROVE  Secured(Here(p))'
    <3>1. CASE Place(p)
      <4>1. stack' = stack /\ dir' = [dir EXCEPT ![Here(p)] = Payload] /\ stack[p] # <<>>
        BY <3>1 DEF Place, IInv, LockInv, ReplacePoints
      <4>2. Here(p)' = Here(p)
        BY <4>1 DEF Here, Top
      <4>3. dir'[Here(p)] # None
        BY <1>t, <4>1
      <4> QED BY <4>2, <4>3 DEF Secured
    <3>2. CASE LockManifest(p) \/ ReadManifest(p) \/ WriteManifest(p)
      <4>1. stack' = stack /\ Recording(p)
        BY <2>2, <3>2 DEF LockManifest, ReadManifest, WriteManifest, Recording
      <4>2. Here(p)' = Here(p) /\ Here(p) \in Places /\ Secured(Here(p))
        BY <1>t, <4>1 DEF Recording, Promised, Here, Top
      <4>3. \A place \in Places : place = Here(p) => Secured(place)'
        BY <1>s, <4>2
      <4> QED BY <4>2, <4>3 DEF Secured
    <3>3. CASE InstallRequired(p)
      BY <2>2, <3>3 DEF InstallRequired, DepsInv, Prepared, Recording
    <3>4. CASE \/ (\E t \in Tools, v \in Versions : InstallCommand(p, t, v))
               \/ NextRoot(p) \/ Descend(p) \/ ResolveRaises(p) \/ BeginReplace(p)
               \/ Stage(p) \/ StageRaises(p) \/ LookAtDestination(p) \/ MoveAside(p)
               \/ PlaceRaises(p) \/ Unwind(p)
      <4>1. pc'[p] \notin {"recording", "locked", "writing", "committing"}
        BY <1>t, <3>4 DEF InstallCommand, NextRoot, Descend, Waiting, ResolveRaises,
           BeginReplace, Stage, StageRaises, LookAtDestination, MoveAside, PlaceRaises, Unwind,
           Fail, Goto
      <4> QED BY <2>2, <4>1 DEF Recording
    <3> QED BY <1>1, <1>4, <3>1, <3>2, <3>3, <3>4, IntactFaults DEF Command, Continue
  <2> QED BY <2>1, <2>2 DEF Promised
<1> QED BY <1>2, <1>3, <1>4

LEMMA ReportStep == Intact /\ IInv /\ DepsInv /\ ReportInv /\ [Next]_vars => ReportInv'
<1> SUFFICES ASSUME Intact, IInv, DepsInv, ReportInv, [Next]_vars PROVE ReportInv'
  OBVIOUS
<1>1. CASE UNCHANGED vars
  BY <1>1 DEF vars, ReportInv, AllWhole, Killed, Promised, Recording, Secured, InHand, Here, Top
<1>2. ASSUME NEW p \in Installers, Command(p) \/ Continue(p) \/ Interrupt(p) \/ Crash(p)
      PROVE  ReportInv'
  <2>1. AllWhole'
    BY <1>2, WholeStep DEF ReportInv
  <2>2. records' = records \/ \E x : records' = [records EXCEPT ![p] = x]
    BY <1>2 DEF Command, InstallCommand, InstallRequired, Continue, NextRoot, Descend,
       ResolveRaises, ReportInstalled, BeginReplace, Stage, StageRaises,
       LookAtDestination, MoveAside, Place, PlaceRaises, LockManifest, ReadManifest,
       WriteManifest, RecordRaises, RemoveNew, RemovedNew, RemoveRaises, PutBack,
       Commit, Unwind, UnwindRaises, Interrupt, Crash, Finish
  <2>3. (records = [q \in Installers |-> records[q]])'
    BY <2>2 DEF ReportInv
  <2>4. CASE Crash(p)
    <3>1. pc'[p] = "dead"
      BY <2>4, PlacedTypes DEF Crash, Goto
    <3> QED BY <2>1, <2>3, <3>1 DEF ReportInv, Killed
  <2>5. CASE Killed /\ ~Crash(p)
    <3>1. PICK q \in Installers : pc[q] = "dead"
      BY <2>5 DEF Killed
    <3>2. q # p
      BY <1>2, <2>5, <3>1 DEF Command, InstallCommand, InstallRequired, Continue, NextRoot,
         Descend, Waiting, ResolveRaises, ReportInstalled, BeginReplace, Resolved, Stage,
         StageRaises, LookAtDestination, MoveAside, Place, PlaceRaises, LockManifest,
         ReadManifest, WriteManifest, RecordRaises, RemoveNew, RemovedNew, RemoveRaises,
         PutBack, Commit, Unwind, UnwindRaises, Interrupt, Ended
    <3>3. pc'[q] = "dead"
      BY <1>2, <3>1, <3>2, OthersStay
    <3> QED BY <2>1, <2>3, <3>3 DEF ReportInv, Killed
  <2>6. CASE ~Killed /\ ~Crash(p)
    <3>1. (Command(p) \/ Continue(p)) /\ AllWhole /\ \A q \in Installers : Promised(q)
      BY <1>2, <2>6, IntactFaults DEF ReportInv
    <3>2. Promised(p)'
      BY <3>1, PromisedStep
    <3>3. ASSUME NEW q \in Installers, q # p
          PROVE  Promised(q)'
      <4>1. pc'[q] = pc[q] /\ stack'[q] = stack[q] /\ records'[q] = records[q]
        BY <1>2, <2>2, <3>3, OthersStay DEF ReportInv
      <4>2. Here(q)' = Here(q)
        BY <4>1 DEF Here, Top
      <4>3. \A place \in Places : Secured(place) => Secured(place)'
        BY <3>1, SecuredStep
      <4>4. Recording(q)' => Secured(Here(q))'
        <5> SUFFICES ASSUME Recording(q)' PROVE Secured(Here(q))'
          OBVIOUS
        <5>1. Recording(q) /\ Here(q) \in Places
          BY <4>1, LocalTypes DEF Recording
        <5>2. \A place \in Places : place = Here(q) => Secured(place)'
          BY <3>1, <4>3, <5>1 DEF Promised
        <5> QED BY <4>2, <5>1, <5>2 DEF Secured
      <4>5. \A place \in records'[q] : place \in Places /\ Secured(place)'
        BY <3>1, <4>1, <4>3 DEF Promised
      <4> QED BY <4>4, <4>5 DEF Promised
    <3> QED BY <2>1, <2>3, <3>2, <3>3 DEF ReportInv
  <2> QED BY <2>4, <2>5, <2>6
<1> QED BY <1>1, <1>2 DEF Next

\* What any of the installers that raced reported as installed is there and whole
\* when all have ended, however many replaced the same directory, if the
\* directories they found were whole (_is_healthy_managed_install, the renames of
\* _install_one).
THEOREM ReportsStayUsable ==
    ASSUME Intact
    PROVE  Spec => []ReportedIsUsable
<1>1. Init => ReportInv
  BY ReportInit
<1>2. IInv /\ DepsInv /\ ReportInv /\ [Next]_vars => ReportInv'
  BY ReportStep
<1>3. ReportInv => ReportedIsUsable
  BY DEF ReportInv, ReportedIsUsable, Quiet, Killed, Promised, Secured, InHand, AllWhole
<1> QED BY <1>1, <1>2, <1>3, DepsHold, PTL DEF Spec

\* Of two racers, one alone can be in the way of the other: what one has placed or
\* found, the other can only move aside and replace, whatever was there before.
Two == \A p, q, r \in Installers : p = q \/ q = r \/ p = r

\* A usable directory is in its place.
WholeAt(place) == dir[place] # None /\ dir[place].whole

\* q has moved a usable directory aside and will rename its own into the free place.
Replacing(q, place) ==
    /\ pc[q] = "placing" /\ Here(q) = place /\ dir[place] = None
    /\ backup[q] # None /\ backup[q].whole

\* p's directory is whole, or another racer is about to replace it.
Fine(p, place) ==
    WholeAt(place) \/ \E q \in Installers : q # p /\ Replacing(q, place)

\* A racer with one root has reported at the end only, and what it reports is fine.
Truthful(p) ==
    /\ records[p] # {} => pc[p] \in {"resolving", "done"} /\ stack[p] = <<>>
    /\ \A place \in records[p] : place \in Places /\ Fine(p, place)
    /\ Recording(p) => Fine(p, Here(p))

TwoInv ==
    /\ records = [p \in Installers |-> records[p]]
    /\ \A p \in Installers : Truthful(p)

LEMMA TwoInit == Init => TwoInv
<1> SUFFICES ASSUME Init PROVE TwoInv
  OBVIOUS
<1>1. records = [p \in Installers |-> records[p]]
  BY DEF Init
<1>2. \A p \in Installers : Truthful(p)
  BY DEF Init, Truthful, Recording
<1> QED BY <1>1, <1>2 DEF TwoInv

\* The other racer cannot take away what p has placed or found.
LEMMA FineStep ==
    ASSUME Race, Two, IInv, RaceInv, NEW p \in Installers, NEW q \in Installers, q # p,
           Command(q) \/ Continue(q), NEW place \in Places, Fine(p, place)
    PROVE  Fine(p, place)'
<1>t. /\ pc \in [Installers -> PCs] /\ DOMAIN dir = Places /\ DOMAIN backup = Installers
      /\ stack \in [Installers -> Seq(Frames)]
      /\ pc[q] \in ReplacePoints => stack[q] # <<>> /\ Here(q) \in Places
      /\ Payload # None /\ Payload.whole
  BY PlacedTypes DEF Payload
<1>1. ~RemoveNew(q) /\ ~RemovedNew(q) /\ ~PutBack(q)
  BY NoDescent DEF RaceInv
<1>2. \/ WholeAt(place)
      \/ Replacing(q, place)
  BY DEF Fine, Two
<1>3. CASE WholeAt(place)
  <2>1. CASE MoveAside(q) /\ Here(q) = place
    <3>1. /\ pc'[q] = "placing" /\ backup'[q] = dir[place] /\ stack' = stack /\ dir'[place] = None
      BY <1>3, <1>t, <2>1 DEF MoveAside, Goto, WholeAt
    <3>2. Here(q)' = place
      BY <2>1, <3>1 DEF Here, Top
    <3>3. Replacing(q, place)'
      BY <1>3, <3>1, <3>2 DEF Replacing, WholeAt
    <3> QED BY <3>3 DEF Fine
  <2>2. CASE MoveAside(q) /\ Here(q) # place
    <3>1. dir'[place] = dir[place]
      BY <1>t, <2>2 DEF MoveAside
    <3> QED BY <1>3, <3>1 DEF Fine, WholeAt
  <2>3. CASE Place(q)
    <3>1. dir' = [dir EXCEPT ![Here(q)] = Payload]
      BY <2>3 DEF Place
    <3> QED BY <1>3, <1>t, <3>1 DEF Fine, WholeAt
  <2>4. CASE PlaceRaises(q) \/ Unwind(q)
    <3>1. dir'[place] = dir[place]
      BY <1>3, <1>t, <2>4 DEF PlaceRaises, Unwind, WholeAt
    <3> QED BY <1>3, <3>1 DEF Fine, WholeAt
  <2>5. CASE ~MoveAside(q) /\ ~Place(q) /\ ~PlaceRaises(q) /\ ~Unwind(q)
    <3>1. dir' = dir
      BY <1>1, <2>5, NoFaults DEF Command, InstallCommand, InstallRequired, Continue,
         NextRoot, Descend, ResolveRaises, ReportInstalled, BeginReplace, Stage, StageRaises,
         LookAtDestination, LockManifest, ReadManifest, WriteManifest, Commit
    <3> QED BY <1>3, <3>1 DEF Fine, WholeAt
  <2> QED BY <2>1, <2>2, <2>3, <2>4, <2>5
<1>4. CASE Replacing(q, place)
  <2>1. Place(q)
    <3>1. ~PlaceRaises(q)
      BY <1>4 DEF Replacing, PlaceRaises, Race
    <3>2. pc[q] = "placing"
      BY <1>4 DEF Replacing
    <3> QED BY <1>1, <3>1, <3>2, NoFaults DEF Command, InstallCommand, InstallRequired, Continue,
         NextRoot, Descend, Waiting, ResolveRaises, ReportInstalled, Resolved, BeginReplace,
         Stage, StageRaises, LookAtDestination, MoveAside, LockManifest, ReadManifest,
         WriteManifest, Commit, Unwind
  <2>2. dir' = [dir EXCEPT ![place] = Payload]
    BY <1>4, <2>1 DEF Replacing, Place
  <2> QED BY <1>t, <2>2 DEF Fine, WholeAt
<1> QED BY <1>2, <1>3, <1>4

\* p's own steps: it places a whole payload or has found a whole directory, and
\* then touches the directories no more.
LEMMA TruthfulOwn ==
    ASSUME Race, IInv, DepsInv, RaceInv, TwoInv, NEW p \in Installers, Truthful(p),
           Command(p) \/ Continue(p)
    PROVE  Truthful(p)'
<1>t. /\ pc \in [Installers -> PCs] /\ DOMAIN dir = Places
      /\ stack \in [Installers -> Seq(Frames)] /\ Plain(p)
      /\ stack[p] # <<>> => Top(p) \in Frames /\ Here(p) \in Places
      /\ Payload # None /\ Payload.whole
  BY PlacedTypes, LocalTypes DEF Payload, RaceInv
<1>1. ~RemoveNew(p) /\ ~RemovedNew(p) /\ ~PutBack(p) /\ ~Descend(p)
  BY <1>t, NoDescent
<1>2. CASE ReportInstalled(p) \/ Commit(p)
  <2>1. stack[p] # <<>> /\ records[p] = {}
    BY <1>2 DEF ReportInstalled, Resolved, Commit, IInv, LockInv, ReplacePoints, Truthful
  <2>2. Fine(p, Here(p))
    <3>1. CASE ReportInstalled(p)
      BY <3>1 DEF ReportInstalled, AlreadyInstalled, Healthy, Here, Fine, WholeAt
    <3>2. CASE Commit(p)
      BY <2>1, <3>2 DEF Commit, Truthful, Recording
    <3> QED BY <1>2, <3>1, <3>2
  <2>3. /\ records'[p] = {Here(p)} /\ pc'[p] = "resolving" /\ stack'[p] = <<>> /\ dir' = dir
        /\ \A q \in Installers : q # p => backup'[q] = backup[q] /\ pc'[q] = pc[q]
                                          /\ stack'[q] = stack[q]
    BY <1>2, <1>t, <2>1, PlacedTypes
       DEF ReportInstalled, Commit, Finish, Goto, TwoInv, Plain
  <2> PICK place \in Places : place = Here(p)
    BY <1>t, <2>1
  <2>4. Fine(p, place)'
    <3>1. CASE WholeAt(place)
      BY <2>3, <3>1 DEF Fine, WholeAt
    <3>2. ASSUME NEW q \in Installers, q # p, Replacing(q, place)
          PROVE  Fine(p, place)'
      <4>1. Here(q)' = Here(q)
        BY <2>3, <3>2 DEF Here, Top
      <4>2. Replacing(q, place)'
        BY <2>3, <3>2, <4>1 DEF Replacing
      <4> QED BY <3>2, <4>2 DEF Fine
    <3> QED BY <2>2, <3>1, <3>2 DEF Fine
  <2> QED BY <2>3, <2>4 DEF Truthful, Recording
<1>3. CASE ~ReportInstalled(p) /\ ~Commit(p)
  <2>1. records' = records
    BY <1>1, <1>3, NoFaults DEF Command, InstallCommand, InstallRequired, Continue, NextRoot,
       Descend, ResolveRaises, BeginReplace, Stage, StageRaises,
       LookAtDestination, MoveAside, Place, PlaceRaises, LockManifest, ReadManifest,
       WriteManifest, Unwind
  <2>2. CASE records[p] # {}
    <3>1. NextRoot(p)
      BY <1>1, <1>3, <2>2, NoFaults DEF Truthful, Command, InstallCommand, InstallRequired,
         Continue, BeginReplace, Resolved, Stage, LookAtDestination, MoveAside, Place,
         PlaceRaises, LockManifest, ReadManifest, WriteManifest, Unwind
    <3>2. pc'[p] = "done" /\ stack' = stack /\ dir' = dir /\ backup' = backup
            /\ \A q \in Installers : q # p => pc'[q] = pc[q]
      BY <3>1, <1>t DEF NextRoot, Goto, Plain
    <3>3. ASSUME NEW place \in records[p]
          PROVE  place \in Places /\ Fine(p, place)'
      <4>1. place \in Places /\ Fine(p, place)
        BY DEF Truthful
      <4> QED BY <3>2, <4>1 DEF Fine, WholeAt, Replacing, Here, Top
    <3>4. stack'[p] = <<>>
      BY <2>2, <3>2 DEF Truthful
    <3> QED BY <2>1, <3>2, <3>3, <3>4 DEF Truthful, Recording
  <2>3. CASE records[p] = {}
    <3>1. ASSUME Recording(p)'
          PROVE  Fine(p, Here(p))'
      <4>1. CASE Place(p)
        <5>1. stack' = stack /\ dir' = [dir EXCEPT ![Here(p)] = Payload] /\ stack[p] # <<>>
          BY <4>1 DEF Place, IInv, LockInv, ReplacePoints
        <5>2. Here(p)' = Here(p)
          BY <5>1 DEF Here, Top
        <5>3. dir'[Here(p)] = Payload
          BY <1>t, <5>1
        <5> QED BY <1>t, <5>2, <5>3 DEF Fine, WholeAt
      <4>2. CASE LockManifest(p) \/ ReadManifest(p) \/ WriteManifest(p)
        <5>1. /\ stack' = stack /\ Recording(p) /\ dir' = dir /\ backup' = backup
              /\ \A q \in Installers : q # p => pc'[q] = pc[q]
          BY <3>1, <4>2, <1>t DEF LockManifest, ReadManifest, WriteManifest, Recording, Goto
        <5>2. Fine(p, Here(p))
          BY <5>1 DEF Truthful
        <5> QED BY <5>1, <5>2 DEF Fine, WholeAt, Replacing, Here, Top
      <4>3. CASE InstallRequired(p)
        BY <3>1, <4>3 DEF InstallRequired, DepsInv, Prepared, Recording
      <4>4. CASE \/ (\E t \in Tools, v \in Versions : InstallCommand(p, t, v))
                 \/ NextRoot(p) \/ BeginReplace(p) \/ Stage(p) \/ LookAtDestination(p)
                 \/ MoveAside(p) \/ PlaceRaises(p) \/ Unwind(p)
        <5>1. pc'[p] \notin {"recording", "locked", "writing", "committing"}
          BY <1>t, <4>4 DEF InstallCommand, NextRoot, BeginReplace, Stage, LookAtDestination,
             MoveAside, PlaceRaises, Unwind, Fail, Goto
        <5> QED BY <3>1, <5>1 DEF Recording
      <4> QED BY <1>1, <1>3, <4>1, <4>2, <4>3, <4>4, NoFaults DEF Command, Continue
    <3> QED BY <2>1, <2>3, <3>1 DEF Truthful
  <2> QED BY <2>2, <2>3
<1> QED BY <1>2, <1>3

LEMMA TwoStep == Race /\ Two /\ IInv /\ DepsInv /\ RaceInv /\ TwoInv /\ [Next]_vars => TwoInv'
<1> SUFFICES ASSUME Race, Two, IInv, DepsInv, RaceInv, TwoInv, [Next]_vars PROVE TwoInv'
  OBVIOUS
<1>1. CASE UNCHANGED vars
  BY <1>1 DEF vars, TwoInv, Truthful, Recording, Fine, WholeAt, Replacing, Here, Top
<1>2. ASSUME NEW p \in Installers, Command(p) \/ Continue(p) \/ Interrupt(p) \/ Crash(p)
      PROVE  TwoInv'
  <2>1. Command(p) \/ Continue(p)
    BY <1>2, NoFaults
  <2>2. records' = records \/ \E x : records' = [records EXCEPT ![p] = x]
    BY <1>2 DEF Command, InstallCommand, InstallRequired, Continue, NextRoot, Descend,
       ResolveRaises, ReportInstalled, BeginReplace, Stage, StageRaises,
       LookAtDestination, MoveAside, Place, PlaceRaises, LockManifest, ReadManifest,
       WriteManifest, RecordRaises, RemoveNew, RemovedNew, RemoveRaises, PutBack,
       Commit, Unwind, UnwindRaises, Interrupt, Crash, Finish
  <2>3. (records = [q \in Installers |-> records[q]])'
    BY <2>2 DEF TwoInv
  <2>4. Truthful(p)'
    BY <2>1, TruthfulOwn DEF TwoInv
  <2>5. ASSUME NEW q \in Installers, q # p
        PROVE  Truthful(q)'
    <3>1. pc'[q] = pc[q] /\ stack'[q] = stack[q] /\ records'[q] = records[q] /\ Truthful(q)
      BY <1>2, <2>2, <2>5, OthersStay DEF TwoInv
    <3>2. Here(q)' = Here(q)
      BY <3>1 DEF Here, Top
    <3>3. \A place \in Places : Fine(q, place) => Fine(q, place)'
      BY <2>1, <2>5, FineStep
    <3>4. Recording(q)' => Fine(q, Here(q))'
      <4> SUFFICES ASSUME Recording(q)' PROVE Fine(q, Here(q))'
        OBVIOUS
      <4>1. Recording(q) /\ Here(q) \in Places
        BY <3>1, LocalTypes DEF Recording
      <4>2. \A place \in Places : place = Here(q) => Fine(q, place)'
        BY <3>1, <3>3, <4>1 DEF Truthful
      <4> QED BY <3>2, <4>1, <4>2 DEF Fine
    <3>5. \A place \in records'[q] : place \in Places /\ Fine(q, place)'
      BY <3>1, <3>3 DEF Truthful
    <3> QED BY <3>1, <3>4, <3>5 DEF Truthful
  <2> QED BY <2>3, <2>4, <2>5 DEF TwoInv
<1> QED BY <1>1, <1>2 DEF Next

\* What either of two installers that race reported as installed is there and whole
\* when both have ended, also when they found a damaged directory.  (Of three,
\* one may put back the damaged directory that it had moved aside before the
\* second reported, while the third replaces it: ReportsStayUsable needs Intact.)
THEOREM TwoReportTruly ==
    ASSUME Race, Two
    PROVE  Spec => []ReportedIsUsable
<1>1. Init => RaceInv /\ TwoInv
  BY RaceInit, TwoInit
<1>2. IInv /\ DepsInv /\ RaceInv /\ TwoInv /\ [Next]_vars => RaceInv' /\ TwoInv'
  BY RaceStep, TwoStep
<1>3. TwoInv => ReportedIsUsable
  BY DEF TwoInv, Truthful, Fine, WholeAt, Replacing, ReportedIsUsable, Quiet
<1> QED BY <1>1, <1>2, <1>3, DepsHold, PTL DEF Spec
=============================================================================
