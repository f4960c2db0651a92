------------------------- MODULE ParamConfigProofs -------------------------
(***************************************************************************)
(* Theorems about ParamConfig, for any parameters and values, with or      *)
(* without manual edits.  For any number of processes: its type invariant, *)
(* and that the captured baseline is the one of the first command.  For    *)
(* one process at a time: that the two files are kept in step, and that no *)
(* result of an older value survives.                                      *)
(***************************************************************************)
EXTENDS ParamConfig, TLAPS

\* What a command at a label has read, each from where it is assigned.
CmdInv(c) ==
    /\ c.pc \in {"loading", "overriding"} => c.kind \in {"set", "unset"}
    /\ c.pc \in {"ensuring", "creating"} => c.kind = "set"
    /\ c.pc \in {"restoring", "removing"} => c.kind = "unset"
    /\ c.pc = "pending" => c.kind = "run"
    /\ c.kind \in {"set", "unset"} => c.key \in Params
    /\ c.pc \in {"overriding", "restoring", "removing"} => c.config # None
    /\ c.kind = "unset" /\ c.pc \in {"resetting", "writing"} => c.config # None

\* Until ecc-fe.toml exists nobody has written parameters.json, and a command
\* that is to create it has read the parameters before that.
CmdBaseline(c, file, base) ==
    /\ c.config # None => file # None
    /\ c.pc = "writing" => file # None
    /\ c.pc = "loading" /\ file = None => c.seen = base
    /\ c.kind = "set" /\ c.config = None /\ c.pc \in {"resetting", "ensuring"}
          => c.seen = base
    /\ c.pc = "creating" => c.seen = base

IInv ==
    /\ TypeOK
    /\ \A p \in Procs : CmdInv(cmd[p])
    /\ toml = None => params = original
    /\ \A p \in Procs : CmdBaseline(cmd[p], toml, original)
    /\ BaselineIsKept

Commands == [pc : {"idle", "loading", "pending", "resetting", "ensuring", "creating",
                   "overriding", "removing", "applying", "restoring", "writing",
                   "applied", "flowing", "done"},
             kind : {"set", "unset", "run", "none"},
             key : Params \cup {None}, value : Stored,
             config : Configs \cup {None}, seen : [Params -> Stored]]

LEMMA EffectiveType ==
    ASSUME NEW ps \in [Params -> Stored]
    PROVE  /\ Effective(ps) \in [Params -> Values]
           /\ NewConfig(ps) \in Configs /\ NewConfig(ps) # None
           /\ NewConfig(ps).defaults = Effective(ps)
<1>1. Effective(ps) \in [Params -> Values]
  BY DefaultAssumption DEF Effective, Stored
<1>2. NoValues \in [Params -> Stored]
  BY DEF NoValues, Stored
<1>3. NewConfig(ps) \in Configs
  BY <1>1, <1>2 DEF NewConfig, Configs
<1> QED BY <1>1, <1>3, NoFileAssumption DEF NewConfig

LEMMA AppliedType ==
    ASSUME NEW config \in Configs, NEW ps \in [Params -> Stored]
    PROVE  Applied(config, ps) \in [Params -> Stored]
BY DEF Applied, Desired, Configs, Stored

LEMMA IdleType == Idle \in Commands /\ CmdInv(Idle) /\ Idle.config = None
<1>1. NoValues \in [Params -> Stored]
  BY DEF NoValues, Stored
<1>2. Idle \in Commands
  BY <1>1 DEF Idle, Commands, Stored
<1> QED BY <1>2 DEF Idle, CmdInv

LEMMA InitInv == Init => IInv
<1> SUFFICES ASSUME Init PROVE IInv
  OBVIOUS
<1>1. TypeOK
  BY IdleType, EffectiveType DEF Init, TypeOK, Commands
<1>2. \A p \in Procs : cmd[p] = Idle
  BY DEF Init
<1>3. \A p \in Procs : CmdInv(cmd[p]) /\ CmdBaseline(cmd[p], toml, original)
  <2>1. \A f : CmdBaseline(Idle, f, original)
    BY DEF CmdBaseline, Idle
  <2> QED BY <1>2, <2>1, IdleType
<1>4. toml # None => toml.defaults = Effective(original)
  BY EffectiveType DEF Init
<1> QED BY <1>1, <1>3, <1>4 DEF Init, IInv, BaselineIsKept

\* What is left to show of a step of one process that keeps its files typed.
LEMMA OneCommand ==
    ASSUME IInv, NEW p \in Procs, NEW c \in Commands,
           cmd' = [cmd EXCEPT ![p] = c], original' = original,
           toml' \in Configs \cup {None}, params' \in [Params -> Stored],
           result' \in [Params -> Stored] \cup {None},
           toml # None => toml' # None,
           toml' = None => params' = original,
           toml' # None => toml'.defaults = Effective(original),
           CmdInv(c), CmdBaseline(c, toml', original)
    PROVE  IInv'
<1>1. \A q \in Procs : cmd'[q] = IF q = p THEN c ELSE cmd[q]
  BY DEF IInv, TypeOK
<1>2. TypeOK'
  BY DEF IInv, TypeOK, Commands
<1>3. ASSUME NEW q \in Procs PROVE CmdInv(cmd[q])' /\ CmdBaseline(cmd[q], toml, original)'
  <2>1. CASE q = p
    BY <1>1, <2>1 DEF CmdInv, CmdBaseline
  <2>2. CASE q # p
    BY <1>1, <2>2 DEF IInv, CmdInv, CmdBaseline
  <2> QED BY <2>1, <2>2
<1> QED BY <1>2, <1>3 DEF IInv, BaselineIsKept

LEMMA RequestInv ==
    ASSUME IInv, NEW p \in Procs, Request(p)
    PROVE  IInv'
<1>1. ASSUME NEW k \in Params, NEW v \in Values, RequestSet(p, k, v) PROVE IInv'
  <2> DEFINE d == [Idle EXCEPT !.pc = "loading", !.kind = "set", !.key = k,
                               !.value = v, !.seen = params]
  <2>1. d \in Commands
    BY IdleType DEF Commands, Stored, IInv, TypeOK
  <2>2. CmdInv(d) /\ CmdBaseline(d, toml', original)
    BY <1>1, IdleType DEF RequestSet, CmdInv, CmdBaseline, IInv, Idle
  <2> QED BY <1>1, <2>1, <2>2, OneCommand DEF RequestSet, IInv, TypeOK, BaselineIsKept
<1>2. ASSUME NEW k \in Params, RequestUnset(p, k) PROVE IInv'
  <2> DEFINE d == [Idle EXCEPT !.pc = "loading", !.kind = "unset", !.key = k,
                               !.seen = params]
  <2>1. d \in Commands
    BY IdleType DEF Commands, Stored, IInv, TypeOK
  <2>2. CmdInv(d) /\ CmdBaseline(d, toml', original)
    BY <1>2, IdleType DEF RequestUnset, CmdInv, CmdBaseline, IInv, Idle
  <2> QED BY <1>2, <2>1, <2>2, OneCommand DEF RequestUnset, IInv, TypeOK, BaselineIsKept
<1>3. ASSUME RequestRun(p) PROVE IInv'
  <2> DEFINE d == [Idle EXCEPT !.pc = "pending", !.kind = "run", !.config = toml]
  <2>1. d \in Commands
    BY IdleType DEF Commands, IInv, TypeOK
  <2>2. CmdInv(d) /\ CmdBaseline(d, toml', original)
    BY <1>3, IdleType DEF RequestRun, CmdInv, CmdBaseline, IInv, Idle
  <2> QED BY <1>3, <2>1, <2>2, OneCommand DEF RequestRun, IInv, TypeOK, BaselineIsKept
<1> QED BY <1>1, <1>2, <1>3 DEF Request

\* The record a step leaves differs from cmd[p] in some fields only.
LEMMA SameCommand ==
    ASSUME TypeOK, NEW p \in Procs
    PROVE  /\ cmd[p] \in Commands
           /\ \A l : Goto(p, l) => cmd' = [cmd EXCEPT ![p] = [cmd[p] EXCEPT !.pc = l]]
BY DEF TypeOK, Commands, Goto

LEMMA LoadInv ==
    ASSUME IInv, NEW p \in Procs, LoadForSet(p) \/ LoadForUnset(p) \/ FindPending(p)
    PROVE  IInv'
<1> USE SameCommand DEF IInv
<1>1. ASSUME LoadForSet(p) PROVE IInv'
  <2>1. PICK l \in {"resetting", "ensuring"} :
            cmd' = [cmd EXCEPT ![p] = [cmd[p] EXCEPT !.config = toml, !.pc = l]]
    BY <1>1 DEF LoadForSet, TypeOK, Commands
  <2> DEFINE d == [cmd[p] EXCEPT !.config = toml, !.pc = l]
  <2>2. d \in Commands
    BY <2>1 DEF Commands, TypeOK
  <2>3. CmdInv(d) /\ CmdBaseline(d, toml', original)
    BY <1>1 DEF LoadForSet, CmdInv, CmdBaseline, Commands
  <2> QED BY <1>1, <2>1, <2>2, <2>3, OneCommand DEF LoadForSet, TypeOK, BaselineIsKept
<1>2. ASSUME LoadForUnset(p) PROVE IInv'
  <2>1. PICK l \in {"done", "resetting", "restoring"} :
            /\ cmd' = [cmd EXCEPT ![p] = [cmd[p] EXCEPT !.config = toml, !.pc = l]]
            /\ l # "done" => toml # None
    BY <1>2 DEF LoadForUnset, TypeOK, Commands
  <2> DEFINE d == [cmd[p] EXCEPT !.config = toml, !.pc = l]
  <2>2. d \in Commands
    BY <2>1 DEF Commands, TypeOK
  <2>3. CmdInv(d) /\ CmdBaseline(d, toml', original)
    BY <1>2, <2>1 DEF LoadForUnset, CmdInv, CmdBaseline, Commands
  <2> QED BY <1>2, <2>1, <2>2, <2>3, OneCommand DEF LoadForUnset, TypeOK, BaselineIsKept
<1>3. ASSUME FindPending(p) PROVE IInv'
  <2>1. PICK l \in {"resetting", "applying"} :
            cmd' = [cmd EXCEPT ![p] = [cmd[p] EXCEPT !.pc = l]]
    BY <1>3 DEF FindPending
  <2> DEFINE d == [cmd[p] EXCEPT !.pc = l]
  <2>2. d \in Commands
    BY <2>1 DEF Commands
  <2>3. CmdInv(d) /\ CmdBaseline(d, toml', original)
    BY <1>3, <2>1 DEF FindPending, CmdInv, CmdBaseline, Commands
  <2> QED BY <1>3, <2>1, <2>2, <2>3, OneCommand DEF FindPending, TypeOK, BaselineIsKept
<1> QED BY <1>1, <1>2, <1>3

LEMMA ConfigInv ==
    ASSUME IInv, NEW p \in Procs, LookForConfig(p) \/ CreateConfig(p) \/ WriteOverride(p)
    PROVE  IInv'
<1> USE SameCommand DEF IInv
<1>1. ASSUME LookForConfig(p) PROVE IInv'
  <2>1. PICK l \in {"creating", "overriding"}, f \in {cmd[p].config, toml} :
            /\ cmd' = [cmd EXCEPT ![p] = [cmd[p] EXCEPT !.config = f, !.pc = l]]
            /\ l = "overriding" => f # None
            /\ l = "creating" => cmd[p].config = None
    BY <1>1 DEF LookForConfig, TypeOK, Commands
  <2> DEFINE d == [cmd[p] EXCEPT !.config = f, !.pc = l]
  <2>2. d \in Commands
    BY <2>1 DEF Commands, TypeOK
  <2>3. CmdInv(d) /\ CmdBaseline(d, toml', original)
    BY <1>1, <2>1 DEF LookForConfig, CmdInv, CmdBaseline, Commands
  <2> QED BY <1>1, <2>1, <2>2, <2>3, OneCommand DEF LookForConfig, TypeOK, BaselineIsKept
<1>2. ASSUME CreateConfig(p) PROVE IInv'
  <2>1. cmd[p].seen = original /\ cmd[p].kind = "set" /\ cmd[p].key \in Params
    BY <1>2 DEF CreateConfig, CmdInv, CmdBaseline
  <2>2. PICK f : f = NewConfig(original)
    OBVIOUS
  <2>3. f \in Configs /\ f # None /\ f.defaults = Effective(original)
    BY <2>2, EffectiveType DEF TypeOK
  <2> DEFINE d == [cmd[p] EXCEPT !.config = f, !.pc = "overriding"]
  <2>4. toml' = f /\ cmd' = [cmd EXCEPT ![p] = d]
    BY <1>2, <2>1, <2>2 DEF CreateConfig, TypeOK, Commands
  <2>5. d \in Commands
    BY <2>3 DEF Commands
  <2>6. CmdInv(d) /\ CmdBaseline(d, toml', original)
    BY <2>1, <2>3, <2>4 DEF CmdInv, CmdBaseline, Commands
  <2> QED BY <1>2, <2>3, <2>4, <2>5, <2>6, OneCommand DEF CreateConfig, TypeOK
<1>3. ASSUME WriteOverride(p) PROVE IInv'
  <2>1. /\ cmd[p].config \in Configs /\ cmd[p].kind \in {"set", "unset"}
        /\ cmd[p].key \in Params /\ cmd[p].value \in Stored /\ toml \in Configs
    BY <1>3 DEF WriteOverride, CmdInv, TypeOK, Commands
  <2>2. PICK f : f = [toml EXCEPT !.overrides =
                         [cmd[p].config.overrides EXCEPT ![cmd[p].key] = cmd[p].value]]
    OBVIOUS
  <2>3. f \in Configs /\ f # None /\ f.defaults = Effective(original)
    BY <1>3, <2>1, <2>2, NoFileAssumption DEF Configs, WriteOverride, BaselineIsKept
  <2>4. PICK l \in {"applying", "done"} :
            cmd' = [cmd EXCEPT ![p] = [cmd[p] EXCEPT !.config = f, !.pc = l]]
    BY <1>3, <2>2 DEF WriteOverride, TypeOK, Commands
  <2> DEFINE d == [cmd[p] EXCEPT !.config = f, !.pc = l]
  <2>5. toml' = f /\ d \in Commands
    BY <1>3, <2>2, <2>3 DEF WriteOverride, Commands
  <2>6. CmdInv(d) /\ CmdBaseline(d, toml', original)
    BY <2>1, <2>3, <2>5 DEF CmdInv, CmdBaseline, Commands
  <2> QED BY <1>3, <2>3, <2>4, <2>5, <2>6, OneCommand DEF WriteOverride, TypeOK
<1> QED BY <1>1, <1>2, <1>3

LEMMA ParametersInv ==
    ASSUME IInv, NEW p \in Procs,
           ReadForApply(p) \/ ReadForRestore(p) \/ WriteParameters(p)
    PROVE  IInv'
<1> USE SameCommand DEF IInv
<1>1. ASSUME ReadForApply(p) PROVE IInv'
  <2> DEFINE n == IF toml = None THEN params ELSE Applied(toml, params)
  <2>0. n \in [Params -> Stored]
    BY AppliedType DEF TypeOK
  <2>1. PICK new \in [Params -> Stored], l \in {"applied", "writing"} :
            /\ cmd' = [cmd EXCEPT ![p] =
                         [cmd[p] EXCEPT !.config = toml, !.seen = new, !.pc = l]]
            /\ l = "writing" => toml # None
    <3>1. cmd' = [cmd EXCEPT ![p] =
                    [cmd[p] EXCEPT !.config = toml, !.seen = n,
                                   !.pc = IF n = params THEN "applied" ELSE "writing"]]
      BY <1>1 DEF ReadForApply, TypeOK, Commands
    <3> QED BY <2>0, <3>1
  <2> DEFINE d == [cmd[p] EXCEPT !.config = toml, !.seen = new, !.pc = l]
  <2>2. d \in Commands
    BY <2>1 DEF Commands, TypeOK
  <2>3. CmdInv(d) /\ CmdBaseline(d, toml', original)
    BY <1>1, <2>1 DEF ReadForApply, CmdInv, CmdBaseline, Commands
  <2> QED BY <1>1, <2>1, <2>2, <2>3, OneCommand DEF ReadForApply, TypeOK, BaselineIsKept
<1>2. ASSUME ReadForRestore(p) PROVE IInv'
  <2>1. cmd[p].config \in Configs /\ cmd[p].kind = "unset" /\ cmd[p].key \in Params
    BY <1>2 DEF ReadForRestore, CmdInv, Commands
  <2> DEFINE n == [params EXCEPT ![cmd[p].key] = cmd[p].config.defaults[cmd[p].key]]
  <2>2. n \in [Params -> Stored]
    BY <2>1 DEF TypeOK, Configs, Stored
  <2>3. PICK new \in [Params -> Stored], l \in {"removing", "writing"} :
            cmd' = [cmd EXCEPT ![p] = [cmd[p] EXCEPT !.seen = new, !.pc = l]]
    <3>1. cmd' = [cmd EXCEPT ![p] =
                    [cmd[p] EXCEPT !.seen = n,
                                   !.pc = IF n = params THEN "removing" ELSE "writing"]]
      BY <1>2 DEF ReadForRestore, TypeOK, Commands
    <3> QED BY <2>2, <3>1
  <2> DEFINE d == [cmd[p] EXCEPT !.seen = new, !.pc = l]
  <2>4. d \in Commands
    BY <2>3 DEF Commands
  <2>5. CmdInv(d) /\ CmdBaseline(d, toml', original)
    BY <1>2, <2>1, NoFileAssumption DEF ReadForRestore, CmdInv, CmdBaseline, Commands
  <2> QED BY <1>2, <2>3, <2>4, <2>5, OneCommand DEF ReadForRestore, TypeOK, BaselineIsKept
<1>3. ASSUME WriteParameters(p) PROVE IInv'
  <2>1. PICK l \in {"removing", "applied"} :
            /\ cmd' = [cmd EXCEPT ![p] = [cmd[p] EXCEPT !.pc = l]]
            /\ l = "removing" <=> cmd[p].kind = "unset"
    BY <1>3 DEF WriteParameters
  <2> DEFINE d == [cmd[p] EXCEPT !.pc = l]
  <2>2. d \in Commands
    BY <2>1 DEF Commands
  <2>3. toml # None
    BY <1>3 DEF WriteParameters, CmdBaseline
  <2>4. CmdInv(d) /\ CmdBaseline(d, toml', original)
    BY <1>3, <2>1, <2>3 DEF WriteParameters, CmdInv, CmdBaseline, Commands
  <2>5. params' \in [Params -> Stored]
    BY <1>3 DEF WriteParameters, Commands
  <2> QED BY <1>3, <2>1, <2>2, <2>3, <2>4, <2>5, OneCommand
          DEF WriteParameters, TypeOK, BaselineIsKept
<1> QED BY <1>1, <1>2, <1>3

LEMMA FlowInv ==
    ASSUME IInv, NEW p \in Procs,
           ResetFlow(p) \/ SetReturns(p) \/ StartFlow(p) \/ FinishFlow(p) \/ Fail(p)
    PROVE  IInv'
<1> USE SameCommand DEF IInv
<1>1. ASSUME ResetFlow(p) PROVE IInv'
  <2>1. PICK l \in {"ensuring", "restoring", "applying"} :
            /\ cmd' = [cmd EXCEPT ![p] = [cmd[p] EXCEPT !.pc = l]]
            /\ l = "ensuring" => cmd[p].kind = "set"
            /\ l = "restoring" => cmd[p].kind = "unset"
    BY <1>1 DEF ResetFlow
  <2> DEFINE d == [cmd[p] EXCEPT !.pc = l]
  <2>2. d \in Commands
    BY <2>1 DEF Commands
  <2>3. CmdInv(d) /\ CmdBaseline(d, toml', original)
    BY <1>1, <2>1 DEF ResetFlow, CmdInv, CmdBaseline, Commands
  <2> QED BY <1>1, <2>1, <2>2, <2>3, OneCommand DEF ResetFlow, TypeOK, BaselineIsKept
<1>2. ASSUME SetReturns(p) \/ FinishFlow(p) PROVE IInv'
  <2> DEFINE d == [cmd[p] EXCEPT !.pc = "done"]
  <2>1. cmd' = [cmd EXCEPT ![p] = d] /\ d \in Commands
    BY <1>2 DEF SetReturns, FinishFlow, Commands
  <2>2. CmdInv(d) /\ CmdBaseline(d, toml', original)
    BY <1>2 DEF SetReturns, FinishFlow, CmdInv, CmdBaseline, Commands
  <2>3. result' \in [Params -> Stored] \cup {None}
    BY <1>2 DEF SetReturns, FinishFlow, TypeOK, Commands
  <2> QED BY <1>2, <2>1, <2>2, <2>3, OneCommand
          DEF SetReturns, FinishFlow, TypeOK, BaselineIsKept
<1>3. ASSUME StartFlow(p) PROVE IInv'
  <2>1. PICK l \in {"done", "flowing"} :
            cmd' = [cmd EXCEPT ![p] = [cmd[p] EXCEPT !.seen = params, !.pc = l]]
    BY <1>3 DEF StartFlow, TypeOK, Commands
  <2> DEFINE d == [cmd[p] EXCEPT !.seen = params, !.pc = l]
  <2>2. d \in Commands
    BY <2>1 DEF Commands, TypeOK
  <2>3. CmdInv(d) /\ CmdBaseline(d, toml', original)
    BY <1>3, <2>1 DEF StartFlow, CmdInv, CmdBaseline, Commands
  <2> QED BY <1>3, <2>1, <2>2, <2>3, OneCommand DEF StartFlow, TypeOK, BaselineIsKept
<1>4. ASSUME Fail(p) PROVE IInv'
  <2>1. CmdBaseline(Idle, toml', original)
    BY DEF CmdBaseline, Idle
  <2> QED BY <1>4, <2>1, IdleType, OneCommand DEF Fail, TypeOK, BaselineIsKept
<1> QED BY <1>1, <1>2, <1>3, <1>4

LEMMA EditInv ==
    ASSUME IInv, NEW k \in Params, NEW v \in Stored, EditOverride(k, v)
    PROVE  IInv'
<1>1. toml' \in Configs /\ toml' # None /\ toml'.defaults = Effective(original)
  BY NoFileAssumption DEF IInv, TypeOK, EditOverride, Configs, BaselineIsKept
<1>2. TypeOK'
  BY <1>1 DEF IInv, TypeOK, EditOverride
<1>3. \A p \in Procs : CmdInv(cmd[p])' /\ CmdBaseline(cmd[p], toml, original)'
  BY <1>1 DEF IInv, EditOverride, CmdInv, CmdBaseline
<1> QED BY <1>1, <1>2, <1>3 DEF IInv, EditOverride, BaselineIsKept

LEMMA NextInv == IInv /\ [Next]_vars => IInv'
<1> SUFFICES ASSUME IInv, [Next]_vars PROVE IInv'
  OBVIOUS
<1>1. ASSUME NEW p \in Procs, Request(p) PROVE IInv'
  BY <1>1, RequestInv
<1>2. ASSUME NEW p \in Procs, Step(p) \/ Fail(p) PROVE IInv'
  BY <1>2, LoadInv, ConfigInv, ParametersInv, FlowInv DEF Step
<1>3. ASSUME NEW k \in Params, NEW v \in Stored, EditOverride(k, v) PROVE IInv'
  BY <1>3, EditInv
<1>4. CASE UNCHANGED vars
  BY <1>4 DEF vars, IInv, TypeOK, CmdInv, CmdBaseline, BaselineIsKept
<1> QED BY <1>1, <1>2, <1>3, <1>4 DEF Next

\* The two files, the flow's results and what each command has read keep their
\* types, however many processes run commands and whatever fails.
THEOREM TypeCorrect == Spec => []TypeOK
<1>1. IInv => TypeOK
  BY DEF IInv
<1> QED BY <1>1, InitInv, NextInv, PTL DEF Spec

\* create_project_config captures the same baseline whichever command calls it:
\* nobody writes parameters.json as long as there is no ecc-fe.toml, and nobody
\* changes [defaults] afterwards.
THEOREM BaselineSurvivesRaces == Spec => []BaselineIsKept
<1>1. IInv => BaselineIsKept
  BY DEF IInv
<1> QED BY <1>1, InitInv, NextInv, PTL DEF Spec

-----------------------------------------------------------------------------
(* One process at a time, as the documentation has it: what a command has  *)
(* read is still what the files hold, but for the user's edits between two *)
(* commands.                                                               *)

Solo == \A p, q \in Procs : p = q

\* c: what the process is doing; file, ps, res: ecc-fe.toml, parameters.json and
\* the parameters of the results in flow.json.
InStep(c, file, ps) ==
    /\ c.kind = "set" => c.value # None
    /\ c.kind = "unset" => c.value = None /\ c.pc \notin {"overriding", "applying"}
    /\ c.key # None => c.kind \in {"set", "unset"}
    /\ c.pc \notin {"idle", "loading", "done"} => c.config = file
    /\ c.pc = "loading" => c.seen = ps
    /\ c.pc = "creating" => file = None

\* What is about to be written to parameters.json.
Planned(c, file, ps) ==
    /\ c.kind = "unset" /\ c.pc = "writing" =>
          c.seen = [ps EXCEPT ![c.key] = file.defaults[c.key]]
    /\ c.kind # "unset" /\ c.pc = "writing" =>
          file # None /\ c.seen = Applied(file, ps)
    /\ c.pc = "removing" => ps[c.key] = file.defaults[c.key]

\* The flow was reset, or the named parameter keeps its value.
ResetOrSame(c, file, ps, res) ==
    /\ c.kind = "set" /\ c.pc \in {"ensuring", "creating", "overriding", "applying", "writing"}
          => \/ res = None
             \/ file # None /\ ps[c.key] = c.value /\ file.overrides[c.key] = c.value
    /\ c.kind = "unset" /\ c.pc \in {"restoring", "writing"}
          => res = None \/ ps[c.key] = file.defaults[c.key]

\* A run goes on with the parameters that it has synchronised.
Synchronised(c, ps, res) ==
    /\ c.kind = "run" /\ c.pc \in {"applied", "flowing", "done"} =>
          (c.config # None => Changed(c.config, ps) = {})
    /\ c.kind = "run" /\ c.pc = "flowing" => c.seen = ps
    /\ c.kind = "run" /\ c.pc = "done" => res = ps

SoloCmd(c, file, ps, res) ==
    /\ InStep(c, file, ps)
    /\ Planned(c, file, ps)
    /\ ResetOrSame(c, file, ps, res)
    /\ Synchronised(c, ps, res)

SoloInv == \A p \in Procs : SoloCmd(cmd[p], toml, params, result)

\* Once applied, the overrides leave nothing to apply (apply_project_overrides).
LEMMA AppliedSettles ==
    ASSUME NEW config, NEW ps
    PROVE  Changed(config, Applied(config, ps)) = {}
<1> SUFFICES ASSUME NEW k \in Params, k \in Changed(config, Applied(config, ps)) PROVE FALSE
  BY DEF Changed
<1>1. CASE k \in Changed(config, ps)
  BY <1>1 DEF Changed, Applied
<1>2. CASE k \notin Changed(config, ps)
  BY <1>2 DEF Changed, Applied
<1> QED BY <1>1, <1>2

LEMMA SoloInit == Init => SoloInv
<1> SUFFICES ASSUME Init, NEW p \in Procs PROVE SoloCmd(cmd[p], toml, params, result)
  BY DEF SoloInv
<1>1. cmd[p] = Idle
  BY DEF Init
<1>2. Idle.pc = "idle" /\ Idle.kind = "none" /\ Idle.key = None
  BY DEF Idle
<1> QED BY <1>1, <1>2 DEF SoloCmd, InStep, Planned, ResetOrSame, Synchronised

\* A step of the only process.
LEMMA SoloOne ==
    ASSUME Solo, IInv, NEW p \in Procs, NEW c, cmd' = [cmd EXCEPT ![p] = c],
           SoloCmd(c, toml', params', result')
    PROVE  SoloInv'
<1>1. cmd'[p] = c /\ \A q \in Procs : q = p
  BY DEF Solo, IInv, TypeOK
<1> QED BY <1>1 DEF SoloInv

LEMMA SoloRequest ==
    ASSUME Solo, IInv, NEW p \in Procs, Request(p)
    PROVE  SoloInv'
<1>1. ASSUME NEW k \in Params, NEW v \in Values, RequestSet(p, k, v) PROVE SoloInv'
  <2> PICK d : d = [Idle EXCEPT !.pc = "loading", !.kind = "set", !.key = k,
                                !.value = v, !.seen = params]
    OBVIOUS
  <2>1. d.pc = "loading" /\ d.kind = "set" /\ d.value # None /\ d.seen = params
    BY NoneAssumption DEF Idle
  <2>2. SoloCmd(d, toml', params', result')
    BY <1>1, <2>1 DEF RequestSet, SoloCmd, InStep, Planned, ResetOrSame, Synchronised
  <2> QED BY <1>1, <2>2, SoloOne DEF RequestSet
<1>2. ASSUME NEW k \in Params, RequestUnset(p, k) PROVE SoloInv'
  <2> PICK d : d = [Idle EXCEPT !.pc = "loading", !.kind = "unset", !.key = k,
                                !.seen = params]
    OBVIOUS
  <2>1. d.pc = "loading" /\ d.kind = "unset" /\ d.value = None /\ d.seen = params
    BY DEF Idle
  <2>2. SoloCmd(d, toml', params', result')
    BY <1>2, <2>1 DEF RequestUnset, SoloCmd, InStep, Planned, ResetOrSame, Synchronised
  <2> QED BY <1>2, <2>2, SoloOne DEF RequestUnset
<1>3. ASSUME RequestRun(p) PROVE SoloInv'
  <2> PICK d : d = [Idle EXCEPT !.pc = "pending", !.kind = "run", !.config = toml]
    OBVIOUS
  <2>1. d.pc = "pending" /\ d.kind = "run" /\ d.key = None /\ d.config = toml
    BY DEF Idle
  <2>2. SoloCmd(d, toml', params', result')
    BY <1>3, <2>1 DEF RequestRun, SoloCmd, InStep, Planned, ResetOrSame, Synchronised
  <2> QED BY <1>3, <2>2, SoloOne DEF RequestRun
<1> QED BY <1>1, <1>2, <1>3 DEF Request

LEMMA SoloLoad ==
    ASSUME Solo, IInv, SoloInv, NEW p \in Procs,
           LoadForSet(p) \/ LoadForUnset(p) \/ FindPending(p)
    PROVE  SoloInv'
<1>s. cmd[p] \in Commands /\ SoloCmd(cmd[p], toml, params, result)
        /\ toml' = toml /\ params' = params /\ result' = result
  BY SameCommand DEF IInv, SoloInv, LoadForSet, LoadForUnset, FindPending
<1>1. ASSUME LoadForSet(p) PROVE SoloInv'
  <2>1. PICK l : cmd' = [cmd EXCEPT ![p] = [cmd[p] EXCEPT !.config = toml, !.pc = l]] /\
            l = IF \/ cmd[p].seen[cmd[p].key] # cmd[p].value
                   \/ (IF toml = None THEN None ELSE toml.overrides[cmd[p].key]) # cmd[p].value
                THEN "resetting" ELSE "ensuring"
    BY <1>1, <1>s DEF LoadForSet, IInv, TypeOK, Commands
  <2> PICK d : d = [cmd[p] EXCEPT !.config = toml, !.pc = l]
    OBVIOUS
  <2>2. /\ d.pc = l /\ l \in {"resetting", "ensuring"} /\ d.config = toml /\ d.kind = "set"
        /\ d.value = cmd[p].value /\ d.key = cmd[p].key
    BY <1>1, <1>s, <2>1 DEF LoadForSet, Commands
  <2>3. cmd[p].seen = params /\ cmd[p].kind = "set" /\ cmd[p].value # None
    BY <1>1, <1>s DEF LoadForSet, SoloCmd, InStep
  <2>4. l = "ensuring" => /\ toml # None /\ params[d.key] = d.value
                          /\ toml.overrides[d.key] = d.value
    BY <2>1, <2>2, <2>3
  <2>5. InStep(d, toml, params)
    BY <1>s, <2>2, <2>3 DEF SoloCmd, InStep
  <2>6. SoloCmd(d, toml', params', result')
    BY <1>s, <2>2, <2>4, <2>5 DEF SoloCmd, Planned, ResetOrSame, Synchronised
  <2> QED BY <2>1, <2>6, SoloOne
<1>2. ASSUME LoadForUnset(p) PROVE SoloInv'
  <2>1. PICK l : cmd' = [cmd EXCEPT ![p] = [cmd[p] EXCEPT !.config = toml, !.pc = l]] /\
            l = IF ~(toml # None /\ toml.overrides[cmd[p].key] # None) THEN "done"
                ELSE IF \/ toml.overrides[cmd[p].key] # toml.defaults[cmd[p].key]
                        \/ cmd[p].seen[cmd[p].key] # toml.defaults[cmd[p].key]
                     THEN "resetting" ELSE "restoring"
    BY <1>2, <1>s DEF LoadForUnset, IInv, TypeOK, Commands
  <2> PICK d : d = [cmd[p] EXCEPT !.config = toml, !.pc = l]
    OBVIOUS
  <2>2. /\ d.pc = l /\ l \in {"done", "resetting", "restoring"} /\ d.config = toml
        /\ d.kind = "unset" /\ d.value = cmd[p].value /\ d.key = cmd[p].key
    BY <1>2, <1>s, <2>1 DEF LoadForUnset, Commands
  <2>3. cmd[p].seen = params /\ cmd[p].kind = "unset" /\ cmd[p].value = None
    BY <1>2, <1>s DEF LoadForUnset, SoloCmd, InStep
  <2>4. l = "restoring" => params[d.key] = toml.defaults[d.key]
    BY <2>1, <2>2, <2>3
  <2>5. InStep(d, toml, params)
    BY <1>s, <2>2, <2>3 DEF SoloCmd, InStep
  <2>6. SoloCmd(d, toml', params', result')
    BY <1>s, <2>2, <2>4, <2>5 DEF SoloCmd, Planned, ResetOrSame, Synchronised
  <2> QED BY <2>1, <2>6, SoloOne
<1>3. ASSUME FindPending(p) PROVE SoloInv'
  <2>1. PICK l \in {"resetting", "applying"} :
            cmd' = [cmd EXCEPT ![p] = [cmd[p] EXCEPT !.pc = l]]
    BY <1>3 DEF FindPending, Goto
  <2> PICK d : d = [cmd[p] EXCEPT !.pc = l]
    OBVIOUS
  <2>2. /\ d.pc = l /\ d.config = cmd[p].config /\ d.kind = "run"
        /\ d.key = cmd[p].key /\ cmd[p].kind = "run" /\ cmd[p].pc = "pending"
    BY <1>3, <1>s DEF FindPending, Commands, IInv, CmdInv
  <2>3. InStep(d, toml, params)
    BY <1>s, <2>2 DEF SoloCmd, InStep
  <2>4. SoloCmd(d, toml', params', result')
    BY <1>s, <2>2, <2>3 DEF SoloCmd, Planned, ResetOrSame, Synchronised
  <2> QED BY <2>1, <2>4, SoloOne
<1> QED BY <1>1, <1>2, <1>3

\* ecc-fe.toml: looked for, created, and its overrides rewritten.
LEMMA SoloConfig ==
    ASSUME Solo, IInv, SoloInv, NEW p \in Procs,
           LookForConfig(p) \/ CreateConfig(p) \/ WriteOverride(p)
    PROVE  SoloInv'
<1>s. /\ cmd[p] \in Commands /\ SoloCmd(cmd[p], toml, params, result) /\ CmdInv(cmd[p])
      /\ params' = params /\ result' = result
  BY SameCommand DEF IInv, SoloInv, LookForConfig, CreateConfig, WriteOverride
<1>1. ASSUME LookForConfig(p) PROVE SoloInv'
  <2>1. cmd[p].config = toml /\ cmd[p].kind = "set" /\ cmd[p].pc = "ensuring" /\ toml' = toml
    BY <1>1, <1>s DEF LookForConfig, SoloCmd, InStep, CmdInv
  <2>2. PICK l : cmd' = [cmd EXCEPT ![p] = [cmd[p] EXCEPT !.config = toml, !.pc = l]] /\
            l = IF toml = None THEN "creating" ELSE "overriding"
    BY <1>1, <1>s, <2>1 DEF LookForConfig, IInv, TypeOK, Commands
  <2> PICK d : d = [cmd[p] EXCEPT !.config = toml, !.pc = l]
    OBVIOUS
  <2>3. /\ d.pc = l /\ l \in {"creating", "overriding"} /\ d.config = toml /\ d.kind = "set"
        /\ d.value = cmd[p].value /\ d.key = cmd[p].key
    BY <1>s, <2>1, <2>2 DEF Commands
  <2>4. InStep(d, toml, params)
    BY <1>s, <2>1, <2>2, <2>3 DEF SoloCmd, InStep
  <2>5. ResetOrSame(d, toml, params, result)
    BY <1>s, <2>1, <2>3 DEF SoloCmd, ResetOrSame
  <2>6. SoloCmd(d, toml', params', result')
    BY <1>s, <2>1, <2>3, <2>4, <2>5 DEF SoloCmd, Planned, Synchronised
  <2> QED BY <2>2, <2>6, SoloOne
<1>2. ASSUME CreateConfig(p) PROVE SoloInv'
  <2>1. cmd[p].kind = "set" /\ cmd[p].pc = "creating" /\ toml = None
    BY <1>2, <1>s DEF CreateConfig, CmdInv, SoloCmd, InStep
  <2>2. PICK f : f = toml'
    OBVIOUS
  <2> PICK d : d = [cmd[p] EXCEPT !.config = f, !.pc = "overriding"]
    OBVIOUS
  <2>3. cmd' = [cmd EXCEPT ![p] = d]
    BY <1>2, <1>s, <2>2 DEF CreateConfig, IInv, TypeOK, Commands
  <2>4. /\ d.pc = "overriding" /\ d.config = f /\ d.kind = "set"
        /\ d.value = cmd[p].value /\ d.key = cmd[p].key
    BY <1>s, <2>1 DEF Commands
  <2>5. InStep(d, f, params)
    BY <1>s, <2>1, <2>4 DEF SoloCmd, InStep
  <2>6. result = None
    BY <1>s, <2>1 DEF SoloCmd, ResetOrSame
  <2>7. SoloCmd(d, toml', params', result')
    BY <1>s, <2>2, <2>4, <2>5, <2>6 DEF SoloCmd, Planned, ResetOrSame, Synchronised
  <2> QED BY <2>3, <2>7, SoloOne
<1>3. ASSUME WriteOverride(p) PROVE SoloInv'
  <2>1. /\ cmd[p].config = toml /\ cmd[p].kind \in {"set", "unset"} /\ cmd[p].key \in Params
        /\ toml \in Configs /\ toml # None /\ cmd[p].value \in Stored
    BY <1>3, <1>s DEF WriteOverride, SoloCmd, InStep, CmdInv, IInv, TypeOK, Commands
  <2> PICK o : o = [toml.overrides EXCEPT ![cmd[p].key] = cmd[p].value]
    OBVIOUS
  <2>2. PICK f : f = [toml EXCEPT !.overrides = o]
    OBVIOUS
  <2>3. PICK l : l = IF cmd[p].kind = "set" THEN "applying" ELSE "done"
    OBVIOUS
  <2> PICK d : d = [cmd[p] EXCEPT !.config = f, !.pc = l]
    OBVIOUS
  <2>4. toml' = f /\ cmd' = [cmd EXCEPT ![p] = d]
    BY <1>3, <1>s, <2>1, <2>2, <2>3 DEF WriteOverride, IInv, TypeOK, Commands
  <2>5. /\ d.pc = l /\ d.config = f /\ d.kind = cmd[p].kind
        /\ d.value = cmd[p].value /\ d.key = cmd[p].key
    BY <1>s DEF Commands
  <2>6. f.overrides[d.key] = d.value
    BY <2>1, <2>2, <2>5 DEF Configs
  <2>7. f # None
    <3>1. o \in [Params -> Stored]
      BY <2>1 DEF Configs
    <3>2. f \in Configs
      BY <2>1, <2>2, <3>1 DEF Configs
    <3> QED BY <3>2, NoFileAssumption
  <2>8. InStep(d, f, params)
    BY <1>s, <2>3, <2>5 DEF SoloCmd, InStep
  <2>9. ResetOrSame(d, f, params, result)
    <3>1. CASE cmd[p].kind = "set"
      <4>1. cmd[p].pc = "overriding"
        BY <1>3, <1>s, <3>1 DEF WriteOverride, CmdInv
      <4>2. result = None \/ params[d.key] = d.value
        BY <1>s, <3>1, <4>1, <2>5 DEF SoloCmd, ResetOrSame
      <4> QED BY <2>5, <2>6, <2>7, <3>1, <4>2 DEF ResetOrSame
    <3>2. CASE cmd[p].kind # "set"
      BY <2>1, <2>3, <2>5, <3>2 DEF ResetOrSame
    <3> QED BY <3>1, <3>2
  <2>10. SoloCmd(d, toml', params', result')
    BY <1>s, <2>1, <2>3, <2>4, <2>5, <2>8, <2>9 DEF SoloCmd, Planned, Synchronised
  <2> QED BY <2>4, <2>10, SoloOne
<1> QED BY <1>1, <1>2, <1>3

\* parameters.json: what is to be written, and writing it.
LEMMA SoloParameters ==
    ASSUME Solo, IInv, SoloInv, NEW p \in Procs,
           ReadForApply(p) \/ ReadForRestore(p) \/ WriteParameters(p)
    PROVE  SoloInv'
<1>s. /\ cmd[p] \in Commands /\ SoloCmd(cmd[p], toml, params, result) /\ CmdInv(cmd[p])
      /\ toml' = toml /\ result' = result
  BY SameCommand DEF IInv, SoloInv, ReadForApply, ReadForRestore, WriteParameters
<1>1. ASSUME ReadForApply(p) PROVE SoloInv'
  <2>1. cmd[p].pc = "applying" /\ cmd[p].config = toml /\ params' = params /\ cmd[p].kind # "unset"
    BY <1>1, <1>s DEF ReadForApply, SoloCmd, InStep
  <2>2. PICK new : new = IF toml = None THEN params ELSE Applied(toml, params)
    OBVIOUS
  <2>3. PICK l : l = IF new = params THEN "applied" ELSE "writing"
    OBVIOUS
  <2> PICK d : d = [cmd[p] EXCEPT !.config = toml, !.seen = new, !.pc = l]
    OBVIOUS
  <2>4. cmd' = [cmd EXCEPT ![p] = d]
    BY <1>1, <1>s, <2>2, <2>3 DEF ReadForApply, IInv, TypeOK, Commands
  <2>5. /\ d.pc = l /\ d.config = toml /\ d.seen = new /\ d.kind = cmd[p].kind
        /\ d.value = cmd[p].value /\ d.key = cmd[p].key
    BY <1>s DEF Commands
  <2>6. InStep(d, toml, params)
    BY <1>s, <2>3, <2>5 DEF SoloCmd, InStep
  <2>7. Planned(d, toml, params)
    BY <2>1, <2>2, <2>3, <2>5 DEF Planned
  <2>8. ResetOrSame(d, toml, params, result)
    BY <1>s, <2>1, <2>3, <2>5 DEF SoloCmd, ResetOrSame
  <2>9. Synchronised(d, params, result)
    BY <2>2, <2>3, <2>5, AppliedSettles DEF Synchronised
  <2> QED BY <1>s, <2>1, <2>4, <2>6, <2>7, <2>8, <2>9, SoloOne DEF SoloCmd
<1>2. ASSUME ReadForRestore(p) PROVE SoloInv'
  <2>1. /\ cmd[p].pc = "restoring" /\ cmd[p].config = toml /\ params' = params
        /\ cmd[p].kind = "unset" /\ cmd[p].key \in Params
    BY <1>2, <1>s DEF ReadForRestore, SoloCmd, InStep, CmdInv
  <2>2. PICK new : new = [params EXCEPT ![cmd[p].key] = toml.defaults[cmd[p].key]]
    OBVIOUS
  <2>3. PICK l : l = IF new = params THEN "removing" ELSE "writing"
    OBVIOUS
  <2> PICK d : d = [cmd[p] EXCEPT !.seen = new, !.pc = l]
    OBVIOUS
  <2>4. cmd' = [cmd EXCEPT ![p] = d]
    BY <1>2, <1>s, <2>1, <2>2, <2>3 DEF ReadForRestore, IInv, TypeOK, Commands
  <2>5. /\ d.pc = l /\ d.config = toml /\ d.seen = new /\ d.kind = "unset"
        /\ d.value = cmd[p].value /\ d.key = cmd[p].key
    BY <1>s, <2>1 DEF Commands
  <2>6. InStep(d, toml, params)
    BY <1>s, <2>1, <2>3, <2>5 DEF SoloCmd, InStep
  <2>7. new[d.key] = toml.defaults[d.key]
    BY <2>1, <2>2, <2>5 DEF IInv, TypeOK
  <2>8. Planned(d, toml, params)
    BY <2>2, <2>3, <2>5, <2>7 DEF Planned
  <2>9. ResetOrSame(d, toml, params, result)
    BY <1>s, <2>1, <2>5 DEF SoloCmd, ResetOrSame
  <2>10. Synchronised(d, params, result)
    BY <2>5 DEF Synchronised
  <2> QED BY <1>s, <2>1, <2>4, <2>6, <2>8, <2>9, <2>10, SoloOne DEF SoloCmd
<1>3. ASSUME WriteParameters(p) PROVE SoloInv'
  <2>1. /\ cmd[p].pc = "writing" /\ cmd[p].config = toml /\ params' = cmd[p].seen
        /\ cmd[p].kind = "unset" => cmd[p].key \in Params
    BY <1>3, <1>s DEF WriteParameters, SoloCmd, InStep, CmdInv
  <2>2. PICK l : l = IF cmd[p].kind = "unset" THEN "removing" ELSE "applied"
    OBVIOUS
  <2> PICK d : d = [cmd[p] EXCEPT !.pc = l]
    OBVIOUS
  <2>3. cmd' = [cmd EXCEPT ![p] = d]
    BY <1>3, <1>s, <2>2 DEF WriteParameters, Goto, IInv, TypeOK, Commands
  <2>4. /\ d.pc = l /\ d.config = toml /\ d.seen = cmd[p].seen /\ d.kind = cmd[p].kind
        /\ d.value = cmd[p].value /\ d.key = cmd[p].key
    BY <1>s, <2>1 DEF Commands
  <2> PICK ps : ps = cmd[p].seen
    OBVIOUS
  <2>5. InStep(d, toml, ps)
    BY <1>s, <2>1, <2>2, <2>4 DEF SoloCmd, InStep
  <2>6. l = "removing" => ps[d.key] = toml.defaults[d.key]
    <3>1. SUFFICES ASSUME cmd[p].kind = "unset"
                   PROVE  ps[cmd[p].key] = toml.defaults[cmd[p].key]
      BY <2>2, <2>4
    <3>2. ps = [params EXCEPT ![cmd[p].key] = toml.defaults[cmd[p].key]]
      BY <1>s, <2>1, <3>1 DEF SoloCmd, Planned
    <3> QED BY <2>1, <3>1, <3>2 DEF IInv, TypeOK
  <2>7. cmd[p].kind # "unset" => Changed(toml, ps) = {}
    BY <1>s, <2>1, AppliedSettles DEF SoloCmd, Planned
  <2>8. Planned(d, toml, ps)
    BY <2>2, <2>4, <2>6 DEF Planned
  <2>9. ResetOrSame(d, toml, ps, result)
    BY <2>2, <2>4 DEF ResetOrSame
  <2>10. Synchronised(d, ps, result)
    BY <2>2, <2>4, <2>7 DEF Synchronised
  <2>11. SoloCmd(d, toml', params', result')
    BY <1>s, <2>1, <2>5, <2>8, <2>9, <2>10 DEF SoloCmd
  <2> QED BY <2>3, <2>11, SoloOne
<1> QED BY <1>1, <1>2, <1>3

\* The flow, the end of a command and its failure.
LEMMA SoloFlow ==
    ASSUME Solo, IInv, SoloInv, NEW p \in Procs,
           ResetFlow(p) \/ SetReturns(p) \/ StartFlow(p) \/ FinishFlow(p) \/ Fail(p)
    PROVE  SoloInv'
<1>s. /\ cmd[p] \in Commands /\ SoloCmd(cmd[p], toml, params, result) /\ CmdInv(cmd[p])
      /\ toml' = toml /\ params' = params
  BY SameCommand DEF IInv, SoloInv, ResetFlow, SetReturns, StartFlow, FinishFlow, Fail
<1>1. ASSUME ResetFlow(p) PROVE SoloInv'
  <2>1. PICK l : l = CASE cmd[p].kind = "set" -> "ensuring"
                       [] cmd[p].kind = "unset" -> "restoring"
                       [] OTHER -> "applying"
    OBVIOUS
  <2>2. /\ l \in {"ensuring", "restoring", "applying"}
        /\ cmd[p].kind = "unset" => l # "applying"
    BY <2>1
  <2> PICK d : d = [cmd[p] EXCEPT !.pc = l]
    OBVIOUS
  <2>3. cmd' = [cmd EXCEPT ![p] = d] /\ result' = None /\ cmd[p].pc = "resetting"
    BY <1>1, <1>s, <2>1 DEF ResetFlow, Goto, IInv, TypeOK, Commands
  <2>4. /\ d.pc = l /\ d.config = cmd[p].config /\ d.kind = cmd[p].kind
        /\ d.value = cmd[p].value /\ d.key = cmd[p].key
    BY <1>s DEF Commands
  <2>5. InStep(d, toml, params)
    BY <1>s, <2>2, <2>3, <2>4 DEF SoloCmd, InStep
  <2>6. Planned(d, toml, params) /\ Synchronised(d, params, None)
    BY <2>2, <2>4 DEF Planned, Synchronised
  <2>7. ResetOrSame(d, toml, params, None)
    BY DEF ResetOrSame
  <2>8. SoloCmd(d, toml', params', result')
    BY <1>s, <2>3, <2>5, <2>6, <2>7 DEF SoloCmd
  <2> QED BY <2>3, <2>8, SoloOne
<1>2. ASSUME SetReturns(p) PROVE SoloInv'
  <2> PICK d : d = [cmd[p] EXCEPT !.pc = "done"]
    OBVIOUS
  <2>1. cmd' = [cmd EXCEPT ![p] = d] /\ d.pc = "done" /\ d.kind = "set" /\ d.value = cmd[p].value
    BY <1>2, <1>s DEF SetReturns, Goto, IInv, TypeOK, Commands
  <2>2. SoloCmd(d, toml', params', result')
    BY <1>2, <1>s, <2>1 DEF SetReturns, SoloCmd, InStep, Planned, ResetOrSame, Synchronised
  <2> QED BY <2>1, <2>2, SoloOne
<1>3. ASSUME StartFlow(p) PROVE SoloInv'
  <2>1. PICK l : l = IF result = params THEN "done" ELSE "flowing"
    OBVIOUS
  <2> PICK d : d = [cmd[p] EXCEPT !.seen = params, !.pc = l]
    OBVIOUS
  <2>2. cmd' = [cmd EXCEPT ![p] = d] /\ cmd[p].pc = "applied" /\ cmd[p].kind = "run"
    BY <1>3, <1>s, <2>1 DEF StartFlow, IInv, TypeOK, Commands
  <2>3. /\ d.pc = l /\ d.config = cmd[p].config /\ d.kind = "run" /\ d.seen = params
        /\ d.key = cmd[p].key
    BY <1>s, <2>2 DEF Commands
  <2>4. l = "done" => result' = params
    BY <1>3, <2>1 DEF StartFlow
  <2>5. InStep(d, toml, params)
    BY <1>s, <2>1, <2>2, <2>3 DEF SoloCmd, InStep
  <2>6. Planned(d, toml, params) /\ ResetOrSame(d, toml, params, result')
    BY <2>1, <2>3 DEF Planned, ResetOrSame
  <2>7. Synchronised(d, params, result')
    BY <1>s, <2>2, <2>3, <2>4 DEF SoloCmd, Synchronised
  <2> QED BY <1>s, <2>2, <2>5, <2>6, <2>7, SoloOne DEF SoloCmd
<1>4. ASSUME FinishFlow(p) PROVE SoloInv'
  <2> PICK d : d = [cmd[p] EXCEPT !.pc = "done"]
    OBVIOUS
  <2>1. cmd' = [cmd EXCEPT ![p] = d] /\ result' = cmd[p].seen /\ cmd[p].pc = "flowing"
    BY <1>4, <1>s DEF FinishFlow, Goto, IInv, TypeOK, Commands
  <2>2. /\ d.pc = "done" /\ d.kind = cmd[p].kind /\ d.config = cmd[p].config
        /\ d.key = cmd[p].key /\ d.value = cmd[p].value
    BY <1>s DEF Commands
  <2>3. InStep(d, toml, params)
    BY <1>s, <2>1, <2>2 DEF SoloCmd, InStep
  <2>4. Planned(d, toml, params) /\ ResetOrSame(d, toml, params, result')
    BY <2>2 DEF Planned, ResetOrSame
  <2>5. Synchronised(d, params, result')
    BY <1>s, <2>1, <2>2 DEF SoloCmd, Synchronised
  <2> QED BY <1>s, <2>1, <2>3, <2>4, <2>5, SoloOne DEF SoloCmd
<1>5. ASSUME Fail(p) PROVE SoloInv'
  <2>1. Idle.pc = "idle" /\ Idle.kind = "none" /\ Idle.key = None
    BY DEF Idle
  <2>2. SoloCmd(Idle, toml', params', result')
    BY <2>1 DEF SoloCmd, InStep, Planned, ResetOrSame, Synchronised
  <2> QED BY <1>5, <2>2, SoloOne DEF Fail
<1> QED BY <1>1, <1>2, <1>3, <1>4, <1>5

\* The user edits ecc-fe.toml between two commands only.
LEMMA SoloEdit ==
    ASSUME SoloInv, NEW k \in Params, NEW v \in Stored, EditOverride(k, v)
    PROVE  SoloInv'
<1> SUFFICES ASSUME NEW p \in Procs PROVE SoloCmd(cmd[p], toml, params, result)'
  BY DEF SoloInv
<1>1. SoloCmd(cmd[p], toml, params, result) /\ cmd[p].pc \in {"idle", "done"}
        /\ cmd' = cmd /\ params' = params /\ result' = result
  BY DEF SoloInv, EditOverride, Ready
<1> QED BY <1>1 DEF SoloCmd, InStep, Planned, ResetOrSame, Synchronised

LEMMA SoloStep == Solo /\ IInv /\ SoloInv /\ [Next]_vars => SoloInv'
<1> SUFFICES ASSUME Solo, IInv, SoloInv, [Next]_vars PROVE SoloInv'
  OBVIOUS
<1>1. ASSUME NEW p \in Procs, Request(p) \/ Step(p) \/ Fail(p) PROVE SoloInv'
  BY <1>1, SoloRequest, SoloLoad, SoloConfig, SoloParameters, SoloFlow DEF Step
<1>2. ASSUME NEW k \in Params, NEW v \in Stored, EditOverride(k, v) PROVE SoloInv'
  BY <1>2, SoloEdit
<1>3. CASE UNCHANGED vars
  BY <1>3 DEF vars, SoloInv
<1> QED BY <1>1, <1>2, <1>3 DEF Next

LEMMA SoloHolds ==
    ASSUME Solo
    PROVE  Spec => [](IInv /\ SoloInv)
<1>1. IInv /\ SoloInv /\ [Next]_vars => IInv' /\ SoloInv'
  BY NextInv, SoloStep
<1> QED BY <1>1, InitInv, SoloInit, PTL DEF Spec

\* A run that succeeds leaves results computed with the parameters that ecc-fe.toml
\* asked for when the run synchronised the two files, whatever the commands
\* before it did or failed to do and whatever the user edited in between
\* (pending_project_overrides, apply_project_overrides, run_flow).
THEOREM RunsUseTheConfig ==
    ASSUME Solo
    PROVE  Spec => []RunReflectsConfig
<1>1. SoloInv => RunReflectsConfig
  BY DEF SoloInv, SoloCmd, Synchronised, RunReflectsConfig
<1> QED BY <1>1, SoloHolds, PTL

\* A command that writes neither file hides nothing.
LEMMA RecordedUnchanged ==
    ASSUME NEW k \in Params, Recorded(k), toml' = toml, params' = params
    PROVE  Recorded(k)'
BY DEF Recorded

LEMMA RecordedCreate ==
    ASSUME IInv, SoloInv, NEW p \in Procs, CreateConfig(p), NEW k \in Params
    PROVE  Recorded(k)'
<1>1. toml = None /\ params = original /\ cmd[p].seen = original
  BY DEF CreateConfig, IInv, CmdBaseline, SoloInv, SoloCmd, InStep
<1>2. toml' = NewConfig(params) /\ params' = params /\ params \in [Params -> Stored]
  BY <1>1 DEF CreateConfig, IInv, TypeOK
<1>3. toml'.defaults[k] = IF params[k] = None THEN SchemaDefault ELSE params[k]
  BY <1>2, EffectiveType DEF Effective
<1> QED BY <1>2, <1>3 DEF Recorded

\* A set records its override first; an unset has restored the default by then.
LEMMA RecordedOverride ==
    ASSUME IInv, SoloInv, NEW p \in Procs, WriteOverride(p), NEW k \in Params, Recorded(k)
    PROVE  Recorded(k)'
<1>1. /\ cmd[p] \in Commands /\ CmdInv(cmd[p]) /\ SoloCmd(cmd[p], toml, params, result)
  BY SameCommand DEF IInv, SoloInv
<1>2. /\ cmd[p].config = toml /\ cmd[p].kind \in {"set", "unset"} /\ cmd[p].key \in Params
      /\ toml \in Configs /\ params' = params
  BY <1>1 DEF WriteOverride, SoloCmd, InStep, CmdInv, IInv, TypeOK
<1> PICK o : o = [toml.overrides EXCEPT ![cmd[p].key] = cmd[p].value]
  OBVIOUS
<1>3. toml' = [toml EXCEPT !.overrides = o]
  BY <1>2 DEF WriteOverride
<1>4. toml'.defaults = toml.defaults /\ toml'.overrides = o /\ toml # None
  BY <1>2, <1>3 DEF Configs, WriteOverride
<1>5. o[k] = IF k = cmd[p].key THEN cmd[p].value ELSE toml.overrides[k]
  BY <1>2 DEF Configs
<1>6. CASE k # cmd[p].key
  BY <1>2, <1>4, <1>5, <1>6 DEF Recorded
<1>7. CASE k = cmd[p].key /\ cmd[p].kind = "set"
  BY <1>1, <1>4, <1>5, <1>7 DEF Recorded, SoloCmd, InStep
<1>8. CASE k = cmd[p].key /\ cmd[p].kind = "unset"
  <2>1. cmd[p].pc = "removing"
    BY <1>1, <1>8 DEF WriteOverride, SoloCmd, InStep
  <2>2. params[k] = toml.defaults[k]
    BY <1>1, <1>8, <2>1 DEF SoloCmd, Planned
  <2> QED BY <1>2, <1>4, <2>2 DEF Recorded
<1> QED BY <1>2, <1>6, <1>7, <1>8

\* What is written to parameters.json is recorded, or the captured default.
LEMMA RecordedWrite ==
    ASSUME IInv, SoloInv, NEW p \in Procs, WriteParameters(p), NEW k \in Params, Recorded(k)
    PROVE  Recorded(k)'
<1>1. CmdInv(cmd[p]) /\ SoloCmd(cmd[p], toml, params, result)
        /\ toml' = toml /\ params' = cmd[p].seen /\ params \in [Params -> Stored]
  BY DEF IInv, SoloInv, WriteParameters, TypeOK
<1>2. CASE cmd[p].kind = "unset"
  <2>1. params' = [params EXCEPT ![cmd[p].key] = toml.defaults[cmd[p].key]]
    BY <1>1, <1>2 DEF WriteParameters, SoloCmd, Planned
  <2>2. params'[k] = params[k] \/ params'[k] = toml.defaults[k]
    BY <1>1, <2>1
  <2> QED BY <1>1, <2>2 DEF Recorded
<1>3. CASE cmd[p].kind # "unset"
  <2>1. params' = Applied(toml, params)
    BY <1>1, <1>3 DEF WriteParameters, SoloCmd, Planned
  <2>2. params'[k] = params[k] \/ params'[k] = Desired(toml, k)
    BY <2>1 DEF Applied
  <2>3. toml.overrides[k] # None \/ Desired(toml, k) = toml.defaults[k]
    BY DEF Desired
  <2> QED BY <1>1, <2>2, <2>3 DEF Recorded
<1> QED BY <1>2, <1>3

LEMMA RecordedStep ==
    ASSUME Solo, IInv, SoloInv, [Next]_vars, cmd' # cmd, NEW k \in Params, Recorded(k)
    PROVE  Recorded(k)'
<1>1. PICK p \in Procs : Request(p) \/ Step(p) \/ Fail(p)
  BY DEF Next, vars, EditOverride
<1>2. \/ CreateConfig(p) \/ WriteOverride(p) \/ WriteParameters(p)
      \/ toml' = toml /\ params' = params
  BY <1>1 DEF Request, RequestSet, RequestUnset, RequestRun, Step, LoadForSet, LoadForUnset,
     FindPending, ResetFlow, LookForConfig, ReadForApply, ReadForRestore, SetReturns,
     StartFlow, FinishFlow, Fail
<1> QED BY <1>2, RecordedUnchanged, RecordedCreate, RecordedOverride, RecordedWrite

\* No command of the only process, wherever it fails, leaves a value in
\* parameters.json that ecc-fe.toml neither records nor has as its default
\* (set_parameter, unset_parameter: the order of the two writes).
THEOREM OverridesStayVisible ==
    ASSUME Solo
    PROVE  Spec => OverridesStayRecorded
<1>1. IInv /\ SoloInv /\ [Next]_vars =>
        [cmd' # cmd => \A k \in Params : Recorded(k) => Recorded(k)']_vars
  BY RecordedStep
<1> QED BY <1>1, SoloHolds, PTL DEF Spec, OverridesStayRecorded

\* Writing the parameter that the command names: the flow has been reset, or the
\* value is the one that is there.
LEMMA NamedStep ==
    ASSUME Solo, IInv, SoloInv, [Next]_vars, NEW p \in Procs, cmd[p].key # None,
           params'[cmd[p].key] # params[cmd[p].key]
    PROVE  result = None
<1>1. PICK q \in Procs : WriteParameters(q)
  BY DEF Next, vars, Request, RequestSet, RequestUnset, RequestRun, Step, LoadForSet,
     LoadForUnset, FindPending, ResetFlow, LookForConfig, CreateConfig, WriteOverride,
     ReadForApply, ReadForRestore, SetReturns, StartFlow, FinishFlow, Fail, EditOverride
<1>2. WriteParameters(p)
  BY <1>1 DEF Solo
<1>3. /\ SoloCmd(cmd[p], toml, params, result) /\ CmdInv(cmd[p]) /\ cmd[p].pc = "writing"
      /\ params' = cmd[p].seen /\ params \in [Params -> Stored]
  BY <1>2 DEF IInv, SoloInv, WriteParameters, TypeOK
<1>4. cmd[p].kind \in {"set", "unset"} /\ cmd[p].key \in Params
  BY <1>3 DEF SoloCmd, InStep, CmdInv
<1>5. CASE cmd[p].kind = "set"
  <2>1. params' = Applied(toml, params)
    BY <1>3, <1>5 DEF SoloCmd, Planned
  <2>2. params'[cmd[p].key] = Desired(toml, cmd[p].key)
    BY <1>4, <2>1 DEF Applied
  <2>3. SUFFICES ASSUME params[cmd[p].key] = cmd[p].value,
                        toml.overrides[cmd[p].key] = cmd[p].value
                 PROVE  FALSE
    BY <1>3, <1>5 DEF SoloCmd, ResetOrSame
  <2> QED BY <1>3, <1>5, <2>2, <2>3 DEF Desired, SoloCmd, InStep
<1>6. CASE cmd[p].kind = "unset"
  <2>1. params'[cmd[p].key] = toml.defaults[cmd[p].key]
    BY <1>3, <1>4, <1>6 DEF SoloCmd, Planned
  <2> QED BY <1>3, <1>6, <2>1 DEF SoloCmd, ResetOrSame
<1> QED BY <1>4, <1>5, <1>6

\* The parameter that a set or an unset of the only process names changes in
\* parameters.json only when flow.json holds no result of its old value
\* (set_parameter, unset_parameter: _reset_flow before the file is written).
THEOREM NamedParameterResets ==
    ASSUME Solo
    PROVE  Spec => NamedParameterResetsFlow
<1>1. IInv /\ SoloInv /\ [Next]_vars =>
        [\A p \in Procs : cmd[p].key # None /\ params'[cmd[p].key] # params[cmd[p].key]
            => result = None]_vars
  BY NamedStep
<1> QED BY <1>1, SoloHolds, PTL DEF Spec, NamedParameterResetsFlow
=============================================================================
