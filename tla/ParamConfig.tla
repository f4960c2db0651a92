----------------------------- MODULE ParamConfig -----------------------------
(***************************************************************************)
(* The parameters of a frontend workspace: ecc-fe.toml holds the captured  *)
(* baseline ([defaults]) and the explicit overrides ([params]);            *)
(* home/parameters.json is what the flow reads.  `ecc-fe param set`,       *)
(* `param unset` and `run` (cli/handlers/param.py, cli/project/config.py,  *)
(* cli/commands.py) keep the two in step and reset the flow when a value   *)
(* changes.  Each read and each atomic file replacement is one step; a     *)
(* command may fail or be killed between any two of them.                  *)
(*                                                                         *)
(* The flow is abstracted to the parameters its successful results were    *)
(* computed with: the provenance of the sim step covers every parameter,   *)
(* so that run_flow reuses them only when they are the current ones (the   *)
(* module FlowEngine has the detail).                                      *)
(***************************************************************************)
CONSTANTS
    Procs,          \* processes in which the user runs commands
    Params,         \* parameter names
    Values,         \* their (normalised) values
    SchemaDefault,  \* the value of a parameter nobody has given a value
    Edits,          \* TRUE: the user edits ecc-fe.toml between two commands
    None            \* no value, no file, no result

ASSUME NoneAssumption == None \notin Values \cup Params
ASSUME DefaultAssumption == SchemaDefault \in Values
ASSUME EditsAssumption == Edits \in BOOLEAN

Stored == Values \cup {None}
NoValues == [k \in Params |-> None]
Configs == [defaults : [Params -> Values], overrides : [Params -> Stored]]

ASSUME NoFileAssumption == None \notin Configs

VARIABLES
    toml,       \* ecc-fe.toml, or None
    params,     \* home/parameters.json; a key may be missing
    result,     \* the parameters of the results in flow.json, or None
    cmd,        \* what each process is doing
    original    \* parameters.json before the first command

vars == <<toml, params, result, cmd, original>>

\* effective_default.
Effective(ps) ==
    [k \in Params |-> IF ps[k] = None THEN SchemaDefault ELSE ps[k]]

NewConfig(ps) == [defaults |-> Effective(ps), overrides |-> NoValues]

Idle == [pc |-> "idle", kind |-> "none", key |-> None, value |-> None,
         config |-> None, seen |-> NoValues]

\* A workspace with or without a configuration file, its flow run or not.
Init ==
    /\ params \in [Params -> Stored]
    /\ original = params
    /\ toml \in {None, NewConfig(params)}
    /\ result \in {None, params}
    /\ cmd = [p \in Procs |-> Idle]

-----------------------------------------------------------------------------
(* cli/project/config.py. *)

Desired(config, k) ==
    IF config.overrides[k] # None THEN config.overrides[k] ELSE config.defaults[k]

\* _project_override_state: a key without an override counts only when
\* parameters.json has it.
Changed(config, ps) ==
    {k \in Params : /\ config.overrides[k] # None \/ ps[k] # None
                    /\ ps[k] # Desired(config, k)}

\* apply_project_overrides.
Applied(config, ps) ==
    [k \in Params |-> IF k \in Changed(config, ps) THEN Desired(config, k) ELSE ps[k]]

Goto(p, label) == cmd' = [cmd EXCEPT ![p].pc = label]

-----------------------------------------------------------------------------
(* Commands: what each of them reads first. *)

Ready(p) == cmd[p].pc \in {"idle", "done"}

\* _load reads parameters.json, then ecc-fe.toml.
RequestSet(p, k, v) ==
    /\ Ready(p)
    /\ cmd' = [cmd EXCEPT ![p] = [Idle EXCEPT !.pc = "loading", !.kind = "set",
                                    !.key = k, !.value = v, !.seen = params]]
    /\ UNCHANGED <<toml, params, result, original>>

RequestUnset(p, k) ==
    /\ Ready(p)
    /\ cmd' = [cmd EXCEPT ![p] = [Idle EXCEPT !.pc = "loading", !.kind = "unset",
                                    !.key = k, !.seen = params]]
    /\ UNCHANGED <<toml, params, result, original>>

\* pending_project_overrides reads ecc-fe.toml, then parameters.json.
RequestRun(p) ==
    /\ Ready(p)
    /\ cmd' = [cmd EXCEPT ![p] = [Idle EXCEPT !.pc = "pending", !.kind = "run",
                                    !.config = toml]]
    /\ UNCHANGED <<toml, params, result, original>>

\* A set resets the flow if the value in either file is another one.
LoadForSet(p) ==
    LET c == cmd[p]
        previous == IF toml = None THEN None ELSE toml.overrides[c.key]
    IN  /\ c.pc = "loading" /\ c.kind = "set"
        /\ cmd' = [cmd EXCEPT
              ![p].config = toml,
              ![p].pc = IF c.seen[c.key] # c.value \/ previous # c.value
                        THEN "resetting" ELSE "ensuring"]
        /\ UNCHANGED <<toml, params, result, original>>

\* Mutant of LoadForUnset: the flow keeps its results.
UnsetWithoutReset(p) ==
    LET c == cmd[p]
    IN  /\ c.pc = "loading" /\ c.kind = "unset"
        /\ cmd' = [cmd EXCEPT
              ![p].config = toml,
              ![p].pc = IF toml # None /\ toml.overrides[c.key] # None
                        THEN "restoring" ELSE "done"]
        /\ UNCHANGED <<toml, params, result, original>>

LoadForUnset(p) ==
    LET c == cmd[p]
        overridden == toml # None /\ toml.overrides[c.key] # None
    IN  /\ c.pc = "loading" /\ c.kind = "unset"
        /\ cmd' = [cmd EXCEPT
              ![p].config = toml,
              ![p].pc =
                  IF ~overridden THEN "done"
                  ELSE IF \/ toml.overrides[c.key] # toml.defaults[c.key]
                          \/ c.seen[c.key] # toml.defaults[c.key]
                       THEN "resetting" ELSE "restoring"]
        /\ UNCHANGED <<toml, params, result, original>>

FindPending(p) ==
    LET c == cmd[p]
    IN  /\ c.pc = "pending"
        /\ Goto(p, IF c.config # None /\ Changed(c.config, params) # {}
                   THEN "resetting" ELSE "applying")
        /\ UNCHANGED <<toml, params, result, original>>

\* The service's reset-flow: every step Unstart, its QoR removed.
ResetFlow(p) ==
    /\ cmd[p].pc = "resetting"
    /\ result' = None
    /\ Goto(p, CASE cmd[p].kind = "set" -> "ensuring"
                 [] cmd[p].kind = "unset" -> "restoring"
                 [] OTHER -> "applying")
    /\ UNCHANGED <<toml, params, original>>

-----------------------------------------------------------------------------
(* ecc-fe.toml. *)

\* ensure_project_config looks once more for a file.
LookForConfig(p) ==
    /\ cmd[p].pc = "ensuring"
    /\ cmd' = [cmd EXCEPT
          ![p].config = IF @ # None THEN @ ELSE toml,
          ![p].pc = IF cmd[p].config = None /\ toml = None
                    THEN "creating" ELSE "overriding"]
    /\ UNCHANGED <<toml, params, result, original>>

\* Mutant of CreateConfig: keys that parameters.json lacks get no default.
CreateFromRaw(p) ==
    /\ cmd[p].pc = "creating"
    /\ toml' = [defaults |-> cmd[p].seen, overrides |-> NoValues]
    /\ cmd' = [cmd EXCEPT ![p].config = toml', ![p].pc = "overriding"]
    /\ UNCHANGED <<params, result, original>>

\* Mutant of CreateConfig: the baseline is taken from parameters.json as it is by
\* the time the file is created.
CreateFromCurrent(p) ==
    /\ cmd[p].pc = "creating"
    /\ toml' = NewConfig(params)
    /\ cmd' = [cmd EXCEPT ![p].config = toml', ![p].pc = "overriding"]
    /\ UNCHANGED <<params, result, original>>

\* create_project_config captures the baseline from the parameters of _load.
CreateConfig(p) ==
    /\ cmd[p].pc = "creating"
    /\ toml' = NewConfig(cmd[p].seen)
    /\ cmd' = [cmd EXCEPT ![p].config = toml', ![p].pc = "overriding"]
    /\ UNCHANGED <<params, result, original>>

\* write_parameter_override: the [params] table is rewritten from the overrides
\* this command has read, the other tables are those of the file.  An unset
\* ends with it.
WriteOverride(p) ==
    LET c == cmd[p]
    IN  /\ c.pc \in {"overriding", "removing"} /\ toml # None
        /\ toml' = [toml EXCEPT !.overrides = [c.config.overrides EXCEPT ![c.key] = c.value]]
        /\ cmd' = [cmd EXCEPT ![p].config = toml',
                              ![p].pc = IF c.kind = "set" THEN "applying" ELSE "done"]
        /\ UNCHANGED <<params, result, original>>

-----------------------------------------------------------------------------
(* parameters.json. *)

\* apply_project_overrides and restore_parameter_default read both files or
\* one, and replace parameters.json as a whole.
ReadForApply(p) ==
    LET new == IF toml = None THEN params ELSE Applied(toml, params)
    IN  /\ cmd[p].pc = "applying"
        /\ cmd' = [cmd EXCEPT ![p].config = toml, ![p].seen = new,
                              ![p].pc = IF new = params THEN "applied" ELSE "writing"]
        /\ UNCHANGED <<toml, params, result, original>>

\* Mutant of ReadForRestore: ecc-fe.toml is written first.
RemoveFirst(p) ==
    LET c == cmd[p]
    IN  /\ c.pc = "restoring" /\ toml # None
        /\ toml' = [toml EXCEPT !.overrides = [c.config.overrides EXCEPT ![c.key] = None]]
        /\ cmd' = [cmd EXCEPT
              ![p].seen = [params EXCEPT ![c.key] = c.config.defaults[c.key]],
              ![p].pc = "writing"]
        /\ UNCHANGED <<params, result, original>>

ReadForRestore(p) ==
    LET c == cmd[p]
        new == [params EXCEPT ![c.key] = c.config.defaults[c.key]]
    IN  /\ c.pc = "restoring"
        /\ cmd' = [cmd EXCEPT ![p].seen = new,
                              ![p].pc = IF new = params THEN "removing" ELSE "writing"]
        /\ UNCHANGED <<toml, params, result, original>>

WriteParameters(p) ==
    /\ cmd[p].pc = "writing"
    /\ params' = cmd[p].seen
    /\ Goto(p, IF cmd[p].kind = "unset" THEN "removing" ELSE "applied")
    /\ UNCHANGED <<toml, result, original>>

-----------------------------------------------------------------------------
(* The flow, and the end of a command. *)

SetReturns(p) ==
    /\ cmd[p].pc = "applied" /\ cmd[p].kind = "set"
    /\ Goto(p, "done")
    /\ UNCHANGED <<toml, params, result, original>>

\* Mutant of StartFlow: a Success is reused whatever its provenance.
ReuseAnySuccess(p) ==
    /\ cmd[p].pc = "applied" /\ cmd[p].kind = "run"
    /\ cmd' = [cmd EXCEPT ![p].seen = params,
                          ![p].pc = IF result # None THEN "done" ELSE "flowing"]
    /\ UNCHANGED <<toml, params, result, original>>

StartFlow(p) ==
    /\ cmd[p].pc = "applied" /\ cmd[p].kind = "run"
    /\ cmd' = [cmd EXCEPT ![p].seen = params,
                          ![p].pc = IF result = params THEN "done" ELSE "flowing"]
    /\ result' = IF result = params THEN result ELSE None
    /\ UNCHANGED <<toml, params, original>>

FinishFlow(p) ==
    /\ cmd[p].pc = "flowing"
    /\ result' = cmd[p].seen
    /\ Goto(p, "done")
    /\ UNCHANGED <<toml, params, original>>

\* A read or a write raises, a tool fails, or the process dies: nothing is undone.
Fail(p) ==
    /\ ~Ready(p)
    /\ cmd' = [cmd EXCEPT ![p] = Idle]
    /\ UNCHANGED <<toml, params, result, original>>

\* The user changes an entry of [params] in an editor.
EditOverride(k, v) ==
    /\ Edits /\ \A p \in Procs : Ready(p)
    /\ toml # None
    /\ toml' = [toml EXCEPT !.overrides[k] = v]
    /\ UNCHANGED <<params, result, cmd, original>>

Request(p) ==
    \/ \E k \in Params, v \in Values : RequestSet(p, k, v)
    \/ \E k \in Params : RequestUnset(p, k)
    \/ RequestRun(p)

Step(p) ==
    \/ LoadForSet(p) \/ LoadForUnset(p) \/ FindPending(p) \/ ResetFlow(p)
    \/ LookForConfig(p) \/ CreateConfig(p) \/ WriteOverride(p)
    \/ ReadForApply(p) \/ ReadForRestore(p) \/ WriteParameters(p)
    \/ SetReturns(p) \/ StartFlow(p) \/ FinishFlow(p)

Next ==
    \/ \E p \in Procs : Request(p) \/ Step(p) \/ Fail(p)
    \/ \E k \in Params, v \in Stored : EditOverride(k, v)

Spec == Init /\ [][Next]_vars

-----------------------------------------------------------------------------
(* Properties. *)

\* Type correctness of the two files, of the flow's results and of the commands.
TypeOK ==
    /\ toml \in Configs \cup {None}
    /\ params \in [Params -> Stored] /\ original \in [Params -> Stored]
    /\ result \in [Params -> Stored] \cup {None}
    /\ cmd \in [Procs ->
          [pc : {"idle", "loading", "pending", "resetting", "ensuring", "creating",
                 "overriding", "removing", "applying", "restoring", "writing",
                 "applied", "flowing", "done"},
           kind : {"set", "unset", "run", "none"},
           key : Params \cup {None}, value : Stored,
           config : Configs \cup {None}, seen : [Params -> Stored]]]

\* The value of k is the captured baseline, or ecc-fe.toml records it.
Recorded(k) ==
    \/ toml = None
    \/ toml.overrides[k] # None
    \/ params[k] \in {None, toml.defaults[k]}

\* No command turns a recorded override into a hidden one, wherever it fails: a
\* set writes the override before parameters.json, an unset the other way round.
OverridesStayRecorded ==
    [][cmd' # cmd => \A k \in Params : Recorded(k) => Recorded(k)']_vars

\* The parameter that a set or an unset names changes only when flow.json holds
\* no result computed with its old value.
NamedParameterResetsFlow ==
    [][\A p \in Procs : cmd[p].key # None /\ params'[cmd[p].key] # params[cmd[p].key]
          => result = None]_vars

\* A run that succeeds leaves results computed with the parameters which
\* ecc-fe.toml asked for when the run synchronised the two files.
RunReflectsConfig ==
    \A p \in Procs :
        cmd[p].pc = "done" /\ cmd[p].kind = "run" =>
            /\ result = params
            /\ cmd[p].config # None => Changed(cmd[p].config, result) = {}

\* [defaults] is and stays what parameters.json held before the first override,
\* also when two first commands race to create the file.
BaselineIsKept ==
    toml # None => toml.defaults = Effective(original)

=============================================================================
