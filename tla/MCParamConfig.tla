---------------------------- MODULE MCParamConfig ----------------------------
(***************************************************************************)
(* Two small workspaces for ParamConfig.  In one a user runs one command   *)
(* after another; what a run and an override promise is stated for that.   *)
(* In the other, commands of several processes overlap, the first ones,    *)
(* which create ecc-fe.toml, among them.  The two have nothing in common,  *)
(* so a behaviour is one of either workspace.                              *)
(***************************************************************************)
EXTENDS ParamConfig

CONSTANTS
    Racers,         \* processes whose commands overlap
    RacedParams     \* the parameters of their workspace

VARIABLES
    racing,         \* which of the two workspaces the behaviour is of
    rtoml, rparams, rresult, rcmd, roriginal

rvars == <<rtoml, rparams, rresult, rcmd, roriginal>>

R == INSTANCE ParamConfig WITH
        Procs <- Racers, Params <- RacedParams, toml <- rtoml, params <- rparams,
        result <- rresult, cmd <- rcmd, original <- roriginal

\* The other workspace is new and nobody works in it.
MCInit ==
    /\ racing \in BOOLEAN
    /\ Init /\ R!Init
    /\ racing => toml = None /\ result = None /\ params = NoValues
    /\ ~racing => rtoml = None /\ rresult = None /\ rparams = R!NoValues

MCNext ==
    \/ ~racing /\ Next /\ UNCHANGED <<racing, rvars>>
    \/ racing /\ R!Next /\ UNCHANGED <<racing, vars>>

MCSpec == MCInit /\ [][MCNext]_<<racing, vars, rvars>>

\* [defaults] is and stays what parameters.json held before the first override
\* when two first commands, of different processes, both find no ecc-fe.toml and
\* both create it, the second after the first has changed parameters.json
\* (ensure_project_config, create_project_config, write_parameter_override).
RacingBaselineIsKept == R!BaselineIsKept

=============================================================================
