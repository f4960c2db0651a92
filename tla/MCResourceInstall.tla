-------------------------- MODULE MCResourceInstall --------------------------
(* Small registries for ResourceInstall: a chain, a cycle and a single tool. *)
EXTENDS ResourceInstall, TLC

CONSTANTS fe, slang, yosys

\* fe needs slang
Chain == fe :> <<slang>> @@ slang :> <<>>

\* no requirements
Single == fe :> <<>>

\* yosys cannot be installed: it needs fe, and then itself
Cycle == fe :> <<>> @@ yosys :> <<fe, yosys>>

\* Whole directories of this or of an earlier registry, damaged ones, none.
AnythingFound == Contents \cup {None}
NothingFound == {None}

\* Whole directories of an earlier registry, one for every entry.
EarlierFound == {[sha |-> "earlier", whole |-> TRUE]}

-----------------------------------------------------------------------------
(* One recorded tool, one interrupt.                                       *)

\* Every tool is installed and recorded in some version, whole, as an earlier
\* registry gave it.
RecordedInit ==
    /\ Init
    /\ \A t \in Tools : manifest.installed[t] # None /\ manifest.installed[t].sha = "earlier"

\* No second signal comes while the finally clause of _install_one runs.
OneInterruptNext ==
    \E p \in Installers :
        Command(p) \/ Continue(p) \/ (pc[p] # "unwinding" /\ Interrupt(p))

RecordedSpec == RecordedInit /\ [][OneInterruptNext]_vars

=============================================================================
