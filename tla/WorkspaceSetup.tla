--------------------------- MODULE WorkspaceSetup ---------------------------
(***************************************************************************)
(* How a workspace comes to its inputs, its simulation defaults and its    *)
(* test suite: the create request of application/workspace_service.py, the *)
(* origin directory of data/workspace.py, the repair of every load and the *)
(* choice of programs before a simulation.                                 *)
(***************************************************************************)
EXTENDS Integers, Sequences, FiniteSets, SequencesExt

LOCAL Sim == INSTANCE SimulationRules

Yes(b) == IF b THEN "yes" ELSE "no"

-----------------------------------------------------------------------------
(* The request.  r.rtlList, r.origin and r.cpuRtl are sequences of files,  *)
(* r.filelist and r.cpuList empty or the files that the list names; disk   *)
(* maps a file to "unit", "header", "other" or "absent".                   *)

There(disk, files) == \A i \in DOMAIN files : disk[files[i]] # "absent"
Rtl(disk, files) == \A i \in DOMAIN files : disk[files[i]] \in {"unit", "header"}
ListOf(list) == IF list = <<>> THEN <<>> ELSE list[1]

\* _validated_cpu_rtl_files.
CpuFilesAccepted(r, disk) ==
    r.cpuRtl # <<>> => r.cpuList = <<>> /\ Rtl(disk, r.cpuRtl)

\* _validate_generic_create_request: a top, one kind of sources, nothing of a CPU.
GenericAccepted(r, disk) ==
    LET files == r.rtlList \o r.origin \o ListOf(r.filelist) IN
    /\ r.top = "identifier"
    /\ Cardinality({s \in {<<"list", r.filelist>>, <<"origin", r.origin>>, <<"rtl", r.rtlList>>} :
                        s[2] # <<>>}) = 1
    /\ There(disk, ListOf(r.filelist))
    /\ \A i \in DOMAIN files : disk[files[i]] # "other"
    /\ \E i \in DOMAIN files : disk[files[i]] # "header"
    /\ r.cpuRtl = <<>> /\ r.cpuList = <<>> /\ ~r.cpuFields

\* _validate_create_request_paths.
PathsAccepted(r, disk) == There(disk, r.origin) /\ There(disk, r.rtlList)

\* _create_request, without the catalog (CatalogRules).
CreateAccepted(r, disk) ==
    /\ IF r.kind = "generic_rtl" THEN GenericAccepted(r, disk)
       ELSE CpuFilesAccepted(r, disk) /\ (r.cpuRtl # <<>> \/ r.cpuList # <<>>)
                /\ There(disk, ListOf(r.cpuList))
    /\ PathsAccepted(r, disk)

\* _prepare_origin: origin has the lists and the sources in the directory, in the
\* order of their names; written over what an earlier workspace has left there.
\* A CPU has the list of its SoC from the catalog.
Created(r, origin, soc) ==
    LET selection == IF r.kind = "generic_rtl" THEN r.rtlList ELSE r.cpuRtl
        generated == IF selection = <<>> THEN <<>> ELSE <<Sim!Once(selection)>>
    IN [origin |-> [lists |-> IF generated = <<>> THEN origin.lists ELSE generated \o origin.lists,
                    rtl |-> CASE r.origin # <<>> -> r.origin \o origin.rtl
                              [] r.origin = <<>> /\ r.filelist = <<>> /\ r.rtlList = <<>> ->
                                    <<"placeholder">> \o origin.rtl
                              [] OTHER -> origin.rtl],
        input |-> CASE r.kind # "generic_rtl" -> <<>>
                    [] OTHER -> IF r.rtlList # <<>> THEN generated ELSE r.filelist,
        cpu |-> CASE r.kind = "generic_rtl" -> <<>>
                  [] OTHER -> IF r.cpuRtl # <<>> THEN generated ELSE r.cpuList,
        soc |-> IF r.kind = "generic_rtl" THEN <<>> ELSE <<soc>>]

\* load_workspace: what has no parameter is looked for in origin.
Loaded(w) ==
    [w EXCEPT !.input = CASE w.input # <<>> -> w.input
                          [] w.input = <<>> /\ w.origin.lists # <<>> -> <<Head(w.origin.lists)>>
                          [] OTHER -> <<>>]

\* PrepareStep._collect_inputs: which of the inputs counts.
PrepareInputs(w) ==
    Sim!Once(CASE w.cpu # <<>> \/ w.soc # <<>> -> ListOf(w.cpu) \o ListOf(w.soc)
           [] w.cpu = <<>> /\ w.soc = <<>> /\ w.input # <<>> -> w.input[1]
           [] OTHER -> SubSeq(w.origin.rtl, 1, 1))

-----------------------------------------------------------------------------
(* Simulation defaults.  A path is one of the SoC's own, of an older one's, *)
(* both inside the repository, or the user's; a source also has a name.    *)

BuiltinRoots == {"soc", "old"}

\* _supports_difftest.
Supported(w) == w.cpuSupports /\ w.socSupports

\* _adapt_sim_cpp_sources_for_cpu.
Adapted(w, sources) ==
    LET from == IF Supported(w) THEN "difftest_stub.cpp" ELSE "difftest.cpp"
        to == IF Supported(w) THEN "difftest.cpp" ELSE "difftest_stub.cpp"
    IN Sim!Once([i \in DOMAIN sources |->
            IF sources[i].name = from THEN [sources[i] EXCEPT !.name = to] ELSE sources[i]])

\* _default_soc_runtime_options: d has those of the SoC.
DefaultsOf(w, d) == [d EXCEPT !.sources = Adapted(w, d.sources)]

\* _should_replace_soc_runtime_value and _should_replace_soc_runtime_list.
ReplacePath(now, default) == {now, default} \subseteq BuiltinRoots
ReplaceFlags(now, default) ==
    (\E i \in DOMAIN now : now[i] \in BuiltinRoots) /\ (\E i \in DOMAIN default : default[i] \in BuiltinRoots)
ReplaceSources(now, default) ==
    /\ now # <<>> /\ default # <<>> /\ now # default
    /\ \A i \in DOMAIN now : now[i].root \in BuiltinRoots
    /\ \A i \in DOMAIN default : default[i].root \in BuiltinRoots

\* The fields that a load and a create treat alike: the name of the SoC always comes
\* from it, and a support for difftest that it has, not one that it lacks.
ScalarsAndFlags(w, d) ==
    [w EXCEPT !.name = d.name,
              !.path = IF w.path = "" \/ ReplacePath(w.path, d.path) THEN d.path ELSE w.path,
              !.flags = IF d.flags # <<>> /\ (w.flags = <<>> \/ ReplaceFlags(w.flags, d.flags))
                        THEN d.flags ELSE w.flags,
              !.socSupports = w.socSupports \/ d.socSupports]

\* Mutant of ApplyDefaults: the sources are adapted before the SoC is known.
ApplyDefaultsAdaptedFirst(w, soc) ==
    LET d == DefaultsOf(w, soc)
        sources == IF w.sources = <<>> \/ ReplaceSources(w.sources, d.sources) THEN d.sources ELSE w.sources
    IN [ScalarsAndFlags(w, d) EXCEPT !.sources = Adapted(w, sources)]

\* _apply_default_soc_runtime_options, of a create request.
ApplyDefaults(w, soc) ==
    LET d == DefaultsOf(w, soc)
        sources == IF w.sources = <<>> \/ ReplaceSources(w.sources, d.sources) THEN d.sources ELSE w.sources
        new == ScalarsAndFlags(w, d)
    IN [new EXCEPT !.sources = Adapted(new, sources)]

\* _repair_workspace_sim_defaults, of every load: the sources are adapted to what
\* the workspace said before.
Repaired(w, soc) ==
    LET d == DefaultsOf(w, soc)
        base == IF w.sources = <<>> \/ ReplaceSources(w.sources, d.sources) THEN d.sources ELSE w.sources
    IN [ScalarsAndFlags(w, d) EXCEPT !.sources = Adapted(w, base)]

-----------------------------------------------------------------------------
(* Test suites.  w.core and w.soc are the suites that the workspace was    *)
(* created with, each empty or a set; w.hasCore and w.hasSoc say whether   *)
(* the workspace has the fields at all.                                    *)

AllSuites == {"smoke", "cpu-tests", "coremark"}

\* _fallback_core_test_suite_contract and _fallback_soc_test_suite_contract.
CoreFallback(id) ==
    CASE id = "darkriscv" -> [known |-> TRUE, suites |-> {}]
      [] id = "cva6" -> [known |-> TRUE, suites |-> {"cpu-tests", "smoke"}]
      [] id \in {"picorv32", "custom-filelist", ""} -> [known |-> TRUE, suites |-> AllSuites]
      [] OTHER -> [known |-> FALSE, suites |-> {}]

SocFallback(id) == [known |-> id = "ysyx-am-soc", suites |-> IF id = "ysyx-am-soc" THEN AllSuites ELSE {}]

\* _workspace_test_suite_contract: the fields, and what is known of the ids for a
\* field that is not there.
SuiteContract(w) ==
    LET core == CoreFallback(w.coreId)
        soc == SocFallback(w.socId)
        is(known, suites) == [known |-> known, suites |-> suites]
    IN CASE w.core # {} /\ w.soc # {} -> is(TRUE, w.core \cap w.soc)
         [] (w.hasCore /\ w.core = {}) \/ (w.hasSoc /\ w.soc = {}) -> is(TRUE, {})
         [] w.core # {} /\ ~w.hasSoc -> is(TRUE, IF soc.known THEN w.core \cap soc.suites ELSE w.core)
         [] w.soc # {} /\ ~w.hasCore -> is(TRUE, IF core.known THEN w.soc \cap core.suites ELSE w.soc)
         [] OTHER ->
              CASE core.suites # {} /\ soc.suites # {} -> is(TRUE, core.suites \cap soc.suites)
                [] core.suites # {} /\ soc.suites = {} -> core
                [] core.suites = {} /\ soc.suites # {} -> IF core.known THEN is(TRUE, {}) ELSE soc
                [] OTHER -> is(core.known \/ soc.known, {})

\* _validate_workspace_test_suite_supported.
SuiteAllowed(w, suite) == SuiteContract(w).known => suite \in SuiteContract(w).suites

Benchmarks == {"coremark"}
Preferred == <<"add">>

\* _default_cpu_test_cases: programs is empty without a directory, or has the
\* programs in it by their names.
DefaultCases(w) ==
    LET available == SelectSeq(w.programs[1], LAMBDA p : p \notin Benchmarks)
        chosen == SelectSeq(Preferred, LAMBDA p : p \in ToSet(available))
        rest == SelectSeq(available, LAMBDA p : p \notin ToSet(chosen))
    IN IF w.programs = <<>> THEN Preferred ELSE SubSeq(chosen \o rest, 1,
                IF Len(chosen \o rest) < Len(Preferred) THEN Len(chosen \o rest) ELSE Len(Preferred))

\* _validate_cpu_test_cases.
CasesExist(w, cases) == w.programs # <<>> => ToSet(cases) \subseteq ToSet(w.programs[1])

\* _default_cpu_tests_run_args and _default_coremark_run_args; root says that the
\* directory of the SoC is there.
RunArgsOf(w, suite) ==
    [cycles |-> suite,
     diff |-> Yes(Supported(w) /\ w.root /\ (suite = "coremark" => w.coremarkDiff))]

Selection(w, all, names, suite) ==
    [w EXCEPT !.allTests = FALSE, !.images = <<>>, !.all = all, !.names = names,
              !.args = RunArgsOf(w, suite)]

\* _apply_sim_test_suite: <<>> when it is refused.
ApplySuite(w, suite, mode, cases) ==
    LET chosen == IF mode = "selected" /\ cases = <<>> THEN DefaultCases(w) ELSE cases
    IN CASE suite = "coremark" ->
              IF SuiteAllowed(w, "coremark") /\ CasesExist(w, <<"coremark">>)
              THEN <<[Selection(w, FALSE, <<"coremark">>, "coremark") EXCEPT !.compiled = "coremark"]>>
              ELSE <<>>
         [] OTHER ->
              IF /\ SuiteAllowed(w, "cpu-tests") /\ ToSet(chosen) \cap Benchmarks = {}
                 /\ mode = "selected" => CasesExist(w, chosen)
              THEN <<Selection(w, mode = "all", IF mode = "all" THEN <<>> ELSE chosen, "cpu-tests")>>
              ELSE <<>>

\* _apply_default_sim_smoke_suite, before a simulation that names no suite.
DefaultSuite(w) ==
    CASE ~SuiteAllowed(w, "cpu-tests") -> <<>>
      [] SuiteAllowed(w, "cpu-tests") /\ DefaultCases(w) = <<>> -> <<w>>
      [] OTHER -> IF CasesExist(w, DefaultCases(w))
                  THEN <<Selection(w, FALSE, DefaultCases(w), "cpu-tests")>> ELSE <<>>

\* _apply_workspace_create_test_suite_defaults.
CreateSuite(w, suite) ==
    CASE w.names # <<>> \/ w.images # <<>> -> <<w>>
      [] w.names = <<>> /\ w.images = <<>> /\ suite = "coremark" -> ApplySuite(w, "coremark", "selected", <<>>)
      [] OTHER -> DefaultSuite(w)

-----------------------------------------------------------------------------
(* Properties. *)

\* workspace.py:416.  What an accepted request asks for is what prepare reads after
\* the workspace has been written and loaded, once each and nothing else, although
\* three fields can carry it and the load looks into the directory: for a CPU with
\* its SoC also in a directory that was in use, for other designs in a fresh one or
\* if they have a list.
RequestedIsPrepared(r, disk, origin, soc) ==
    LET w == Loaded(Created(r, origin, soc))
        asked == IF r.kind = "generic_rtl" THEN r.rtlList \o r.origin \o ListOf(r.filelist)
                 ELSE r.cpuRtl \o ListOf(r.cpuList) \o soc
    IN (CreateAccepted(r, disk) /\ (r.kind = "cpu_core" \/ r.origin = <<>> \/ origin.lists = <<>>)) =>
            /\ PrepareInputs(w) = Sim!Once(asked)
            /\ There(disk, PrepareInputs(w))
            /\ \E i \in DOMAIN asked : disk[asked[i]] = "unit"

\* workspace_service.py:1552.  A workspace that was created is not changed by its
\* first load.  One that is repaired needs no second repair, unless the SoC is said
\* to support difftest only now, and never a third; then it has the source that its
\* support asks for, and the user's own paths and sources are still there.
RepairSettles(w, soc) ==
    LET created == ApplyDefaults(w, soc)
        once == Repaired(w, soc)
        twice == Repaired(once, soc)
        fits(x) == \A i \in DOMAIN x.sources :
            x.sources[i].name # IF Supported(x) THEN "difftest_stub.cpp" ELSE "difftest.cpp"
        users(x) == {i \in DOMAIN x.sources : x.sources[i].root = "user"}
    IN /\ Repaired(created, soc) = created
       /\ (w.socSupports \/ ~soc.socSupports) => twice = once
       /\ Repaired(twice, soc) = twice
       /\ fits(created) /\ fits(twice)
       /\ w.path = "user" => twice.path = "user" /\ created.path = "user"
       /\ users(w) # {} => users(twice) # {} /\ users(created) # {}

\* workspace_service.py:2015.  A suite is supported only if the core and the SoC of
\* the workspace both support it, as far as either has said so; an empty field says
\* no to all; and nothing is let through for want of a contract once one of the two
\* is known.
SuitesNeverWiden(w) ==
    LET c == SuiteContract(w) IN
    /\ w.hasCore => c.known /\ c.suites \subseteq w.core
    /\ w.hasSoc => c.known /\ c.suites \subseteq w.soc
    /\ c.suites # {} =>
        /\ (CoreFallback(w.coreId).known /\ ~w.hasCore) => c.suites \subseteq CoreFallback(w.coreId).suites
        /\ (SocFallback(w.socId).known /\ ~w.hasSoc) => c.suites \subseteq SocFallback(w.socId).suites
    /\ ~c.known => ~CoreFallback(w.coreId).known /\ ~SocFallback(w.socId).known

\* workspace_service.py:1763.  What a simulation runs depends on the last suite that
\* was applied alone; it is allowed, its programs are there, a benchmark is never
\* among the CPU tests, and difftest is asked for only where it is supported.  The
\* suite of a simulation that names none is the one with the default cases.
LastSuiteCounts(w, first, second) ==
    LET apply(x, s) == ApplySuite(x, s[1], s[2], s[3])
        what(x) == <<x.all, x.names, x.images, x.allTests, x.args>>
        one == apply(w, first)
        two == IF one = <<>> THEN <<>> ELSE apply(one[1], second)
    IN /\ one # <<>> => /\ two = <<>> <=> apply(w, second) = <<>>
                        /\ two # <<>> => what(two[1]) = what(apply(w, second)[1])
       /\ two # <<>> =>
            /\ SuiteAllowed(w, IF second[1] = "coremark" THEN "coremark" ELSE "cpu-tests")
            /\ CasesExist(w, two[1].names)
            /\ second[1] # "coremark" => ToSet(two[1].names) \cap Benchmarks = {}
            /\ two[1].args.diff = "yes" => Supported(w)
            /\ ~(two[1].all /\ two[1].names # <<>>)
       /\ (DefaultSuite(w) # <<>> /\ DefaultCases(w) # <<>>) =>
            DefaultSuite(w) = ApplySuite(w, "smoke", "selected", <<>>)
       /\ (w.names = <<>> /\ CreateSuite(w, "smoke") # <<>>) => CreateSuite(w, "smoke") = DefaultSuite(w)
=============================================================================
