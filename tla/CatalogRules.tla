----------------------------- MODULE CatalogRules -----------------------------
(***************************************************************************)
(* What can be built from the catalog of CPUs, SoC harnesses, toolchains   *)
(* and test suites: the compatibility matrix the desktop shows             *)
(* (catalog/compatibility.py), the validation of a configuration           *)
(* (catalog/registry.py), the check of the catalog itself                  *)
(* (catalog/contract.py) and the run-time options of a SoC.                *)
(*                                                                         *)
(* An entry is a record.  suites = {} says that none are declared, socket  *)
(* and reset = "" that the field is empty.                                 *)
(***************************************************************************)
EXTENDS RtlInputs, TopContract

CONSTANT Family(_)   \* the prefix of an ISA name that the code knows, or the name

NoEntry == [id |-> "none"]

-----------------------------------------------------------------------------
(* CatalogEntry. *)

Metadata == 0
FilelistLevel == 1
SimLevel == 4

SimReady(e) == e.level >= SimLevel
FilelistReady(e) == e.level >= FilelistLevel \/ e.list # ""

Expanded(isa) == isa \cup {Family(i) : i \in isa}

\* Entries of several manifests: the last one with an id counts, in the place
\* of the first one; an entry without an id is dropped.
Merge(builtin, manifests) ==
    LET add(entries, e) ==
            LET same == {i \in DOMAIN entries : entries[i].id = e.id}
            IN CASE e.id = "" -> entries
                 [] e.id # "" /\ same = {} -> Append(entries, e)
                 [] OTHER -> [i \in DOMAIN entries |-> IF i \in same THEN e ELSE entries[i]]
    IN FoldLeft(add, builtin, manifests)

-----------------------------------------------------------------------------
(* compatibility_for_pair. *)

Code(code, holds) == IF holds THEN {code} ELSE {}

Agree(a, b) == a = "" \/ b = "" \/ a = b

\* _entry_supported_test_suites
Offered(e, suites) ==
    LET implemented == {s.id : s \in {t \in suites : t.status # "planned"}} IN
    CASE e.suites # {} -> implemented \cap e.suites
      [] e.suites = {} /\ SimReady(e) -> implemented
      [] OTHER -> {}

Pair(core, soc, suites) ==
    LET isa == Expanded(core.isa) \cap Expanded(soc.isa)
        hard == Code("isa", core.isa # {} /\ soc.isa # {} /\ isa = {})
                \cup Code("socket", ~Agree(core.socket, soc.socket))
                \cup Code("reset", ~Agree(core.reset, soc.reset))
                \cup Code("core_sim", ~SimReady(core)) \cup Code("soc_sim", ~SimReady(soc))
        common == IF hard = {} THEN Offered(core, suites) \cap Offered(soc, suites) ELSE {}
        issues == hard \cup Code("no_suite", SimReady(core) /\ SimReady(soc) /\ common = {})
        creatable == issues = {}
        stable == core.status = "stable" /\ soc.status = "stable"
    IN [creatable |-> creatable, suites |-> common, issues |-> issues,
        support |-> CASE ~creatable -> "unsupported"
                      [] creatable /\ stable -> "supported"
                      [] OTHER -> "experimental",
        status |-> CASE creatable /\ core.needsList -> "requires_filelist"
                     [] creatable /\ ~core.needsList ->
                            IF stable THEN "ready" ELSE "experimental"
                     [] ~creatable /\ FilelistReady(core) /\ ~SimReady(core) -> "needs_cpu_adapter"
                     [] OTHER -> IF FilelistReady(soc) /\ ~SimReady(soc)
                                 THEN "needs_soc_adapter" ELSE "planned"]

-----------------------------------------------------------------------------
(* The user's CPU filelist, before the workspace exists: a third walk, that *)
(* follows nested lists in any spelling and notes what it does not find.   *)
(* It is given the relocated project.                                      *)
(* The project's defines[f] says whether file f defines the required top,  *)
(* ports[f] what its ports are.                                            *)

ReadUserLine(p, st) ==
    LET line == Head(st.todo)
        rest == [st EXCEPT !.todo = Tail(@)]
    IN CASE line.kind \in {"list", "glued", "rtl"} /\ ~Found(p, line.arg) ->
                [rest EXCEPT !.missing = @ \cup {line.arg}]
         [] line.kind \in {"list", "glued"} /\ Found(p, line.arg) /\ line.arg \notin st.visited ->
                [rest EXCEPT !.visited = @ \cup {line.arg},
                             !.todo = p.entries[line.arg] \o @]
         [] line.kind = "rtl" /\ Found(p, line.arg) -> [rest EXCEPT !.files = Append(@, line.arg)]
         [] line.kind = "define" -> [rest EXCEPT !.defines = Append(@, line.arg)]
         [] OTHER -> rest

UserParse(p, root) ==
    LET start == [todo |-> p.entries[root], visited |-> {root}, files |-> <<>>,
                  missing |-> {}, defines |-> <<>>]
        run[n \in 0..Fuel(p)] ==
            IF n = 0 THEN start
            ELSE IF run[n - 1].todo = <<>> THEN run[n - 1]
            ELSE ReadUserLine(p, run[n - 1])
    IN run[Fuel(p)]

\* module_definitions: the files of a list, each as often as it is listed.
Definitions(p, files) == Picked(files, {i \in DOMAIN files : p.defines[files[i]]})

\* _validate_user_cpu_filelist_contract
UserListIssues(core, p) ==
    LET parsed == UserParse(Relocated(p), p.cpu)
        tops == Definitions(p, parsed.files)
        required == core.ports
        actual == p.ports[tops[1]]
        names == {actual[i].name : i \in DOMAIN actual}
        d == Compare(Expected(core.contract), actual)
        count == CASE Len(tops) = 0 -> {"top_not_found"}
                   [] Len(tops) > 1 -> {"top_count"}
                   [] OTHER -> {}
    IN Code("rtl_not_found", parsed.missing # {}) \cup count
       \cup (IF count # {} \/ required = {} THEN {}
             ELSE IF names # required THEN {"ports"}
             ELSE Code("port_contract", d.mismatches \cap required # {}))

\* cpu_filelist_supports_difftest: the list says so and some file has the adapter.
ListSupportsDifftest(p, root, adapters) ==
    LET parsed == UserParse(Relocated(p), root)
    IN /\ Found(p, root)
       /\ "ECOS_DIFFTEST" \in Elements(parsed.defines)
       /\ Elements(parsed.files) \cap adapters # {}

-----------------------------------------------------------------------------
(* validate_frontend_config.  c names the four entries, top and identifier  *)
(* say whether a CPU top is asked for and whether it is well-formed, list   *)
(* is "", "absent" or "given"; a given list is that of project p.           *)

Harness(suite, soc) ==
    IF soc.suites # {} THEN suite.id \in soc.suites
    ELSE \/ suite.requires = {}
         \/ soc.id \in suite.requires
         \/ "sim_ready_harness" \in suite.requires /\ SimReady(soc)
         \/ "sim_ready_harness" \notin suite.requires /\ ~suite.requiresSoc

Common(entries) ==
    LET named == {e \in entries : e.isa # {}}
    IN named = {} \/ \E i \in UNION {Expanded(e.isa) : e \in named} :
                        \A e \in named : i \in Expanded(e.isa)

ListIssues(c, p) ==
    CASE c.list = "absent" -> {"list_not_found"}
      [] c.list = "given" /\ c.core # NoEntry ->
            IF c.core.needsList THEN UserListIssues(c.core, p) ELSE {"own_rtl"}
      [] c.list = "" /\ c.core # NoEntry -> Code("missing_list", c.core.needsList)
      [] OTHER -> {}

\* Mutant of ChoiceIssues: the suite is checked against the SoC only.
ChoiceIssuesOfSoc(c, suites) ==
    LET pair == Pair(c.core, c.soc, suites)
    IN Code("isa", ~Common({c.core, c.soc, c.toolchain, c.suite})) \cup pair.issues
       \cup Code("soc_suite", ~Harness(c.suite, c.soc) /\ c.soc.suites # {})
       \cup Code("planned", c.suite.status = "planned")

\* What is wrong with four entries that are all there.
ChoiceIssues(c, suites) ==
    LET pair == Pair(c.core, c.soc, suites)
    IN Code("isa", ~Common({c.core, c.soc, c.toolchain, c.suite}))
       \cup pair.issues
       \cup Code("soc_suite", ~Harness(c.suite, c.soc) /\ c.soc.suites # {})
       \cup Code("pair_suite", c.suite.id \notin pair.suites)
       \cup Code("core_suite", c.core.suites # {} /\ c.suite.id \notin c.core.suites)
       \cup Code("planned", c.suite.status = "planned")

Validate(c, suites, p) ==
    LET all == NoEntry \notin {c.core, c.soc, c.toolchain, c.suite}
        errors == Code("unknown_id", ~all)
                  \cup Code("top_of_builtin", c.top /\ c.core # NoEntry /\ c.core.id # "custom-filelist")
                  \cup Code("top_identifier", c.top /\ ~c.identifier)
                  \cup ListIssues(c, p)
                  \cup (IF all THEN ChoiceIssues(c, suites) ELSE {})
        warned == all /\ ~Harness(c.suite, c.soc) /\ c.soc.suites = {}
    IN [ok |-> errors = {}, errors |-> errors,
        support |-> CASE errors # {} -> "unsupported"
                      [] errors = {} /\ warned -> "experimental"
                      [] OTHER -> Pair(c.core, c.soc, suites).support]

-----------------------------------------------------------------------------
(* check_catalog_contracts and SocWrapper.runtime_options.  A SoC record    *)
(* has, for each file its manifest names, the path ("" if there is none),   *)
(* its C++ sources (<<>> if the manifest has no such field), the set there  *)
(* of the files that exist and the set bundled of those that exist only in  *)
(* a third-party bundle; complete says that the fields which only have to   *)
(* be filled in are, smoke that tests/programs/add.c is there.              *)

ManifestFields == {"soc_filelist", "testbench", "script"}

\* _resolve_manifest_path looks in the bundles too.
Present(soc) == soc.there \cup soc.bundled

\* Sources that the manifest leaves out are not checked.
CheckSoc(soc) ==
    IF ~SimReady(soc) THEN {}
    ELSE Code("socket", soc.socket # "s1") \cup Code("reset", soc.reset = "")
         \cup Code("suites", soc.suites = {}) \cup Code("fields", ~soc.complete)
         \cup (IF ~soc.directory THEN {"directory"}
               ELSE IF ~soc.hasManifest THEN {"manifest"}
               ELSE {f \in ManifestFields : soc.manifest[f] \notin Present(soc)}
                    \cup Code("sim_cpp_sources", \E i \in DOMAIN soc.sources : ~(soc.sources[i] \subseteq Present(soc)))
                    \cup Code("wrapper_top", soc.manifest["soc_filelist"] \in Present(soc) /\ ~soc.definesTop)
                    \cup Code("smoke", "cpu-tests" \in soc.suites /\ ~soc.smoke))

\* A CPU that the user's list completes needs no files of its own.
CheckCpu(core) ==
    IF ~SimReady(core) THEN {}
    ELSE Code("socket", core.socket # "s1") \cup Code("suites", core.suites = {})
         \cup (IF core.needsList THEN Code("reset", core.reset = "")
               ELSE CASE core.list = "" -> {"missing_list"}
                      [] core.list = "absent" -> {"list_not_found"}
                      [] OTHER -> Code("rtl_not_found", core.incomplete)
                                  \cup Code("wrapper_top", ~core.definesTop))

\* _check_compatibility_entries
CheckPair(pair) == Code("pair_without_tests", pair.creatable /\ pair.suites = {})

\* soc_runtime_options: none unless the SoC is ready, by its manifest or as the one
\* that needs none (legacy); an empty field and missing sources have a default.
\* Nobody looks in the bundles for these files.
SocOptions(soc) ==
    LET ready == IF soc.hasManifest THEN soc.manifestReady ELSE soc.legacy
        path(f) == IF soc.hasManifest /\ soc.manifest[f] # "" THEN soc.manifest[f] ELSE soc.default[f]
    IN IF ~ready THEN [paths |-> [f \in {} |-> ""], sources |-> {}]
       ELSE [paths |-> [f \in ManifestFields |-> path(f)],
             sources |-> IF soc.hasManifest /\ soc.sources # <<>> THEN soc.sources[1] ELSE soc.drivers]

-----------------------------------------------------------------------------
(* Properties. *)

\* compatibility.py:53 and registry.py:89.  The matrix and the validation are
\* written apart.  What the desktop offers from the matrix, create accepts, and
\* nothing else: a pair that can be created, one of its suites, a toolchain that
\* shares an ISA with all of them, and no CPU list or top for a built-in CPU.
MatrixMeansCreatable(c, suites, p) ==
    LET pair == Pair(c.core, c.soc, suites)
        v == Validate(c, suites, p)
    IN NoEntry \notin {c.core, c.soc, c.toolchain, c.suite} =>
        /\ v.ok <=> /\ pair.creatable /\ c.suite.id \in pair.suites
                    /\ Common({c.core, c.soc, c.toolchain, c.suite})
                    /\ ListIssues(c, p) = {}
                    /\ c.top => c.core.id = "custom-filelist" /\ c.identifier
        /\ v.support = "supported" => pair.support = "supported"
        /\ pair.creatable => pair.suites # {} /\ pair.status \notin {"planned", "needs_cpu_adapter"}

\* contract.py:60.  Of two entries that pass the check of the catalog, both ready
\* for simulation, only the choice of ISA, reset vector or suites can be wrong;
\* and of the files that the options of such a SoC name only two kinds can be
\* missing: those found in a bundle, and default drivers of a manifest that lists no
\* sources, which nobody has checked.
CheckedEntriesFit(core, soc, suites) ==
    LET options == SocOptions(soc)
        named == {options.paths[f] : f \in DOMAIN options.paths} \cup options.sources
    IN /\ CheckPair(Pair(core, soc, suites)) = {}
       /\ SimReady(core) /\ SimReady(soc) /\ CheckCpu(core) = {} /\ CheckSoc(soc) = {} =>
             /\ Pair(core, soc, suites).issues \subseteq {"isa", "reset", "no_suite"}
             /\ soc.manifestReady => DOMAIN options.paths = ManifestFields
             /\ named \ soc.there \subseteq
                    soc.bundled \cup (IF soc.sources = <<>> THEN soc.drivers ELSE {})

\* registry.py:456 and runner.py:277.  A list of the user, with each file on one
\* line and nested lists spelled with a blank, is accepted exactly if prepare
\* will accept it, given a SoC that does not define the top again.
WhatIsValidatedIsPrepared(core, p) ==
    LET q == Relocated(p)
        parsed == UserParse(q, p.cpu)
        c == Collected(p)
        tops == Definitions(p, c.rtl)
        w == [kind |-> "cpu_core", required |-> TRUE, identifier |-> TRUE,
              definitions |-> Len(tops), contract |-> core.contract,
              actual |-> IF tops = <<>> THEN <<>> ELSE p.ports[tops[1]]]
        plain == /\ Len(parsed.files) = Cardinality(Elements(parsed.files))
                 /\ \A f \in Reachable(q) : \A i \in DOMAIN q.entries[f] :
                        q.entries[f][i].kind # "glued"
        expected == Expected(core.contract)
    IN plain /\ core.ports = {expected[i].name : i \in DOMAIN expected} =>
        (UserListIssues(core, p) = {} <=> ~c.failed /\ Verdict(w) \in {"pass", "module_only"})

\* registry.py:333.  Whatever manifests there are, each id has one entry, that of
\* the last manifest, and the built-in entries keep their places.
LastManifestCounts(builtin, manifests) ==
    LET merged == Merge(builtin, manifests)
        all == builtin \o manifests
        ids == {e.id : e \in Elements(all)} \ {""}
        last(id) == CHOOSE i \in DOMAIN all : all[i].id = id /\ \A j \in DOMAIN all :
                                                  all[j].id = id => j <= i
    IN /\ {e.id : e \in Elements(merged)} = ids /\ Len(merged) = Cardinality(ids)
       /\ \A e \in Elements(merged) : e = all[last(e.id)]
       /\ \A i \in DOMAIN builtin : merged[i].id = builtin[i].id

\* rtl_inputs.py:119.  A list that the service writes for a user's selection is
\* read back by prepare as that selection, each file once, and says that the CPU
\* supports difftest exactly if it was asked to and the files do.
GeneratedListIsReadBack(p, list, sources, adapters, enable) ==
    LET written == [p EXCEPT !.entries[list] = GeneratedList(sources, adapters, enable),
                             !.cpu = list]
    IN sources # <<>> =>
        /\ Parse(Relocated(written), list).rtl = Unique(sources)
        /\ UserParse(Relocated(written), list).files = Unique(sources)
        /\ ListSupportsDifftest(written, list, adapters) <=>
              enable /\ Elements(sources) \cap adapters # {}
=============================================================================
