------------------------------- MODULE MCRules -------------------------------
(***************************************************************************)
(* Bounded inputs for the pure parts of the tools, the catalog and the     *)
(* command line: a state is one input of one of them, and the invariants   *)
(* compare what the code computes from it with what it promises.           *)
(***************************************************************************)
EXTENDS CatalogRules

VARIABLES subject, input

vars == <<subject, input>>

\* input is <<>> until one is chosen.
Open(name) == subject = name /\ input = <<>> /\ UNCHANGED subject
Take(value) == input' = <<value>>

Short(S) == {<<>>} \cup {<<x>> : x \in S}
Pairs(S) == Short(S) \cup (S \X S)
UpTo(S, n) == UNION {[1..k -> S] : k \in 0..n}

-----------------------------------------------------------------------------
(* Filelists: a CPU list and a SoC list that name each other, a third list *)
(* and two RTL files; the third list and the second file may be missing or *)
(* have moved into a bundle.  A workspace may have an input list or a      *)
(* single file only.                                                       *)

ListNames == {"cpu.f", "soc.f", "nested.f"}
RtlNames == {"a.v", "b.sv"}
CopyOf == [f \in {"nested.f", "b.sv"} |-> IF f = "nested.f" THEN "copy.f" ELSE "copy.sv"]

Paths == ListNames \cup RtlNames \cup {"copy.f", "copy.sv"}

ASSUME PathsAssumption == Files = Paths /\ NoFile = "none"

Line(k, a) == [kind |-> k, arg |-> a]
RootLines == {Line("list", f) : f \in ListNames} \cup {Line("rtl", f) : f \in RtlNames}
             \cup {Line("glued", "nested.f"), Line("incdir", "w")}

Gone == {<<{}, {}>>, <<{"nested.f"}, {}>>, <<{"b.sv"}, {}>>, <<{}, {"b.sv"}>>, <<{}, {"nested.f"}>>,
         <<{}, {"nested.f", "b.sv"}>>}
At(gone) == [f \in Paths |-> CASE f \in gone[1] -> "absent" [] f \in gone[2] -> "moved" [] OTHER -> "here"]
Copies == [f \in Paths |-> IF f \in DOMAIN CopyOf THEN CopyOf[f] ELSE f]

Entries(e1, e2, e3) ==
    [f \in Paths |-> CASE f = "cpu.f" -> e1 [] f = "soc.f" -> e2
                       [] f \in {"nested.f", "copy.f"} -> e3 [] OTHER -> <<>>]

Filelists ==
    /\ Open("filelists")
    /\ \E e1 \in Pairs(RootLines), e2 \in Short(RootLines), e3 \in Short(RootLines), gone \in Gone,
       roots \in {<<"cpu.f", "none", "none">>, <<"cpu.f", "soc.f", "none">>, <<"none", "none", "cpu.f">>,
                   <<"none", "none", "nested.f">>}, generic \in BOOLEAN :
        /\ generic <=> roots[3] = "cpu.f"
        /\ Take([cpu |-> roots[1], soc |-> roots[2], input |-> roots[3], verilog |-> "b.sv", generic |-> generic,
              at |-> At(gone), copy |-> Copies, entries |-> Entries(e1, e2, e3)])

-----------------------------------------------------------------------------
(* Top modules: five lines with one macro, three ports, two contracts.     *)

Conditionals ==
    /\ Open("conditionals")
    /\ \E lines \in UpTo({"ifdef", "ifndef", "elsif", "else", "endif", "define", "text"}, 5) :
        Take([i \in DOMAIN lines |-> [kind |-> lines[i], name |-> "a"]])

Port(n, d, w) == [name |-> n, direction |-> d, width |-> w]

Interfaces ==
    /\ Open("interfaces")
    /\ \E n \in 0..3, dir \in [1..3 -> {"input", "output"}], width \in [1..3 -> 1..2] :
        Take([i \in 1..n |-> Port(<<"a", "b", "c">>[i], dir[i], width[i])])

Tops ==
    /\ Open("tops")
    /\ \E contract \in Pairs({Port("a", "input", 1), Port("a", "input", 2), Port("b", "input", 1),
                           Port("b", "input", 0), Port("b", "unknown", 1)}),
       actual \in Pairs({Port("a", "input", 1), Port("a", "output", 1), Port("a", "input", 2),
                         Port("b", "input", 1), Port("b", "input", 0)}),
       situation \in {<<"cpu_core", TRUE, TRUE>>, <<"cpu_core", FALSE, TRUE>>,
                      <<"cpu_core", TRUE, FALSE>>, <<"generic_rtl", FALSE, TRUE>>},
       definitions \in 0..2 :
        Take([kind |-> situation[1], required |-> situation[2], identifier |-> situation[3],
                       definitions |-> definitions, contract |-> contract, actual |-> actual])

-----------------------------------------------------------------------------
(* The catalog: three suites, of which one is planned, cores and SoCs that  *)
(* differ in everything that is compared.                                  *)

FamilyOf(isa) == CASE isa = "rv32i" -> "rv32" [] isa = "rv32im" -> "rv32" [] OTHER -> isa

Suite(id, status, requires) ==
    [id |-> id, status |-> status, isa |-> {}, requires |-> requires, requiresSoc |-> FALSE]

SuiteTable == {Suite("smoke", "stable", {"sim_ready_harness"}), Suite("cpu-tests", "stable", {}),
               Suite("arch-test", "planned", {})}

SuiteSets == {{}, {"smoke"}, {"cpu-tests", "arch-test"}}

Core(id, level, isa, socket, reset, suites, status, needs, list) ==
    [id |-> id, level |-> level, isa |-> isa, socket |-> socket, reset |-> reset,
     suites |-> suites, status |-> status, needsList |-> needs, list |-> list,
     ports |-> {}, contract |-> <<>>]

Soc(level, socket, reset, suites) ==
    [id |-> "soc", level |-> level, isa |-> {"rv32im"}, socket |-> socket, reset |-> reset,
     suites |-> suites, status |-> "stable", list |-> ""]

Configurations ==
    /\ Open("configurations")
    /\ \E level \in {FilelistLevel, SimLevel}, isa \in {{}, {"rv32i"}, {"rv64"}}, socket \in {"s1", "s2"},
       reset \in {"", "r1"}, suites \in SuiteSets,
       kind \in {<<"custom-filelist", TRUE, "", "stable">>, <<"builtin", FALSE, "cpu.f", "experimental">>},
       soclevel \in {FilelistLevel, SimLevel}, socreset \in {"r1", "r2"},
       socsuites \in SuiteSets, suite \in SuiteTable, toolchain \in {"rv32", "rv64"},
       asked \in {<<"", FALSE, TRUE>>, <<"given", TRUE, TRUE>>, <<"given", TRUE, FALSE>>} :
        Take([core |-> Core(kind[1], level, isa, socket, reset, suites, kind[4], kind[2], kind[3]),
              soc |-> Soc(soclevel, "s1", socreset, socsuites), suite |-> suite,
              toolchain |-> [id |-> "gcc", isa |-> {toolchain}],
              list |-> asked[1], top |-> asked[2], identifier |-> asked[3]])

CheckedCore(socket, reset, suites, kind, defines) ==
    Core("core", SimLevel, {"rv32i"}, socket, reset, suites, "stable", kind[1], kind[2])
        @@ [incomplete |-> ~defines, definesTop |-> defines]

ReadySoc(reset, suites, defines, present, ready, files, sources, disk) ==
    [id |-> "soc", level |-> SimLevel, isa |-> {"rv32im"}, socket |-> "s1",
     reset |-> reset, suites |-> suites, status |-> "stable", list |-> "",
     complete |-> TRUE, smoke |-> TRUE, directory |-> TRUE, definesTop |-> defines,
     hasManifest |-> present, manifestReady |-> ready, legacy |-> ready, manifest |-> files,
     sources |-> sources, there |-> disk[1], bundled |-> disk[2],
     default |-> [f \in ManifestFields |-> "z"], drivers |-> {"x", "z"}]

CatalogChecks ==
    /\ Open("catalogchecks")
    /\ \E reset \in {"", "r1"}, socket \in {"s1", "s2"}, kind \in {<<TRUE, "">>, <<FALSE, "">>, <<FALSE, "absent">>, <<FALSE, "cpu.f">>},
       defines \in BOOLEAN, suites \in SuiteSets,
       socreset \in {"", "r1"}, files \in [ManifestFields -> {"", "x", "y"}],
       sources \in {<<>>, <<{"x", "y"}>>},
       disk \in {<<{"x"}, {}>>, <<{"x"}, {"y"}>>, <<{"x", "z"}, {}>>}, ready \in BOOLEAN, present \in BOOLEAN :
        Take([core |-> CheckedCore(socket, reset, suites, kind, defines),
              soc |-> ReadySoc(socreset, suites, defines, present, ready, files, sources, disk)])

UserLists ==
    /\ Open("userlists")
    /\ \E e1 \in Pairs(RootLines), e2 \in Short({Line("rtl", f) : f \in RtlNames} \cup {Line("list", "cpu.f")}),
       gone \in Gone, tops \in SUBSET RtlNames,
       actual \in {<<Port("x", "input", 1)>>, <<Port("x", "input", 2)>>, <<Port("y", "input", 1)>>},
       core \in {[ports |-> {}, contract |-> <<>>],
                 [ports |-> {"x"}, contract |-> <<Port("x", "input", 1)>>]} :
        Take([core |-> core,
              project |-> [cpu |-> "cpu.f", soc |-> "none", input |-> "none", verilog |-> "none",
                           generic |-> FALSE, at |-> At(gone), copy |-> Copies,
                           defines |-> [f \in Paths |-> f \in tops \/ (f = "copy.sv" /\ "b.sv" \in tops)],
                           ports |-> [f \in Paths |-> actual],
                           entries |-> Entries(e1, <<>>, e2)]])

Manifests ==
    /\ Open("manifests")
    /\ \E builtin \in {<<>>, <<"a">>, <<"a", "b">>}, ids \in UpTo({"a", "b", "c", ""}, 4) :
        Take([builtin |-> [i \in DOMAIN builtin |-> [id |-> builtin[i], version |-> 0]],
              manifests |-> [i \in DOMAIN ids |-> [id |-> ids[i], version |-> i]]])

Selections ==
    /\ Open("selections")
    /\ \E sources \in UpTo(RtlNames, 3), adapters \in SUBSET RtlNames, enable \in BOOLEAN :
        Take([sources |-> sources, adapters |-> adapters, enable |-> enable])

-----------------------------------------------------------------------------
(* Simulation: one case with every output of the simulator, the cases of two *)
(* runs, and the ways in which a run ends before it has cases.               *)

S == INSTANCE SimulationRules

CaseArgs == SUBSET {"--diff", "--timeout-ok"}

SimulatedCases ==
    /\ Open("simulatedcases")
    /\ \E args \in CaseArgs, ending \in {"good", "bad", "limit", "finish"}, compared \in BOOLEAN,
          mismatch \in BOOLEAN, coremark \in BOOLEAN,
          prints \in SUBSET {"validated", "errors", "FAILED", "%Error"} :
        \* A mismatch makes the DPI call fail, which ends the simulation.
        /\ mismatch => ending = "finish" /\ "validated" \notin prints
        /\ Take([args |-> args, coremark |-> coremark,
                 out |-> S!Simulator(args, [ending |-> ending, compared |-> compared,
                                            mismatch |-> mismatch, prints |-> prints])])

Stems == {<<"a">>, <<"a", 2>>, <<"b">>}

NamedImages ==
    /\ Open("namedimages")
    /\ \E stems \in UpTo(Stems, 4) : Take([i \in DOMAIN stems |-> [stem |-> stems[i], sha |-> ""]])

\* The ends a case can have, with difftest or without.
Ended(diff, compared, ending, prints) ==
    LET args == IF diff THEN {"--diff"} ELSE {}
    IN S!CaseReport(FALSE, args, S!Simulator(args, [ending |-> ending, compared |-> compared,
                                                    mismatch |-> FALSE, prints |-> prints]),
                    [suite |-> "cpu_tests"])

Ends == {{Ended(FALSE, FALSE, "good", {}), Ended(FALSE, FALSE, "good", {"FAILED"})},
         {Ended(TRUE, TRUE, "good", {}), Ended(TRUE, FALSE, "good", {}), Ended(TRUE, TRUE, "limit", {})}}

CasesOf(stems, ends, cycles, sha) ==
    LET named == S!Cases([i \in DOMAIN stems |-> [stem |-> stems[i], sha |-> sha]])
    IN [i \in DOMAIN stems |-> named[i] @@ ends[i] @@ [cycles |-> cycles[i]]]

SimulatedRuns ==
    /\ Open("simulatedruns")
    /\ \E now \in 1..2, old \in 0..2, possible \in Ends :
       \E ends \in [1..now -> possible], cycles \in [1..now -> {S!NoCount, 1000, 1001, 1002}],
          before \in [1..old -> possible], was \in {1000, 0},
          stems \in {<<<<"a">>, <<"a">>>>, <<<<"a">>, <<"b">>>>}, sha \in {"", "h"} :
        Take([cases |-> CasesOf(SubSeq(stems, 1, now), ends, cycles, "h"),
              runs |-> <<[suite |-> "smoke", ended |-> TRUE, cases |-> <<>>],
                         [suite |-> "cpu_tests", ended |-> FALSE, cases |-> <<>>],
                         [suite |-> "cpu_tests", ended |-> TRUE,
                          cases |-> CasesOf(SubSeq(<<<<"a">>, <<"b">>>>, 1, old), before, <<was, 1000>>, sha)]>>])

Program(d, n) == [dir |-> d, stem |-> n]
Image(n) == [stem |-> <<n>>, sha |-> ""]

ProgramSets ==
    /\ Open("programsets")
    /\ \E given \in Pairs({Program("programs", "add"), Program("user", "add"), Program("user", "sub")}),
          names \in Pairs({"add", "coremark"}), all \in BOOLEAN, script \in BOOLEAN, allTests \in BOOLEAN,
          images \in Short({Image("add"), Image("old")}),
          builds \in SUBSET {Program("programs", "add"), Program("user", "add"), Program("user", "sub"),
                             Program("programs", "coremark")} :
        Take([given |-> given, names |-> names, all |-> all, script |-> script, builds |-> builds,
              directory |-> <<Program("programs", "add"), Program("programs", "coremark")>>,
              benchmarks |-> {"coremark"}, images |-> images, allTests |-> allTests,
              tests |-> <<Image("add"), Image("sub")>>])

CppFiles == {"main.cpp", "difftest.cpp", "difftest_stub.cpp"}

Setup(cpu, cpuSays, socSays, testbench, sources, args) ==
    [cpu |-> cpu, cpuSupports |-> cpuSays, socSupports |-> socSays, testbench |-> testbench,
     sources |-> sources, args |-> args]

Drivers ==
    /\ Open("drivers")
    /\ \E cpu \in {"builtin", "custom", "unsupported"}, cpuSays \in {"yes", "no", ""},
          socSays \in {"yes", "no", ""}, testbench \in {"", "main.cpp", "difftest.cpp"},
          sources \in UpTo(CppFiles, 2),
          args \in {<<>>, <<"--diff", "--ref", "ref.so">>, <<"--ref", "--diff", "-v">>, <<"-v", "--ref">>} :
        Take(Setup(cpu, cpuSays, socSays, testbench, sources, args))

SimulationSteps ==
    /\ Open("simulationsteps")
    /\ \E flags \in [{"reuse", "binary", "built"} -> BOOLEAN], verilator \in 0..1,
          sources \in {<<>>, <<"main.cpp", "difftest.cpp">>}, says \in {"yes", "no"},
          absent \in SUBSET CppFiles, possible \in Ends, count \in 0..2 :
       \E ends \in [1..count -> possible] :
        \* A compilation that succeeds leaves a binary.
        /\ verilator = 0 => flags["binary"]
        /\ Take(Setup("custom", says, "yes", "", sources, <<>>) @@ flags
                @@ [verilator |-> verilator, absent |-> absent,
                    cases |-> [i \in DOMAIN ends |-> ends[i] @@ [name |-> <<i>>]]])

-----------------------------------------------------------------------------
(* Reports: runs of slang and of Verilator with up to three diagnostics in *)
(* files of three owners, that end, crash or do not start.                 *)

Q == INSTANCE ReportRules

Reports ==
    /\ Open("reports")
    /\ \E listed \in 1..3, resolved \in 0..3, incdirs \in 0..1, incdirsThere \in 0..1,
          contract \in Pairs({Port("a", "input", 1), Port("b", "input", 1)}),
          actual \in Pairs({Port("a", "input", 1), Port("a", "output", 1), Port("b", "input", 1)}),
          situation \in {<<"cpu_core", TRUE, TRUE>>, <<"cpu_core", FALSE, TRUE>>,
                         <<"cpu_core", TRUE, FALSE>>, <<"generic_rtl", FALSE, TRUE>>}, definitions \in 0..2 :
        /\ resolved <= listed /\ incdirsThere <= incdirs
        /\ Take([kind |-> situation[1], required |-> situation[2], identifier |-> situation[3],
                 definitions |-> definitions, contract |-> contract, actual |-> actual,
                 counts |-> [listed |-> listed, resolved |-> resolved, incdirs |-> incdirs,
                             incdirsThere |-> incdirsThere]])

ToolEnds == {"exit", "crash", "absent"}

Elaborations ==
    /\ Open("elaborations")
    /\ \E diags \in UpTo([kind : {"diag"}, severity : {"error", "warning", "info"},
                           source : {"cpu.v"}, message : {"other", "missing_module"}], 3),
          ends \in ToolEnds, scanned \in {{}, {"top"}} :
        /\ ends = "absent" => diags = <<>>
        /\ Take([run |-> [diags |-> diags, ends |-> ends], scanned |-> scanned])

Lints ==
    /\ Open("lints")
    /\ \E diags \in UpTo([severity : {"error", "warning"}, code : {"WIDTH", "UNUSED"},
                           source : {"cpu.v", "soc.v"}, message : {"other"}], 3),
          ends \in ToolEnds, user \in {"cpu", "design"} :
        /\ ends = "absent" => diags = <<>>
        /\ Take([run |-> [diags |-> diags, ends |-> ends], user |-> user])

EmptyProject == [cpu |-> "none", soc |-> "none", input |-> "none", verilog |-> "none", generic |-> FALSE,
                 at |-> [f \in Paths |-> "here"], copy |-> Copies, entries |-> [f \in Paths |-> <<>>]]

-----------------------------------------------------------------------------
(* Review: lists of up to two of four files with helper modules, netlists of *)
(* four cells, populations of two modules, runs of yosys, and two reports of *)
(* up to two issues.                                                         *)

V == INSTANCE ReviewRules

Source(k, d, u) == [kind |-> k, declares |-> d, uses |-> u, dpi |-> {}]

\* The limits of the code, and smaller ones that cut these few files and modules.
Cuts == {V!Limits,
         [rounds |-> 1, files |-> 2, cycles |-> 1, structures |-> 1, risks |-> 2],
         [rounds |-> 2, files |-> 1, cycles |-> 1, structures |-> 1, risks |-> 1]}

ReviewSourcesOf ==
    /\ Open("reviewedsources")
    /\ \E listed \in Pairs({"a.v", "b.sv", "c.v", "t.sv"}) \ {<<>>},
          given \in {"cpu", "input", "origin", "soc"}, generic \in BOOLEAN,
          a \in {Source("rtl", <<1>>, {2}), Source("rtl", <<1, 5>>, {2, 6}), Source("rtl", <<2, 1>>, {5}), Source("gone", <<>>, {})},
          b \in {Source("rtl", <<2>>, {3}), [Source("rtl", <<2>>, {1, 4}) EXCEPT !.dpi = {2}], Source("rtl", <<5>>, {})},
          c \in {Source("rtl", <<3>>, {4}), Source("rtl", <<3, 5>>, {2}), Source("gone", <<>>, {})},
          d \in {Source("rtl", <<4>>, {}), Source("rtl", <<4>>, {6})},
          tops \in {<<>>, <<1>>, <<6, 2>>}, rank \in {<<0, 0, 0, 0, 0, 0>>, <<20, 110, 0, 0, 60, 0>>} :
        Take([cpuList |-> IF given = "cpu" THEN <<listed>> ELSE <<>>, soc |-> given = "soc",
              inputList |-> IF given = "input" THEN <<listed>> ELSE <<>>,
              origin |-> IF given = "origin" THEN <<listed[1]>> ELSE <<>>,
              generic |-> generic, tops |-> tops, rank |-> rank,
              local |-> <<"a.v", "b.sv", "c.v", "d.sv", "", "">>,
              files |-> [f \in {"a.v", "b.sv", "c.v", "d.sv", "t.sv"} |->
                CASE f = "a.v" -> a [] f = "b.sv" -> b [] f = "c.v" -> c [] f = "d.sv" -> d
                  [] OTHER -> Source("tracer", <<6>>, {})]])

Netlists ==
    /\ Open("netlists")
    /\ \E seq \in SUBSET {1, 4}, wires \in SUBSET ({1, 2} \X {2, 3, 4} \cup {3, 4} \X {1, 3, 4}) :
        Take([cells |-> 1..4, seq |-> seq, wires |-> wires])

Modules(fanouts, memories) ==
    [fanout : fanouts, fanin : {31, 32}, depth : {15, 16}, cycle : BOOLEAN, mux : {100, 200},
     arithmetic : {0, 20}, memory : memories, cells : {300}, wires : {0}, processes : {0}]

Populations ==
    /\ Open("populations")
    /\ \E one \in Modules({63, 64}, {0, 1}), two \in Short(Modules({63, 64}, {0})) : Take(<<one>> \o two)

Little == [fanout |-> 64, fanin |-> 8, depth |-> 4, cycle |-> FALSE, mux |-> 0, arithmetic |-> 0,
           memory |-> 0, cells |-> 9, wires |-> 9, processes |-> 1]

YosysRuns ==
    /\ Open("yosysruns")
    /\ \E diags \in UpTo([severity : {"error", "warning"},
                           category : {"tool-limit", "syntax", "hierarchy", "tooling"}], 2),
          phrases \in SUBSET {"loop", "drivers", "latch"},
          ends \in {"skipped", "unavailable", "unstartable", "timeout", "exit"}, rc \in 0..1,
          modules \in {<<>>, <<[Little EXCEPT !.fanout = 20]>>, <<Little>>, <<[Little EXCEPT !.depth = 32]>>,
                        <<[Little EXCEPT !.cycle = TRUE]>>} :
        \* Yosys writes the netlist last; without it an old one is read, if any.
        /\ ends # "exit" => rc = 1 /\ phrases = {} /\ modules = <<>>
        /\ ends \in {"skipped", "unavailable", "unstartable"} => diags = <<>>
        /\ rc = 0 => modules # <<>>
        /\ Take([diags |-> diags, phrases |-> phrases, ends |-> ends, rc |-> rc,
                 modules |-> modules, fresh |-> rc = 0])

ReportedIssues ==
    {[V!Issue(s, "timing", t) EXCEPT !.source = f, !.line = l] :
        s \in {"error", "info"}, t \in {"x"}, f \in {"cpu/a.v", "x/a.v", "y/a.v"}, l \in {1}}
    \cup {V!Normalized(V!Issue("warning", c, "y")) : c \in {"tooling", "structural"}}

Followed ==
    [user : {"cpu", "design"}, key : {[s \in {"cpu/a.v", "x/a.v", "y/a.v"} |-> IF s = "cpu/a.v" THEN s ELSE "a.v"]},
     owner : [{"cpu/a.v", "x/a.v", "y/a.v"} -> {"cpu", "design", "soc", "unknown"}]]

IssueReports ==
    /\ Open("issuereports")
    /\ \E now \in Pairs(ReportedIssues), before \in Short(ReportedIssues),
          w \in {x \in Followed : x.owner["x/a.v"] = "soc" /\ x.owner["y/a.v"] # "design"} :
       \E waivers \in SUBSET {V!Fingerprint(now[i], w) : i \in DOMAIN now} :
        Take([now |-> now, w |-> w, waivers |-> waivers,
              before |-> [i \in DOMAIN before |-> V!Decorated(before[i], w)]])

-----------------------------------------------------------------------------
(* Workspaces: requests for four files into a directory that is fresh or was *)
(* in use, simulation defaults of two SoCs, and test suites.                 *)

W == INSTANCE WorkspaceSetup

Requests ==
    /\ Open("requests")
    /\ \E kind \in {"cpu_core", "generic_rtl"}, rtlList \in Pairs({"a.v", "h.vh", "x.txt", "gone.v"}),
          from \in Short({"a.v", "h.vh", "gone.v"}), list \in {<<>>, <<<<"a.v", "b.v">>>>, <<<<"h.vh">>>>, <<<<"gone.v">>>>},
          cpuRtl \in Pairs({"a.v", "h.vh", "x.txt"}), cpuList \in {<<>>, <<<<"b.v", "a.v">>>>},
          top \in {"identifier", "other", ""}, fields \in BOOLEAN, used \in BOOLEAN :
        /\ kind = "cpu_core" => rtlList = <<>> /\ from = <<>> /\ list = <<>>
        /\ kind = "generic_rtl" => Len(cpuRtl) < 2
        \* A header alone is no CPU: the catalog asks for its top module.
        /\ kind = "cpu_core" => cpuRtl \notin {<<"h.vh">>, <<"h.vh", "h.vh">>}
        /\ Take([r |-> [kind |-> kind, rtlList |-> rtlList, origin |-> from, filelist |-> list, cpuRtl |-> cpuRtl,
                        cpuList |-> cpuList, top |-> top, cpuFields |-> fields],
                 disk |-> [f \in {"a.v", "b.v", "h.vh", "x.txt", "gone.v", "soc.v"} |->
                    CASE f = "h.vh" -> "header" [] f = "x.txt" -> "other" [] f = "gone.v" -> "absent"
                      [] OTHER -> "unit"],
                 origin |-> IF used THEN [lists |-> <<<<"b.v">>>>, rtl |-> <<"b.v">>]
                            ELSE [lists |-> <<>>, rtl |-> <<>>]])

CppSource == [root : {"soc", "old", "user"}, name : {"main.cpp", "difftest.cpp", "difftest_stub.cpp"}]

Defaults ==
    /\ Open("defaults")
    /\ \E name \in {"", "old", "soc"}, path \in {"", "old", "soc", "user"},
          flags \in Pairs({"old", "soc", "user"}), sources \in Pairs(CppSource),
          cpu \in BOOLEAN, says \in BOOLEAN, socSays \in BOOLEAN, socFlags \in {<<>>, <<"soc">>} :
        Take([w |-> [name |-> name, path |-> path, flags |-> flags, sources |-> sources,
                     cpuSupports |-> cpu, socSupports |-> says],
              soc |-> [name |-> "soc", path |-> "soc", flags |-> socFlags, socSupports |-> socSays,
                       sources |-> <<[root |-> "soc", name |-> "main.cpp"],
                                     [root |-> "soc", name |-> "difftest.cpp"]>>]])

SuiteFields(cores, socs, ids, socIds) ==
    [core : cores, soc : socs, hasCore : BOOLEAN, hasSoc : BOOLEAN, coreId : ids, socId : socIds]

SuiteContracts ==
    /\ Open("suitecontracts")
    /\ \E w \in SuiteFields(SUBSET W!AllSuites, SUBSET W!AllSuites,
                            {"darkriscv", "cva6", "picorv32", "", "other"}, {"ysyx-am-soc", "other"}) :
        /\ (w.core # {} => w.hasCore) /\ (w.soc # {} => w.hasSoc)
        /\ Take(w)

ChosenSuites == {<<"coremark", "selected", <<>>>>, <<"smoke", "all", <<>>>>}
                \cup {<<"cpu-tests", m, c>> : m \in {"selected", "all"}, c \in Pairs({"add", "sub", "coremark"})}

AppliedSuites ==
    /\ Open("appliedsuites")
    /\ \E core \in {W!AllSuites, {"cpu-tests"}, {"coremark"}}, cpu \in BOOLEAN, root \in BOOLEAN, diff \in BOOLEAN,
          programs \in {<<>>, <<<<>>>>, <<<<"add", "coremark">>>>, <<<<"coremark", "mul", "sub">>>>},
          first \in ChosenSuites, second \in ChosenSuites, names \in {<<>>, <<"mul">>} :
        Take([w |-> [core |-> core, soc |-> W!AllSuites, hasCore |-> TRUE, hasSoc |-> TRUE, coreId |-> "cva6",
                     socId |-> "ysyx-am-soc", programs |-> programs, cpuSupports |-> cpu, socSupports |-> TRUE,
                     root |-> root, coremarkDiff |-> diff, allTests |-> TRUE, images |-> <<>>, all |-> FALSE,
                     names |-> names, args |-> [cycles |-> "", diff |-> "no"], compiled |-> ""],
              first |-> first, second |-> second])

-----------------------------------------------------------------------------

(* Projects: a project that is also reached by a link, its runs and template    *)
(* where they are or behind links, one run of every kind, and a workspace outside. *)

Run == INSTANCE ProjectRuns

EmptyTree == [q \in {} |-> Run!Node("dir")]

Ids == {<<>>} \cup {<<[spelled |-> s[1], names |-> s[2]]>> :
    s \in {<<"bare", <<>>>>, <<"bare", <<"default">>>>, <<"bare", <<"x">>>>, <<"bare", <<"..">>>>, <<"bare", <<".">>>>,
           <<"relative", <<"runs", "x">>>>, <<"relative", <<"..", "o", "w">>>>, <<"relative", <<".ecc-fe">>>>,
           <<"relative", <<".ecc-fe", "template">>>>, <<"relative", <<".ecc-fe", "template", "home">>>>,
           <<"relative", <<"runs", "x", "y">>>>, <<"relative", <<"runs", "x", "y", "z">>>>, <<"absolute", <<"o", "w">>>>,
           <<"absolute", <<"o">>>>, <<"absolute", <<"o", "t">>>>, <<"absolute", <<"p">>>>, <<"absolute", <<"p", "runs">>>>,
           <<"absolute", <<"l">>>>, <<"absolute", <<"l", "runs", "x">>>>, <<"absolute", <<"p", "runs", "x">>>>}}

WorkspaceAt(path) == path :> Run!Node("dir") @@ Append(path, "home") :> Run!Node("home")
LinkAt(path, to) == path :> [kind |-> "link", to |-> to]
DirAt(path) == path :> Run!Node("dir")

RunsAt == {DirAt(<<"p", "runs">>), LinkAt(<<"p", "runs">>, <<"o">>), EmptyTree}
TemplatesAt == {DirAt(<<"p", ".ecc-fe">>) @@ t : t \in {WorkspaceAt(<<"p", ".ecc-fe", "template">>),
    DirAt(<<"p", ".ecc-fe", "template">>), LinkAt(<<"p", ".ecc-fe", "template">>, <<"o", "t">>)}} \cup {EmptyTree}
OneRun(at) == {EmptyTree, DirAt(at), WorkspaceAt(at), DirAt(at) @@ DirAt(Append(at, "y")), at :> Run!Node("file"),
               LinkAt(at, <<"o", "w">>), DirAt(at) @@ LinkAt(Append(at, "home"), <<"o", "w", "home">>)}

Trees ==
    UNION {{DirAt(<<"p">>) @@ DirAt(<<"o">>) @@ LinkAt(<<"l">>, <<"p">>) @@ WorkspaceAt(<<"o", "w">>)
            @@ runs @@ template @@ (IF outside THEN WorkspaceAt(<<"o", "t">>) ELSE EmptyTree) @@ run :
        template \in TemplatesAt, outside \in BOOLEAN,
        run \in IF runs = EmptyTree THEN {EmptyTree}
                ELSE OneRun(IF runs = DirAt(<<"p", "runs">>) THEN <<"p", "runs", "x">> ELSE <<"o", "x">>)} : runs \in RunsAt}

ProjectRunsOf ==
    /\ Open("projectruns")
    /\ \E fs \in Trees, project \in {<<"p">>, <<"l">>}, id \in Ids, overwrite \in BOOLEAN,
          fault \in {"none", "copy"} :
        Take([fs |-> fs, project |-> project, run |-> Run!RunDir(project, id), overwrite |-> overwrite, fault |-> fault])

Targets ==
    /\ Open("targets")
    /\ \E template \in BOOLEAN, here \in BOOLEAN, workspace \in Short({<<"o", "w">>, <<"l">>}),
          project \in Short({<<"p">>, <<"l">>, <<"o", "w">>}), id \in Ids,
          config \in {<<>>} \cup {<<[flow |-> flow, run |-> run]>> : flow \in BOOLEAN, run \in Ids} :
        /\ config # <<>> /\ ~config[1].flow => config[1].run = <<>>
        /\ Take([i |-> [workspace |-> workspace, project |-> project, id |-> id], config |-> config,
                 fs |-> DirAt(<<"p">>) @@ LinkAt(<<"l">>, <<"p">>) @@ DirAt(<<"o">>) @@ WorkspaceAt(<<"o", "w">>)
                        @@ (IF here THEN <<"p", "home">> :> Run!Node("home") ELSE EmptyTree)
                        @@ (IF template THEN WorkspaceAt(<<"p", ".ecc-fe", "template">>) ELSE EmptyTree)])

-----------------------------------------------------------------------------

Subjects == {"filelists", "conditionals", "interfaces", "tops", "configurations", "catalogchecks",
             "userlists", "manifests", "selections",
             "simulatedcases", "namedimages", "simulatedruns", "drivers", "simulationsteps",
             "programsets",
             "reports", "elaborations", "lints",
             "reviewedsources", "netlists", "populations", "yosysruns", "issuereports",
             "requests", "defaults", "suitecontracts", "appliedsuites", "projectruns", "targets"}

Init == subject \in Subjects /\ input = <<>>
Next == \/ Filelists \/ Conditionals \/ Interfaces \/ Tops
        \/ Configurations \/ CatalogChecks \/ UserLists \/ Manifests \/ Selections
        \/ SimulatedCases \/ NamedImages \/ SimulatedRuns \/ Drivers \/ SimulationSteps
        \/ ProgramSets
        \/ Reports \/ Elaborations \/ Lints
        \/ ReviewSourcesOf \/ Netlists \/ Populations \/ YosysRuns \/ IssueReports
        \/ Requests \/ Defaults \/ SuiteContracts \/ AppliedSuites \/ ProjectRunsOf \/ Targets
Spec == Init /\ [][Next]_vars

Holds(name, property) == subject = name /\ input # <<>> => property

\* See RtlInputs and TopContract: what prepare collects, watches and accepts.
InputsAreFoundAndWatched ==
    /\ Holds("filelists", /\ CollectsWhatIsNamed(input[1])
                          /\ WatchesWhatItReads(input[1]))
    /\ Holds("conditionals", ConditionalsAreResolved(input[1], {}))
    /\ Holds("interfaces", StyleDoesNotMatter(input[1]))
    /\ Holds("tops", PassMeansSameInterface(input[1]))

\* See CatalogRules: what the catalog offers, accepts and reads back.
CatalogIsConsistent ==
    /\ Holds("configurations", MatrixMeansCreatable(input[1], SuiteTable,
                [EmptyProject EXCEPT !.cpu = "cpu.f", !.entries["cpu.f"] = <<Line("rtl", "a.v")>>]
                    @@ [defines |-> [f \in Paths |-> TRUE], ports |-> [f \in Paths |-> <<>>]]))
    /\ Holds("catalogchecks", CheckedEntriesFit(input[1].core, input[1].soc, SuiteTable))
    /\ Holds("userlists", WhatIsValidatedIsPrepared(input[1].core, input[1].project))
    /\ Holds("manifests", LastManifestCounts(input[1].builtin, input[1].manifests))
    /\ Holds("selections", GeneratedListIsReadBack(EmptyProject, "cpu.f", input[1].sources,
                                                   input[1].adapters, input[1].enable))

\* See SimulationRules: how a run of the simulation step is judged.
SimulationIsJudgedAlike ==
    /\ Holds("simulatedcases", S!VerdictFitsTermination(input[1].coremark, input[1].args, input[1].out))
    /\ Holds("namedimages", S!NamesAreDistinct(input[1]))
    /\ Holds("simulatedruns", S!ScoreIsEarned(S!Previous(input[1].runs, "cpu_tests"), input[1].cases))
    /\ Holds("programsets", S!ProgramsAreRun(input[1]))
    /\ Holds("drivers", S!DriverFitsArguments(input[1]))
    /\ Holds("simulationsteps", S!RunIsJudgedAlike(input[1], input[1].cases))

\* See ReportRules: the step, its report, its gates and its score.
ReportsAreJudgedAlike ==
    /\ Holds("reports", Q!PrepareIsScoredFairly(input[1], input[1].counts))
    /\ Holds("elaborations", Q!ElabVerdictsAgree(input[1].run, input[1].scanned, "top"))
    /\ Holds("lints", Q!LintVerdictsAgree(input[1].run, [s \in {"cpu.v", "soc.v"} |->
                        IF s = "soc.v" THEN "soc" ELSE input[1].user], input[1].user))

\* See ReviewRules: what is reviewed, what yosys finds and what becomes of issues.
ReviewIsJudgedAlike ==
    /\ Holds("reviewedsources", \A limits \in Cuts : V!SourcesAreReviewed(input[1], limits))
    /\ Holds("netlists", V!GraphIsMeasured(input[1]))
    /\ Holds("populations", \A limits \in Cuts : V!RisksAreIssues(input[1], limits))
    /\ Holds("yosysruns", V!PrecheckVerdictsAgree(input[1]))
    /\ Holds("issuereports", V!IssuesAreFollowed(input[1].now, input[1].before, input[1].waivers, input[1].w))

\* See WorkspaceSetup and ProjectRuns: the inputs, the defaults, the programs and
\* the directory of a workspace.
WorkspaceIsSetUp ==
    /\ Holds("requests", W!RequestedIsPrepared(input[1].r, input[1].disk, input[1].origin, <<"soc.v">>))
    /\ Holds("defaults", W!RepairSettles(input[1].w, input[1].soc))
    /\ Holds("suitecontracts", W!SuitesNeverWiden(input[1]))
    /\ Holds("appliedsuites", W!LastSuiteCounts(input[1].w, input[1].first, input[1].second))
    /\ Holds("projectruns", Run!RunsReplaceRunsOnly(input[1].fs, input[1].project, input[1].run,
                                                    input[1].overwrite, input[1].fault))
    /\ Holds("targets", Run!SuggestionsKeepTheTarget(input[1].fs, <<"p">>, input[1].i, input[1].config))
=============================================================================
