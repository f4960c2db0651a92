--------------------------- MODULE SimulationRules ---------------------------
(***************************************************************************)
(* The simulation step (tools/verilator/runner.py) and what analysis/qor.py*)
(* makes of its report.  The output of a simulator is the set of the       *)
(* markers the step looks for; an image is [stem, sha], a stem a sequence, *)
(* so that a numbered name is the stem with its number behind it.          *)
(***************************************************************************)
EXTENDS Integers, Sequences, FiniteSets, SequencesExt, FiniteSetsExt

NoCount == -1                   \* the simulator has printed no cycle count

Once(seq) == FoldLeft(LAMBDA out, x : IF Contains(out, x) THEN out ELSE Append(out, x), <<>>, seq)

-----------------------------------------------------------------------------
(* Difftest: is it possible, and what is passed on if it is not. *)

\* _sim_difftest_supported; what the workspace says of core and SoC is "yes", "no"
\* or, if it has no such key, "".
DifftestSupported(w) ==
    /\ w.cpu # "unsupported"
    /\ ~(w.cpu = "custom" /\ w.cpuSupports = "")
    /\ "no" \notin {w.cpuSupports, w.socSupports}

ValueOptions == {"--ref", "--diff-image-offset", "--diff-reset-vector"}

\* _strip_difftest_args: out is what is kept, skip says that a value is due.
StripArgs(args) ==
    FoldLeft(LAMBDA st, a :
        CASE st.skip -> [st EXCEPT !.skip = FALSE]
          [] ~st.skip /\ a = "--diff" -> st
          [] ~st.skip /\ a \in ValueOptions -> [st EXCEPT !.skip = TRUE]
          [] OTHER -> [st EXCEPT !.out = Append(@, a)],
        [out |-> <<>>, skip |-> FALSE], args).out

RunArgs(w) == IF DifftestSupported(w) THEN w.args ELSE StripArgs(w.args)

\* sim_cpp_sources: the test bench first, each file once, and the difftest
\* driver or its stub in the place of either of them.
CppSources(w) ==
    LET driver == IF DifftestSupported(w) THEN "difftest.cpp" ELSE "difftest_stub.cpp"
        adapted(s) == IF s \in {"difftest.cpp", "difftest_stub.cpp"} THEN driver ELSE s
        all == (IF w.testbench = "" THEN <<>> ELSE <<w.testbench>>) \o w.sources
    IN Once([i \in DOMAIN all |-> adapted(all[i])])

-----------------------------------------------------------------------------
(* The programs of a run; a program is [dir, stem], a path without ".c".    *)

\* _program_sources_to_build: those that are given, all but the benchmarks of the
\* suite's directory, and those that are named in it.
Programs(w) ==
    Once(w.given
         \o (IF w.all THEN SelectSeq(w.directory, LAMBDA p : p.stem \notin w.benchmarks) ELSE <<>>)
         \o [i \in DOMAIN w.names |-> [dir |-> "programs", stem |-> w.names[i]]])

\* _sim_images: the images that are listed and those of the tests directory.
ListedImages(w) == Once(w.images \o (IF w.allTests THEN w.tests ELSE <<>>))

\* _prepare_sim_images: ok, and the images, each with the program it was built
\* from last; builds is the set of programs that compile.
Prepared(w) ==
    LET programs == Programs(w)
        compiled == SelectSeq(programs, LAMBDA p : p \in w.builds)
        stems == Once([i \in DOMAIN compiled |-> compiled[i].stem])
    IN CASE programs = <<>> -> [ok |-> TRUE, images |-> ListedImages(w)]
         [] programs # <<>> /\ ~w.script -> [ok |-> FALSE, images |-> <<>>]
         [] OTHER -> [ok |-> compiled = programs,
                      images |-> [i \in DOMAIN stems |->
                         [stem |-> <<stems[i]>>, sha |-> compiled[Max(
                            {j \in DOMAIN compiled : compiled[j].stem = stems[i]})]]]]

-----------------------------------------------------------------------------
(* The cases of a run. *)

\* _sim_cases_from_images: the second image of a stem is numbered 2.
CaseName(images, i) ==
    LET before == Cardinality({j \in 1..i - 1 : images[j].stem = images[i].stem})
    IN IF before = 0 THEN images[i].stem ELSE Append(images[i].stem, before + 1)

\* _effective_sim_cases: without images, one run of the binary as it is.
Cases(images) ==
    IF images = <<>> THEN <<[name |-> <<"default">>, sha |-> ""]>>
    ELSE [i \in DOMAIN images |-> [name |-> CaseName(images, i), sha |-> images[i].sha]]

\* driver/main.cpp: what the simulator of the repository's SoC prints and returns
\* when its run ends with a trap, at the cycle limit or by $finish.
Simulator(args, run) ==
    LET diff == "--diff" \in args
        complete == diff => run.compared
        checked == run.ending \in {"good", "finish"}
    IN [rc |-> CASE run.ending = "bad" -> 1
                 [] run.ending = "limit" -> IF "--timeout-ok" \in args THEN 0 ELSE 1
                 [] OTHER -> IF complete THEN 0 ELSE 1,
        text |-> run.prints
                 \cup (IF diff THEN {"enabled"} ELSE {})
                 \cup (IF diff /\ run.mismatch THEN {"mismatch"} ELSE {})
                 \cup (IF diff /\ checked /\ run.compared THEN {"passed"} ELSE {})
                 \cup (IF run.ending = "finish" \/ (checked /\ ~complete) THEN {} ELSE {run.ending})]

\* _sim_output_ok and the CoreMark part of _case_output_ok.
OutputOk(coremark, out) ==
    /\ out.rc = 0 /\ "%Error" \notin out.text
    /\ IF coremark THEN "validated" \in out.text /\ "errors" \notin out.text
       ELSE "good" \in out.text /\ out.text \cap {"bad", "FAILED", "limit"} = {}

\* Mutant of CaseOk: a case that asked for difftest may pass without it.
CaseOkWithoutDifftest(coremark, args, out) == OutputOk(coremark, out)

CaseOk(coremark, args, out) ==
    OutputOk(coremark, out) /\ ("--diff" \in args => "passed" \in out.text)

\* _sim_case_metrics.
Metrics(args, out, ok) ==
    LET enabled == "--diff" \in args \/ "enabled" \in out.text
        passed == "passed" \in out.text
        has(marker) == marker \in out.text
    IN [enabled |-> enabled,
        termination |->
            CASE has("mismatch") -> "difftest_mismatch"
              [] ~has("mismatch") /\ enabled /\ ~passed /\ out.rc = 0 /\ has("good") ->
                    "difftest_incomplete"
              [] OTHER -> CASE has("bad") -> "bad_trap"
                            [] ~has("bad") /\ has("limit") -> "timeout"
                            [] ~has("bad") /\ ~has("limit") /\ out.rc # 0 -> "process_error"
                            [] OTHER -> IF has("good") \/ ok THEN "good_trap" ELSE "unknown",
        difftest |-> CASE has("mismatch") -> "mismatch"
                       [] ~has("mismatch") /\ ~enabled -> "disabled"
                       [] OTHER -> IF ok /\ passed THEN "passed" ELSE "incomplete",
        accepted |-> has("limit") /\ "--timeout-ok" \in args]

\* _simulation_failure: the kind under which a failed case is shown.
FailureKind(coremark, termination) ==
    IF termination \in {"good_trap", "unknown"}
    THEN IF coremark THEN "validation_failed" ELSE "simulation_failed" ELSE termination

\* What cases.json says of one case.
CaseReport(coremark, args, out, case) ==
    LET ok == CaseOk(coremark, args, out)
        m == Metrics(args, out, ok)
        result == [ok |-> ok, rc |-> out.rc, log |-> TRUE, enabled |-> m.enabled,
                   termination |-> m.termination, difftest |-> m.difftest, accepted |-> m.accepted]
    IN [f \in DOMAIN case \cup DOMAIN result |-> IF f \in DOMAIN case THEN case[f] ELSE result[f]]

-----------------------------------------------------------------------------
(* A run against the run before. *)

CaseNamed(cases, n) ==           \* the last of them, as in a dict built in order
    LET at == {i \in DOMAIN cases : cases[i].name = n} IN cases[Max(at)]

NamesOf(cases) == {cases[i].name : i \in DOMAIN cases}

\* _previous_simulation_run: the cases of the latest run of the suite that has a
\* readable cases.json, which a run gets when it ends.  runs is the latest first.
Previous(runs, suite) ==
    LET fit == {i \in DOMAIN runs : runs[i].ended /\ runs[i].suite = suite}
    IN IF fit = {} THEN <<>> ELSE runs[Min(fit)].cases

\* Mutant of Regression: a failed case that is new is left out.
RegressionOfKnown(previous, cases) ==
    LET was == NamesOf(previous)
        failing(cs) == {n \in NamesOf(cs) : ~CaseNamed(cs, n).ok}
    IN [baseline |-> previous # <<>>,
        new |-> (failing(cases) \cap was) \ failing(previous),
        persistent |-> failing(cases) \cap failing(previous),
        fixed |-> (failing(previous) \cap NamesOf(cases)) \ failing(cases),
        added |-> NamesOf(cases) \ was, removed |-> was \ NamesOf(cases), cycles |-> {}]

\* _simulation_regression; previous is <<>> if there was no run of the suite.
Regression(previous, cases) ==
    LET is == NamesOf(cases)
        was == NamesOf(previous)
        failing(cs) == {n \in NamesOf(cs) : ~CaseNamed(cs, n).ok}
        comparable == {n \in is \cap was :
            LET now == CaseNamed(cases, n) old == CaseNamed(previous, n)
            IN now.sha # "" /\ now.sha = old.sha /\ NoCount \notin {now.cycles, old.cycles}}
    IN IF previous = <<>>
       THEN [baseline |-> FALSE, new |-> {}, persistent |-> {}, fixed |-> {}, added |-> {},
             removed |-> {}, cycles |-> {}]
       ELSE [baseline |-> TRUE,
             new |-> failing(cases) \ failing(previous),
             persistent |-> failing(cases) \cap failing(previous),
             fixed |-> (is \cap failing(previous)) \ failing(cases),
             added |-> is \ was, removed |-> was \ is,
             cycles |-> {[name |-> n, previous |-> CaseNamed(previous, n).cycles,
                          current |-> CaseNamed(cases, n).cycles] : n \in comparable}]

-----------------------------------------------------------------------------
(* The step: compile, simulate, report; what check_result says of it. *)

\* _run_compile: the sub-step's state.
Compiled(w) ==
    \/ w.reuse /\ w.binary
    \/ CppSources(w) # <<>> /\ ToSet(CppSources(w)) \cap w.absent = {} /\ w.verilator = 0

\* _run_simulate: the cases of cases.json, none if there is nothing to run or
\* a program could not be built.
Reported(w, cases) ==
    IF Compiled(w) /\ (w.reuse \/ w.binary) /\ w.built THEN cases ELSE <<>>

\* check_result, with the logs that are still there.
CheckResult(w, cases) ==
    /\ Compiled(w)
    /\ Reported(w, cases) # <<>>
    /\ \A i \in DOMAIN Reported(w, cases) : cases[i].ok /\ cases[i].log

\* _write_report: what sim.rpt says.
ReportSaysPass(w, cases) ==
    LET reported == Reported(w, cases)
    IN Compiled(w) /\ reported # <<>> /\ \A i \in DOMAIN reported : reported[i].ok

\* run: the state of the simulate sub-step.
SimulateSubstep(w, cases) ==
    LET reported == Reported(w, cases)
    IN reported # <<>> /\ \A i \in DOMAIN reported : reported[i].ok

-----------------------------------------------------------------------------
(* analysis/qor.py: gates and score. *)

EnabledCases(cases) == {i \in DOMAIN cases : cases[i].enabled}

\* _sim_qor: the gates that fail; without cases the report is no evidence.
FailedGates(cases) ==
    {g \in {"cases_pass", "cases_present", "difftest"} :
        CASE g = "cases_pass" -> \E i \in DOMAIN cases : ~cases[i].ok
          [] g = "cases_present" -> cases = <<>>
          [] g = "difftest" -> \E i \in EnabledCases(cases) : cases[i].difftest # "passed"}

\* _valid_scored_sim_case and _valid_sim_regression.
Scorable(cases, r) ==
    LET failed == {n \in NamesOf(cases) : ~CaseNamed(cases, n).ok}
    IN /\ cases # <<>> /\ Cardinality(NamesOf(cases)) = Len(cases)
       /\ \A i \in DOMAIN cases :
            LET c == cases[i] IN
            /\ c.ok => c.rc = 0 /\ c.termination = "good_trap"
            /\ \/ ~c.enabled /\ c.difftest = "disabled"
               \/ c.enabled /\ c.difftest \in (IF c.ok THEN {"passed"} ELSE {"incomplete", "mismatch"})
       /\ r.baseline => r.new \cup r.persistent = failed /\ r.new \cap r.persistent = {}
       /\ r.fixed \cap failed = {} /\ r.fixed \cup r.added \subseteq NamesOf(cases)
       /\ \A c \in r.cycles : c.current = CaseNamed(cases, c.name).cycles
       /\ ~r.baseline => r.new \cup r.persistent \cup r.fixed \cup r.added \cup r.removed = {}

\* Tenths of a point: round(10 * n / d), half to even.
Rounded(n, d) ==
    LET q == (10 * n) \div d
        twice == 2 * ((10 * n) % d)
    IN IF twice > d \/ (twice = d /\ q % 2 = 1) THEN q + 1 ELSE q

\* _simulation_score, in tenths of a point, by component.
Score(cases, r) ==
    LET total == Len(cases)
        passed == Cardinality({i \in DOMAIN cases : cases[i].ok})
        measured == Cardinality({i \in DOMAIN cases : cases[i].ok /\ cases[i].cycles # NoCount})
        matched == {i \in EnabledCases(cases) : cases[i].difftest = "passed"}
        known == r.new \cup r.persistent \cup r.fixed \cup r.added
        comparable == {c \in r.cycles : c.name \notin known /\ c.previous # 0}
        eligible == {i \in DOMAIN cases : cases[i].ok /\ cases[i].name \notin known}
        \* 5 points less half a point for each percent that c has become slower, of
        \* the part of the cases that can be compared.
        steady(c) == Rounded(Max({0, 5 * c.previous - 50 * Max({0, c.current - c.previous})})
                                * Cardinality(comparable), c.previous * Cardinality(eligible))
    IN [cases |-> Rounded(50 * passed, total),
        difftest |-> IF EnabledCases(cases) = {} THEN Rounded(10 * passed, total)
                     ELSE Rounded(20 * Cardinality(matched), Cardinality(EnabledCases(cases))),
        telemetry |-> Rounded(15 * measured, total),
        regression |-> CASE r.baseline -> IF r.new \cup r.removed = {} THEN 100 ELSE 0
                         [] OTHER -> IF passed = total THEN 50 ELSE 0,
        cycles |-> CASE r.baseline /\ comparable # {} -> Min({steady(c) : c \in comparable})
                     [] r.baseline /\ comparable = {} -> 0
                     [] OTHER -> IF passed = total /\ measured = total THEN 25 ELSE 0]

Points(score) == MapThenSumSet(LAMBDA f : score[f], DOMAIN score)

-----------------------------------------------------------------------------
(* Properties. *)

\* runner.py:1965.  What a case is accepted for and what is said of how it ended
\* do not contradict one another: a program of the CPU tests that is accepted has
\* hit the good trap and, if difftest was asked for, has been compared; CoreMark
\* may also be accepted at the cycle limit, if that was asked for.  And a case
\* that is not accepted is given a failure that is not a success.
VerdictFitsTermination(coremark, args, out) ==
    LET ok == CaseOk(coremark, args, out)
        m == Metrics(args, out, ok)
    IN /\ ok => m.difftest = (IF "--diff" \in args THEN "passed" ELSE "disabled")
       /\ ok => m.termination = "good_trap" \/ (coremark /\ m.accepted)
       /\ ~ok => FailureKind(coremark, m.termination) \notin {"good_trap", "unknown"}
       /\ ~coremark /\ m.termination = "good_trap" /\ ~ok => "FAILED" \in out.text \/ "%Error" \in out.text

\* runner.py:1736, qor.py:1266.  The flow (check_result), the step's report, its
\* sub-step and the quality gates all come to the same verdict.
RunIsJudgedAlike(w, cases) ==
    LET verdict == CheckResult(w, cases)
    IN /\ ReportSaysPass(w, cases) = verdict
       /\ SimulateSubstep(w, cases) = verdict
       /\ (FailedGates(Reported(w, cases)) = {}) = verdict

\* qor.py:1489.  A run whose names are distinct is scored, within bounds, and all
\* points mean that all cases have passed, were compared and were measured, and
\* none of the cases that passed in the run before is gone, or slower by more than
\* the rounding to tenths hides, a thousandth of its cycles.  (In a suite of 100
\* cases or more it hides a case that cannot be compared as well.)
ScoreIsEarned(previous, cases) ==
    LET r == Regression(previous, cases)
        points == Points(Score(cases, r))
        names == NamesOf(cases)
    IN Cardinality(names) = Len(cases) =>
        /\ Scorable(cases, r)
        /\ points \in 0..1000
        /\ points = 1000 /\ Len(cases) < 100 =>
             /\ FailedGates(cases) = {} /\ EnabledCases(cases) = DOMAIN cases
             /\ NamesOf(previous) # {} /\ NamesOf(previous) \subseteq names
             /\ \A n \in NamesOf(previous) :
                    CaseNamed(previous, n).ok =>
                        1000 * (CaseNamed(cases, n).cycles - CaseNamed(previous, n).cycles)
                            <= CaseNamed(previous, n).cycles

\* runner.py:397.  Distinct stems give distinct names, and so do repeated ones as
\* long as no stem looks like a numbered one.
NamesAreDistinct(images) ==
    LET stems == {images[i].stem : i \in DOMAIN images}
        numbered == {Append(s, k) : s \in stems, k \in 2..Len(images)}
    IN stems \cap numbered = {} => Cardinality(NamesOf(Cases(images))) = Len(Cases(images))

\* runner.py:1194.  A run whose programs were built has a case for each program
\* with its own stem, and never one for a program that nobody selected; of two
\* programs with one stem only the one that was built last is run.
ProgramsAreRun(w) ==
    LET p == Prepared(w)
        programs == ToSet(Programs(w))
        run == {p.images[i].sha : i \in DOMAIN p.images}
    IN programs # {} =>
        /\ run \subseteq programs
        /\ Cardinality(run) = Len(p.images)
        /\ p.ok => {q.stem : q \in run} = {q.stem : q \in programs}
        /\ p.ok => \A q \in programs : (\A r \in programs \ {q} : r.stem # q.stem) => q \in run
        /\ p.images # <<>> /\ p.ok => Len(Cases(p.images)) = Len(p.images)

\* runner.py:150.  The driver that is compiled in is the one the arguments are
\* for, whatever the workspace lists, and it is linked once.
DriverFitsArguments(w) ==
    LET sources == ToSet(CppSources(w))
        drivers == sources \cap {"difftest.cpp", "difftest_stub.cpp"}
    IN /\ Cardinality(drivers) <= 1 /\ Len(CppSources(w)) = Cardinality(sources)
       /\ DifftestSupported(w) => RunArgs(w) = w.args /\ drivers \subseteq {"difftest.cpp"}
       /\ ~DifftestSupported(w) => /\ ToSet(RunArgs(w)) \cap ({"--diff"} \cup ValueOptions) = {}
                                   /\ drivers \subseteq {"difftest_stub.cpp"}
=============================================================================
