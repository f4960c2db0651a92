----------------------------- MODULE ReviewRules -----------------------------
(***************************************************************************)
(* The review step: which sources it reads and which top module it takes   *)
(* (tools/review/structural_probe.py), what it makes of a run of yosys and *)
(* of the netlist, and how it counts issues from one run to the next       *)
(* (tools/review/analyzer.py).                                             *)
(***************************************************************************)
EXTENDS Integers, Sequences, FiniteSets, SequencesExt, FiniteSetsExt

LOCAL Sim == INSTANCE SimulationRules
LOCAL Rep == INSTANCE ReportRules

When(holds, x) == IF holds THEN <<x>> ELSE <<>>
Some(S) == CHOOSE x \in S : TRUE
MaxOr0(S) == Max(S \cup {0})

-----------------------------------------------------------------------------
(* Sources and top module.  p.files maps a file to the modules that it     *)
(* declares and instantiates and to what it is; p.local maps a module to   *)
(* the file of its name beside the sources, or to "".  Modules are numbers *)
(* in the order of their names.                                            *)

NoModule == 0

\* _candidate_rtl_files and _cpu_probe_inputs choose alike: the files of the list,
\* or the one source file; there is a choice only without a SoC.
Chosen(p) ==
    CASE p.cpuList # <<>> -> p.cpuList[1]
      [] p.cpuList = <<>> /\ p.soc -> <<>>
      [] p.cpuList = <<>> /\ ~p.soc /\ p.inputList # <<>> -> p.inputList[1]
      [] OTHER -> p.origin

\* _load_sources: those that are there and are RTL.
ReviewSources(p) == {f \in ToSet(Chosen(p)) : p.files[f].kind \in {"rtl", "tracer"}}

DeclaredIn(p, files) == UNION {ToSet(p.files[f].declares) : f \in files}
UsedIn(p, files) == UNION {p.files[f].uses : f \in files}

\* One round of _complete_missing_module_sources: by the names of the modules.
Completion(p, files, limit) ==
    LET sorted == SetToSortSeq(UsedIn(p, ToSet(files)) \ DeclaredIn(p, ToSet(files)), <)
        local == [i \in DOMAIN sorted |-> p.local[sorted[i]]]
        found(f, m) == f # "" /\ f \notin ToSet(files) /\ p.files[f].kind = "rtl"
                       /\ m \in ToSet(p.files[f].declares)
        fresh == SelectSeq([i \in DOMAIN sorted |-> <<local[i], sorted[i]>>], LAMBDA x : found(x[1], x[2]))
    IN files \o [i \in 1..Min({Len(fresh), limit}) |-> fresh[i][1]]

\* One source file is taken as it is.
Completed(p) == p.cpuList # <<>> \/ (~p.soc /\ p.inputList # <<>>)

\* How often a list is completed and by how many files at most; the length of the
\* lists of modules with a cycle, with a structure and with a risk.
Limits == [rounds |-> 4, files |-> 32, cycles |-> 20, structures |-> 40, risks |-> 12]

\* _parse_filelist: the sources without the tracers, completed.
ProbeSources(p, limits) ==
    LET listed == SelectSeq(Chosen(p), LAMBDA f : p.files[f].kind # "tracer")
        round[n \in 0..limits.rounds] ==
            IF n = 0 THEN listed
            ELSE LET before == round[n - 1]
                 IN Completion(p, before, limits.files - (Len(before) - Len(listed)))
    IN IF Completed(p) THEN round[limits.rounds]
       ELSE SelectSeq(Chosen(p), LAMBDA f : p.files[f].kind # "gone")

\* _module_declarations_from_inputs: each module at its first declaration.
Declarations(p, files) ==
    Sim!Once(FlattenSeq([i \in DOMAIN files |-> p.files[files[i]].declares]))

\* _infer_top_from_inputs: the last of the best among those that nobody
\* instantiates; p.rank is what the name of a module is worth as a top.
InferTop(p, files) ==
    LET declared == Declarations(p, files)
        used == UsedIn(p, ToSet(files))
        free == {i \in DOMAIN declared : declared[i] \notin used}
        from == IF free = {} THEN DOMAIN declared ELSE free
        best == {i \in from : \A j \in from : p.rank[declared[j]] <= p.rank[declared[i]]}
    IN IF declared = <<>> THEN NoModule ELSE declared[Max(best)]

\* _cpu_top: the first name that is declared, or any if no source is known.
TopOf(p, files) ==
    LET given == SelectSeq(p.tops, LAMBDA t : t \in DeclaredIn(p, ToSet(files)) \/ files = <<>>)
    IN CASE p.generic -> IF p.tops = <<>> THEN NoModule ELSE Last(p.tops)
         [] ~p.generic /\ given # <<>> -> Head(given)
         [] OTHER -> InferTop(p, files)

\* _dpi_blackbox_modules.
Blackboxes(p, files) == UNION {p.files[f].dpi : f \in ToSet(files)} \ {TopOf(p, files)}

-----------------------------------------------------------------------------
(* The netlist: g.cells are its cells, g.seq the sequential ones among     *)
(* them, g.wires the pairs of cells that one drives and the other reads.   *)

\* _module_graph_summary: Kahn's algorithm over the combinational cells; a wire from
\* a cell to itself is left out.
Graph(g) ==
    LET comb == g.cells \ g.seq
        edges == {e \in g.wires : e[1] \in comb /\ e[2] \in comb /\ e[1] # e[2]}
        start == [left |-> comb, depth |-> [c \in comb |-> 1]]
        ready(s) == {c \in s.left : \A e \in edges : e[2] = c => e[1] \notin s.left}
        visit(s) == LET c == Some(ready(s)) IN
            [left |-> s.left \ {c},
             depth |-> [d \in comb |-> IF <<c, d>> \in edges
                                       THEN Max({s.depth[d], s.depth[c] + 1}) ELSE s.depth[d]]]
        steps[n \in 0..Cardinality(comb)] ==
            IF n = 0 THEN start
            ELSE IF ready(steps[n - 1]) = {} THEN steps[n - 1] ELSE visit(steps[n - 1])
        end == steps[Cardinality(comb)]
    IN [cycle |-> end.left # {}, depth |-> MaxOr0({end.depth[c] : c \in comb})]

\* The chains of combinational cells, no cell twice.
Chains(g) ==
    LET comb == g.cells \ g.seq
    IN {s \in UNION {[1..n -> comb] : n \in 1..Cardinality(comb)} :
            /\ \A i, j \in DOMAIN s : s[i] = s[j] => i = j
            /\ \A i \in 1..Len(s) - 1 : <<s[i], s[i + 1]>> \in g.wires}

Threshold == [fanout |-> 64, fanin |-> 32, depth |-> 16]

\* The first n of the items in the order of what[i], largest first, a sequence of
\* numbers; equal ones keep their order.
FirstBy(items, what(_), n) ==
    LET larger(i, j) == \E k \in DOMAIN what(i) :
                            /\ what(i)[k] > what(j)[k]
                            /\ \A l \in 1..k - 1 : what(i)[l] = what(j)[l]
        before(i, j) == larger(i, j) \/ (what(i) = what(j) /\ i < j)
    IN {i \in items : Cardinality({j \in items : before(j, i)}) < n}

\* _structural_metrics_from_netlist: a module in the list of the bad ones, or else
\* the worst of all; the first modules that have a cycle and the deepest modules.
Structural(modules, limits) ==
    LET worst(f) == LET all == {modules[i][f] : i \in DOMAIN modules}
                        high == {v \in all : v >= Threshold[f]}
                    IN IF high # {} THEN Max(high) ELSE MaxOr0(all)
        size(i) == <<modules[i].depth, modules[i].fanout, modules[i].cells>>
    IN [fanout |-> worst("fanout"), fanin |-> worst("fanin"), depth |-> worst("depth"),
        cycles |-> FirstBy({i \in DOMAIN modules : modules[i].cycle}, LAMBDA i : <<>>, limits.cycles),
        structure |-> FirstBy(DOMAIN modules, size, limits.structures)]

Population == [cells |-> 2000, wires |-> 4000, mux |-> 200, arithmetic |-> 40, memory |-> 1,
               processes |-> 20]

\* _metrics_from_stat: a population over all modules.
Whole(modules, kind) == MapThenSumSet(LAMBDA i : modules[i][kind], DOMAIN modules)

\* _module_risk_reasons.
Reasons(m) == {k \in DOMAIN Population : m[k] >= Population[k]}
              \cup {f \in DOMAIN Threshold : m[f] >= Threshold[f]}
              \cup (IF m.cycle THEN {"cycle"} ELSE {})

\* What is known of a module when its risk is judged: nothing of its structure if it
\* was cut off the list of the deepest.
Known(modules, i, limits) ==
    IF i \in Structural(modules, limits).structure THEN modules[i]
    ELSE [modules[i] EXCEPT !.depth = 0, !.fanout = 0, !.fanin = 0, !.cycle = FALSE]

RiskScore(m) == m.cells + m.wires \div 2 + m.mux * 3 + m.arithmetic * 4 + m.memory * 5
                + m.processes * 12 + m.depth * 50 + m.fanout * 8 + m.fanin * 6

\* _module_risks_from_stat: the modules with the highest scores among those that
\* have a reason or a score of 100.
Risks(modules, limits) ==
    LET known(i) == Known(modules, i, limits)
        risky == {i \in DOMAIN modules : Reasons(known(i)) # {} \/ RiskScore(known(i)) >= 100}
    IN FirstBy(risky, LAMBDA i : <<RiskScore(known(i))>>, limits.risks)

-----------------------------------------------------------------------------
(* A run of yosys: how it starts and ends, the diagnostics and the phrases *)
(* of its log, and the modules in the netlist that lies in the report      *)
(* directory afterwards, which is an old one when yosys does not get there.*)

Blocking(d) == d.severity = "error" /\ d.category # "tool-limit"
SomeBlocks(diags) == \E i \in DOMAIN diags : Blocking(diags[i])

\* _only_tool_limit_errors.
ToolLimited(diags) ==
    /\ \E i \in DOMAIN diags : diags[i].severity = "error"
    /\ ~SomeBlocks(diags)

\* _quality_from_run.
GateOfRun(rc, diags) ==
    CASE SomeBlocks(diags) -> "failed"
      [] ~SomeBlocks(diags) /\ (rc # 0 \/ \E i \in DOMAIN diags : diags[i].severity = "warning") -> "warnings"
      [] OTHER -> "clean"

Issue(severity, category, title) ==
    [severity |-> severity, category |-> category, title |-> title, source |-> "", line |-> 0,
     origin |-> "source_heuristic", ownership |-> "cpu"]

\* _issues_from_probe.
IssuesOfProbe(run, m) ==
    LET categories == {run.diags[i].category : i \in DOMAIN run.diags}
        over(k) == Whole(run.modules, k) >= Population[k]
    IN  When(run.rc # 0, Issue(IF SomeBlocks(run.diags) THEN "error" ELSE "warning",
                               IF ToolLimited(run.diags) THEN "tooling" ELSE "structural", "not completed"))
        \o When("syntax" \in categories, Issue("error", "syntax", "syntax"))
        \o When("hierarchy" \in categories, Issue("error", "hierarchy", "hierarchy"))
        \o When("loop" \in run.phrases, Issue("error", "combinational", "loop"))
        \o When("drivers" \in run.phrases, Issue("error", "structural", "drivers"))
        \o When("undriven" \in run.phrases, Issue("warning", "structural", "undriven"))
        \o When("latch" \in run.phrases, Issue("warning", "combinational", "latch"))
        \o When(over("mux"), Issue("info", "timing", "mux"))
        \o When(over("memory"), Issue("info", "memory", "memory"))
        \o When(over("arithmetic"), Issue("info", "timing", "arithmetic"))
        \o When(m.fanout >= Threshold.fanout, Issue("warning", "fanout", "fanout"))
        \o When(m.fanin >= Threshold.fanin, Issue("warning", "fanin", "fanin"))
        \o When(m.depth >= Threshold.depth, Issue("warning", "timing", "depth"))
        \o When(m.cycles # {}, Issue("error", "combinational", "cycle"))

NoMetrics == [measured |-> FALSE]

\* run_structural_probe.
Probe(run) ==
    LET early(gate, diags, issues) ==
            [status |-> run.ends, gate |-> gate, diags |-> diags, issues |-> issues, metrics |-> NoMetrics]
        m == Structural(run.modules, Limits)
    IN CASE run.ends \in {"skipped", "unavailable"} -> early(run.ends, <<>>, <<>>)
         [] run.ends = "timeout" -> early("timeout", run.diags, <<Issue("warning", "tooling", "timeout")>>)
         [] run.ends = "unstartable" ->
                [early("failed", <<>>, <<Issue("warning", "tooling", "start")>>) EXCEPT !.status = "failed"]
         [] OTHER -> [status |-> CASE run.rc = 0 -> "success"
                                   [] run.rc # 0 /\ ToolLimited(run.diags) -> "tool_limited"
                                   [] OTHER -> "failed",
                      gate |-> GateOfRun(run.rc, run.diags), diags |-> run.diags,
                      issues |-> IssuesOfProbe(run, m), metrics |-> [measured |-> TRUE, m |-> m]]

\* _review_is_blocked_by_yosys_precheck, in the runner.
Blocked(probe) ==
    /\ probe.status \notin {"unavailable", "skipped"}
    /\ \/ probe.gate = "failed"
       \/ probe.status \in {"failed", "timeout"} /\ SomeBlocks(probe.diags)

\* Mutant of PrecheckState: the return code of yosys decides.
PrecheckStateByStatus(probe) ==
    CASE probe.status = "success" -> "pass"
      [] probe.status \in {"failed", "timeout"} /\ SomeBlocks(probe.diags) -> "failed"
      [] OTHER -> "incomplete"

\* _review_precheck_gate_state, in analysis/qor.py.
PrecheckState(probe) ==
    CASE probe.status \in {"unavailable", "skipped"} -> "incomplete"
      [] probe.status \notin {"unavailable", "skipped"} /\ probe.gate = "failed" -> "failed"
      [] probe.status \in {"failed", "timeout"} /\ probe.gate # "failed" /\ SomeBlocks(probe.diags) -> "failed"
      [] probe.status = "success" /\ probe.gate # "failed" -> "pass"
      [] OTHER -> "incomplete"

-----------------------------------------------------------------------------
(* Issues from one run to the next.  w.user is the ownership that counts,  *)
(* w.owner maps a source to its owner and w.key a source to what stands    *)
(* for it in a fingerprint.                                                *)

\* _normalize_probe_issue.
Normalized(i) == [i EXCEPT !.origin = "yosys_structural",
                           !.ownership = IF i.category \in {"tooling", "tool-limit"} THEN "tool" ELSE "cpu"]

\* merge_structural_probe.
Merged(issues, probe) == issues \o [i \in DOMAIN probe.issues |-> Normalized(probe.issues[i])]

\* _decorate_issue.
Decorated(i, w) ==
    [i EXCEPT !.ownership = CASE i.ownership = "tool" -> "tool"
                              [] i.ownership # "tool" /\ i.source # "" -> w.owner[i.source]
                              [] OTHER -> IF i.ownership = "cpu" THEN w.user ELSE i.ownership]

\* _issue_fingerprint: the ownership is not part of it.
Fingerprint(i, w) == <<i.origin, i.severity, i.category, i.title,
                       IF i.source = "" THEN "" ELSE w.key[i.source], i.line>>

\* finalize_review_report; waivers are the fingerprints with a reason.
Finalized(issues, previous, waivers, w) ==
    LET now == [i \in DOMAIN issues |-> Decorated(issues[i], w)]
        before == {Fingerprint(Decorated(previous[i], w), w) : i \in DOMAIN previous}
        ids == {Fingerprint(now[i], w) : i \in DOMAIN now}
        final == [i \in DOMAIN now |->
            [issue |-> now[i], new |-> Fingerprint(now[i], w) \notin before,
             waived |-> Fingerprint(now[i], w) \in waivers]]
        actionable == SelectSeq(final, LAMBDA f : ~f.waived /\ f.issue.ownership = w.user)
        counted(s) == Len(SelectSeq(actionable, LAMBDA f : f.issue.severity = s))
    IN [issues |-> final, resolved |-> before \ ids,
        errors |-> counted("error"), warnings |-> counted("warning"),
        status |-> CASE counted("error") + counted("warning") > 0 -> "needs_attention"
                     [] OTHER -> IF \E i \in DOMAIN now : now[i].ownership = "tool"
                                        /\ now[i].severity \in {"error", "warning"}
                                 THEN "tool_limited" ELSE "clean"]

-----------------------------------------------------------------------------
(* What is made of the report. *)

\* check_result, and what _write_outputs says.
ReviewOk(sources, probe) == sources # {} /\ ~Blocked(probe)

\* _review_qor.
ReviewGates(r, probe) == [errors |-> IF r.errors = 0 THEN "pass" ELSE "failed",
                          precheck |-> PrecheckState(probe)]

\* _rtl_review_score, in tenths: <<>> without metrics.
ReviewScore(r, probe) ==
    LET pass == PrecheckState(probe) = "pass"
        m == probe.metrics.m
        over == [f \in DOMAIN Threshold |-> Max({m[f], Threshold[f]})]
        all == over.fanout * over.fanin * over.depth
        part(f, points) == (points * Threshold[f]) * (all \div over[f])
    IN IF ~probe.metrics.measured THEN <<>>
       ELSE <<[precheck |-> IF pass THEN 300 ELSE 0,
               errors |-> Max({0, 300 - 100 * r.errors}),
               warnings |-> Max({0, 150 - 30 * r.warnings}),
               headroom |-> IF pass THEN Sim!Rounded(part("fanout", 83) + part("fanin", 83) + part("depth", 84), 10 * all)
                            ELSE 0]>>

-----------------------------------------------------------------------------
(* Properties. *)

\* structural_probe.py:314.  The sources that the report counts are those that yosys
\* reads, but for the tracers.  What is added to a list declares a module that was
\* missing, within the limit; a missing module whose file lies beside the sources is
\* left out only if the limit was reached or every round has added a file.  The top
\* module is declared, and one that nobody named is instantiated by another only if
\* all modules are.
SourcesAreReviewed(p, limits) ==
    LET files == ProbeSources(p, limits)
        top == TopOf(p, files)
        added == ToSet(files) \ ToSet(Chosen(p))
        missing == UsedIn(p, ToSet(files)) \ DeclaredIn(p, ToSet(files))
        leftOut == {m \in missing : p.local[m] # "" /\ p.files[p.local[m]].kind = "rtl"
                                    /\ m \in ToSet(p.files[p.local[m]].declares)}
    IN /\ \A f \in ReviewSources(p) : f \in ToSet(files) \/ p.files[f].kind = "tracer"
       /\ \A f \in added : \E m \in ToSet(p.files[f].declares) : m \in UsedIn(p, ToSet(files))
       /\ Cardinality(added) <= limits.files
       /\ Completed(p) /\ leftOut # {} => Cardinality(added) >= Min({limits.rounds, limits.files})
       /\ (files # <<>> /\ ~p.generic /\ top # NoModule) => top \in DeclaredIn(p, ToSet(files))
       /\ (top \in UsedIn(p, ToSet(files)) /\ top \notin ToSet(p.tops))
             => DeclaredIn(p, ToSet(files)) \subseteq UsedIn(p, ToSet(files))

\* structural_probe.py:1041.  A depth is that of the longest chain of combinational
\* cells; a cycle of two cells or more is reported when there is one, and then the
\* depth is not too large.  (A cell that drives itself alone is not reported.)
GraphIsMeasured(g) ==
    LET m == Graph(g)
        longest == MaxOr0({Len(s) : s \in Chains(g)})
    IN /\ m.cycle = (\E s \in Chains(g) : Len(s) > 1 /\ <<s[Len(s)], s[1]>> \in g.wires)
       /\ ~m.cycle => m.depth = longest
       /\ m.depth <= longest

\* structural_probe.py:1162.  The issues of the design and the risks of its modules
\* are found from different files, thresholds and lists, each of which is cut.  A
\* reason of a listed module is an issue of the design, and a cycle is an issue
\* however many there are.  Where nothing is cut, every module with a reason is
\* listed, and an issue of the netlist is a reason of a listed module; where the list
\* of structures is cut, at least the deepest modules keep theirs, and where the list
\* of risks is, no module that is left out has a higher score.
RisksAreIssues(modules, limits) ==
    LET m == Structural(modules, limits)
        known(i) == Known(modules, i, limits)
        listed == Risks(modules, limits)
        reasons == UNION {Reasons(known(i)) : i \in listed}
        issues == IssuesOfProbe([rc |-> 0, diags |-> <<>>, phrases |-> {}, modules |-> modules], m)
        titles == {issues[i].title : i \in DOMAIN issues}
        leftOut == {i \in DOMAIN modules : Reasons(modules[i]) # {}} \ listed
        uncut == Len(modules) <= limits.structures /\ Cardinality(listed) < limits.risks
    IN /\ reasons \ {"cells", "wires", "processes"} \subseteq titles
       /\ ("cycle" \in titles) = (\E i \in DOMAIN modules : modules[i].cycle)
       /\ uncut => leftOut = {} /\ titles \ {"mux", "memory", "arithmetic"} \subseteq reasons
       /\ modules # <<>> => \E i \in DOMAIN modules : known(i).depth = m.depth
       /\ \A i \in leftOut, j \in listed :
            Reasons(known(i)) # {} => RiskScore(known(i)) <= RiskScore(known(j))
       /\ \A f \in DOMAIN Threshold : \A i \in DOMAIN modules : modules[i][f] <= m[f]

\* review/runner.py:206.  The step, which asks whether the precheck blocks it, and
\* the quality, which asks for the state of its gate, agree: a step that fails is
\* blocked, and only one that is right passes.  An error that is only a limit of the
\* tool does neither.  The precheck passes on the netlist of this run alone, only then
\* does the netlist earn points, and all points mean that nothing was found.
PrecheckVerdictsAgree(run) ==
    LET probe == Probe(run)
        r == Finalized(Merged(<<>>, probe), <<>>, {}, [user |-> "cpu"])
        ok == ReviewOk({"core.v"}, probe)
        quality == Rep!Quality(TRUE, ReviewGates(r, probe), ok)
        score == ReviewScore(r, probe)
        m == probe.metrics.m
    IN /\ ~ok => quality = "blocked"
       /\ quality = "pass" => ok
       /\ (Blocked(probe) = (PrecheckState(probe) = "failed"))
       /\ PrecheckState(probe) = "pass" => run.ends = "exit" /\ run.fresh /\ ~SomeBlocks(run.diags)
       /\ (run.ends = "exit" /\ run.rc # 0 /\ ToolLimited(run.diags)) => ok /\ quality # "pass"
       /\ (run.ends = "exit" /\ SomeBlocks(run.diags)) => ~ok
       /\ (score = <<>>) = (run.ends # "exit")
       /\ score # <<>> =>
            /\ Sim!Points(score[1]) \in 0..1000
            /\ score[1].headroom > 0 => run.fresh
            /\ (Sim!Points(score[1]) = 1000) =
                 (quality = "pass" /\ r.warnings = 0 /\ \A f \in DOMAIN Threshold : m[f] <= Threshold[f])

\* analyzer.py:131.  Every issue is new or was there before, and every one that was
\* there before is there still or resolved; a waived issue is not counted, every
\* other one of the user's code is, and nobody else's; the state says so; and a
\* second run that finds the same issues has nothing new or resolved.
IssuesAreFollowed(issues, previous, waivers, w) ==
    LET r == Finalized(issues, previous, waivers, w)
        found == [i \in DOMAIN r.issues |-> r.issues[i].issue]
        again == Finalized(found, found, waivers, w)
        id(i) == Fingerprint(found[i], w)
        before == {Fingerprint(previous[i], w) : i \in DOMAIN previous}
        counts(i) == ~r.issues[i].waived /\ found[i].ownership = w.user
        bad(s) == Cardinality({i \in DOMAIN found : counts(i) /\ found[i].severity = s})
    IN /\ \A i \in DOMAIN found : r.issues[i].new = (id(i) \notin before)
       /\ before = r.resolved \cup ({id(i) : i \in DOMAIN found} \cap before)
       /\ r.resolved \cap {id(i) : i \in DOMAIN found} = {}
       /\ r.errors = bad("error") /\ r.warnings = bad("warning")
       /\ r.status = "clean" => \A i \in DOMAIN found :
            counts(i) \/ found[i].ownership = "tool" => found[i].severity = "info"
       /\ again.resolved = {} /\ again.errors = r.errors /\ again.warnings = r.warnings
       /\ \A i \in DOMAIN found : ~again.issues[i].new /\ again.issues[i].issue = found[i]
=============================================================================
