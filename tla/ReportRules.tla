----------------------------- MODULE ReportRules -----------------------------
(***************************************************************************)
(* What the prepare, elaborate and lint steps write about a run of their   *)
(* tool, and the gates, the score and the quality that analysis/qor.py     *)
(* makes of it.  A log is a sequence of lines; points are tenths.          *)
(***************************************************************************)
EXTENDS Integers, Sequences, FiniteSets, SequencesExt, FiniteSetsExt

LOCAL INSTANCE SimulationRules      \* Once, Rounded, Points
LOCAL INSTANCE TopContract          \* Verdict, Readiness

AtLeast0(n) == IF n < 0 THEN 0 ELSE n

\* write_step_qor: gates maps a gate to its state.
Quality(source, gates, success) ==
    LET states == {gates[g] : g \in DOMAIN gates}
    IN CASE ~source -> "incomplete"
         [] source /\ "failed" \in states -> "blocked"
         [] OTHER -> IF states \subseteq {"pass"} /\ success THEN "pass" ELSE "incomplete"

Gate(holds) == IF holds THEN "pass" ELSE "failed"

-----------------------------------------------------------------------------
(* Prepare. *)

\* _build_readiness_facts: the part about the top module.
TopFacts(w) ==
    LET checked == w.kind = "generic_rtl" \/ w.required
        found == w.identifier /\ w.definitions = 1
    IN [required |-> IF w.kind = "generic_rtl" THEN Verdict(w) = "failed" ELSE w.required,
        definitions |-> IF checked /\ w.identifier THEN w.definitions ELSE 0,
        included |-> checked /\ found]

\* _prepare_readiness_score; s has the counts of the sources that are listed and
\* that are there.  Nothing is persisted by a run that fails.
PrepareScore(w, s) ==
    LET r == Readiness(w)
        top == TopFacts(w)
    IN [sources |-> Rounded(20 * s.resolved, s.listed)
                    + (IF s.incdirs = 0 THEN 100 ELSE Rounded(10 * s.incdirsThere, s.incdirs)),
        top |-> IF ~top.required THEN 200
                ELSE (IF top.definitions = 1 THEN 150 ELSE 0) + (IF top.included THEN 50 ELSE 0),
        interface |-> CASE ~r.applicable -> 400
                        [] r.applicable /\ r.expected = 0 -> 0
                        [] OTHER -> Rounded(35 * r.matched, r.expected) + (IF r.extra = 0 THEN 50 ELSE 0),
        reproducibility |-> IF Verdict(w) = "failed" THEN 50 ELSE 100]

\* The checks that come before it.
PrepareScorable(w, s) ==
    LET r == Readiness(w) IN
    /\ s.listed > 0 /\ s.resolved <= s.listed /\ s.incdirsThere <= s.incdirs
    /\ r.matched <= r.expected
    /\ r.expected > 0 => r.matched + r.missing + r.mismatched = r.expected
    /\ r.expected = 0 => r.matched + r.missing + r.mismatched = 0

PrepareGates(w) == [contracts |-> Gate(Verdict(w) # "failed")]

-----------------------------------------------------------------------------
(* Elaboration. *)

Failure == [kind |-> "diag", severity |-> "error", source |-> "", message |-> "failed to execute"]
Count(e, n) == [kind |-> "count", errors |-> e, warnings |-> n]
Of(diags, severity) == SelectSeq(diags, LAMBDA d : d.severity = severity)

\* slang: what it prints and returns.  It counts its diagnostics when it ends.
Slang(run) ==
    LET printed == run.diags \o
            (IF run.ends = "exit" THEN <<Count(Len(Of(run.diags, "error")), Len(Of(run.diags, "warning")))>>
             ELSE <<>>)
    IN [rc |-> CASE run.ends = "absent" -> 127 [] run.ends = "crash" -> -11
                 [] OTHER -> IF Of(run.diags, "error") = <<>> THEN 0 ELSE 1,
        log |-> printed]

\* _run_elaborate: the log it leaves.  A tool that says nothing is taken to have
\* succeeded, here; its return code is kept.
ElabLog(run) ==
    CASE run.ends = "absent" -> <<Failure>>
      [] run.ends # "absent" /\ Slang(run).log = <<>> -> <<Count(0, 0)>>
      [] OTHER -> Slang(run).log

\* parse_slang_diagnostics: each of them once.
ElabDiagnostics(log) == Once(SelectSeq(log, LAMBDA l : l.kind = "diag"))

\* _diagnostic_count: the last count that is printed, or the diagnostics counted.
Counted(log, severity) ==
    LET counts == SelectSeq(log, LAMBDA l : l.kind = "count")
    IN IF counts = <<>> THEN Len(Of(ElabDiagnostics(log), severity))
       ELSE IF severity = "error" THEN Last(counts).errors ELSE Last(counts).warnings

\* _is_elab_log_ok.
LogOk(log) ==
    \/ \A i \in DOMAIN log : log[i].kind = "count" \/ log[i].severity # "error"
    \/ \E i \in DOMAIN log : log[i].kind = "count" /\ log[i].errors = 0

\* compiler_unresolved_modules.
Unresolved(diags) ==
    {diags[i].message : i \in {j \in DOMAIN diags :
        diags[j].severity = "error" /\ diags[j].message \notin {"other", "failed to execute"}}}

\* build_elab_summary; scanned has the modules that a scan of the sources finds.
ElabReport(run, scanned, top) ==
    LET log == ElabLog(run)
        rc == Slang(run).rc
        errors == Counted(log, "error")
        pass == rc = 0 /\ errors = 0
    IN [status |-> IF pass THEN "pass" ELSE "fail", rc |-> rc, errors |-> errors,
        warnings |-> Counted(log, "warning"),
        unresolved |-> Unresolved(ElabDiagnostics(log)),
        topFound |-> pass \/ top \in scanned]

\* check_result, and what elab.rpt says.
ElabOk(run, r) == r.status = "pass" /\ r.rc = 0 /\ LogOk(ElabLog(run))
ElabReported(run, r) == r.status = "pass" /\ LogOk(ElabLog(run))

\* _elab_qor.
ElabGates(r) == [errors |-> Gate(r.errors = 0), resolved |-> Gate(r.unresolved = {}),
                 top |-> Gate(r.topFound)]

\* _elaboration_score: the report is not in contradiction with itself, and its points.
ElabScorable(r) == (r.status = "pass") = (r.rc = 0 /\ r.errors = 0)

ElabScore(r) ==
    LET passed == r.status = "pass"
    IN [execution |-> IF passed THEN 250 ELSE 0,
        errors |-> AtLeast0(300 - 100 * r.errors),
        hierarchy |-> IF passed THEN AtLeast0(200 - 50 * Cardinality(r.unresolved)) ELSE 0,
        top |-> IF passed /\ r.topFound THEN 150 ELSE 0,
        warnings |-> AtLeast0(100 - 20 * r.warnings)]

-----------------------------------------------------------------------------
(* Lint. *)

\* verilator --lint-only: the diagnostics, and after an error a line that says so.
Exiting == [severity |-> "error", code |-> "ERROR", source |-> "", message |-> "exiting"]
NotRun == [severity |-> "error", code |-> "ERROR", source |-> "", message |-> "tool"]

Verilator(run) ==
    LET failed == Of(run.diags, "error") # <<>>
    IN CASE run.ends = "absent" -> [rc |-> 127, log |-> <<NotRun>>]
         [] run.ends = "crash" -> [rc |-> -11, log |-> run.diags]
         [] OTHER -> IF failed THEN [rc |-> 1, log |-> Append(run.diags, Exiting)]
                     ELSE [rc |-> 0, log |-> run.diags]

\* Mutant of LintDiagnostics: a tool that fails without a word leaves no trace.
LintDiagnosticsOfLog(out) == Once(out.log)

\* parse_verilator_diagnostics, and the one that stands for a silent failure.
LintDiagnostics(out) ==
    IF out.rc # 0 /\ out.log = <<>> THEN <<[NotRun EXCEPT !.code = "TOOL"]>> ELSE Once(out.log)

\* rtl_source_ownership of a diagnostic; owner maps the sources.
OwnerOf(d, owner) ==
    CASE d.message = "tool" -> "tool"
      [] d.message # "tool" /\ d.source = "" -> "unknown"
      [] OTHER -> owner[d.source]

Owned(diags, owner, o) == SelectSeq(diags, LAMBDA d : OwnerOf(d, owner) = o)

Tally(diags) == [errors |-> Len(Of(diags, "error")), warnings |-> Len(Of(diags, "warning")),
                 total |-> Len(diags)]

\* _lint_rule_breakdown, _lint_file_hotspots, _lint_ownership_breakdown.
ByRule(diags) == LET codes == {diags[i].code : i \in DOMAIN diags}
                 IN [c \in codes |-> Tally(SelectSeq(diags, LAMBDA d : d.code = c))]
ByFile(diags) == LET files == {diags[i].source : i \in DOMAIN diags} \ {""}
                 IN [f \in files |-> Tally(SelectSeq(diags, LAMBDA d : d.source = f))]
ByOwner(diags, owner) == LET owners == {OwnerOf(diags[i], owner) : i \in DOMAIN diags}
                         IN [o \in owners |-> Tally(Owned(diags, owner, o))]

\* build_lint_summary; user is the ownership that counts, "cpu" or "design".
LintReport(run, owner, user) ==
    LET out == Verilator(run)
        diags == LintDiagnostics(out)
        all == Tally(diags)
    IN [status |-> IF out.rc = 0 /\ all.errors = 0 THEN "pass" ELSE "fail", rc |-> out.rc,
        all |-> all, own |-> Tally(Owned(diags, owner, user)),
        rules |-> ByRule(diags), files |-> ByFile(diags), owners |-> ByOwner(diags, owner),
        ownRules |-> Cardinality({d.code : d \in ToSet(Owned(diags, owner, user))})]

\* check_result and lint.rpt; the lint sub-step asks for the return code only.
LintOk(r) == r.status = "pass"
LintReported(r) == r.all.errors = 0 /\ r.rc = 0
LintSubstep(r) == r.rc = 0

LintGates(r) == [errors |-> Gate(r.own.errors = 0)]

LintScorable(r) == (r.status = "pass") = (r.rc = 0 /\ r.all.errors = 0)

LintScore(r) ==
    LET done(points) == IF r.rc = 0 THEN AtLeast0(points) ELSE 0
    IN [execution |-> done(250), errors |-> done(400 - 200 * r.own.errors),
        warnings |-> done(250 - 25 * r.own.warnings), rules |-> done(100 - 20 * r.ownRules)]

-----------------------------------------------------------------------------
(* Properties. *)

\* A step that has not succeeded never has the quality of one that has, and the
\* other way round.
QualityFits(gates, success) == (Quality(TRUE, gates, success) = "pass") = success

\* qor.py:285.  What prepare writes is scored, whichever check of the top module
\* has failed; its gate agrees with the step, and all points mean that every file
\* is there and that every port that was asked for was found.
PrepareIsScoredFairly(w, s) ==
    LET points == Points(PrepareScore(w, s))
        failed == Verdict(w) = "failed"
    IN /\ PrepareScorable(w, s)
       /\ points \in 0..1000
       /\ QualityFits(PrepareGates(w), ~failed)
       /\ points = 1000 => /\ Verdict(w) \in {"pass", "not_required", "module_only"}
                           /\ Verdict(w) = "module_only" => w.kind = "generic_rtl"
                           /\ s.resolved = s.listed /\ s.incdirsThere = s.incdirs
       /\ failed => points < 1000

\* slang/runner.py:124.  However slang ends, the step, its report and the quality
\* come to one verdict, what it printed is counted, the report is scored, and all
\* points mean a run without errors and warnings.  A module is unresolved only in a step that has failed.
ElabVerdictsAgree(run, scanned, top) ==
    LET r == ElabReport(run, scanned, top)
        points == Points(ElabScore(r))
    IN /\ ElabOk(run, r) = ElabReported(run, r)
       /\ ElabOk(run, r) = (run.ends = "exit" /\ Of(run.diags, "error") = <<>>)
       /\ (r.errors > 0) = (run.ends = "absent" \/ Of(run.diags, "error") # <<>>)
       /\ ElabScorable(r) /\ points \in 0..1000
       /\ QualityFits(ElabGates(r), ElabOk(run, r))
       /\ (points = 1000) = (ElabOk(run, r) /\ r.warnings = 0)
       /\ r.unresolved # {} => ~ElabOk(run, r)

\* verilator/runner.py:1338.  However Verilator ends, the step, its report and the
\* quality come to one verdict; an error of code that is not the user's does not
\* block the quality, but the step fails, and never without a diagnostic; each diagnostic is counted in exactly
\* one rule and one owner and at most one file; and all points mean a run that
\* has ended and has found nothing in the user's code.
LintVerdictsAgree(run, owner, user) ==
    LET r == LintReport(run, owner, user)
        points == Points(LintScore(r))
        sum(f, part) == MapThenSumSet(LAMBDA x : f[x][part], DOMAIN f)
    IN /\ LintOk(r) = LintReported(r)
       /\ LintOk(r) => LintSubstep(r)
       /\ LintOk(r) = (run.ends = "exit" /\ Of(run.diags, "error") = <<>>)
       /\ ~LintOk(r) => r.all.total > 0
       /\ LintScorable(r) /\ points \in 0..1000
       /\ QualityFits(LintGates(r), LintOk(r))
       /\ (points = 1000) = (r.rc = 0 /\ r.own.total = 0)
       /\ \A part \in {"errors", "warnings", "total"} :
            /\ sum(r.rules, part) = r.all[part] /\ sum(r.owners, part) = r.all[part]
            /\ sum(r.files, part) <= r.all[part]
       /\ r.all.total = r.all.errors + r.all.warnings
       /\ user \in DOMAIN r.owners => r.owners[user] = r.own
=============================================================================
