----------------------------- MODULE TopContract -----------------------------
(***************************************************************************)
(* The interface of a top module as prepare sees it                        *)
(* (tools/common/sv_module.py) and its comparison with the contract of the *)
(* SoC (tools/prepare/runner.py).                                          *)
(***************************************************************************)
EXTENDS Lists, SequencesExt

-----------------------------------------------------------------------------
(* _apply_sv_conditional_directives: which lines are left.  A line is a    *)
(* record of its kind and the macro it names; "text" is any other line.    *)

Active(st) == st.stack = <<>> \/ Last(st.stack).active

Push(st, matched) ==
    [st EXCEPT !.stack = Append(@, [parent |-> Active(st), taken |-> matched,
                                    active |-> Active(st) /\ matched])]

Branch(st, matched) ==
    LET frame == Last(st.stack)
    IN [st EXCEPT !.stack = Append(Front(@),
          [frame EXCEPT !.taken = @ \/ matched, !.active = frame.parent /\ matched])]

\* Mutant of Directive: a branch of an inactive conditional can become active.
DirectiveForgettingParent(st, line) ==
    CASE line.kind = "ifdef" -> Push(st, line.name \in st.macros)
      [] line.kind = "else" /\ st.stack # <<>> ->
            [st EXCEPT !.stack[Len(st.stack)].active = ~Last(st.stack).taken]
      [] line.kind = "endif" /\ st.stack # <<>> -> [st EXCEPT !.stack = Front(@)]
      [] OTHER -> st

\* A directive that belongs to no conditional is ignored.
Directive(st, line) ==
    CASE line.kind = "define" /\ Active(st) -> [st EXCEPT !.macros = @ \cup {line.name}]
      [] line.kind = "undef" /\ Active(st) -> [st EXCEPT !.macros = @ \ {line.name}]
      [] line.kind = "ifdef" -> Push(st, line.name \in st.macros)
      [] line.kind = "ifndef" -> Push(st, line.name \notin st.macros)
      [] line.kind = "elsif" /\ st.stack # <<>> ->
            Branch(st, ~Last(st.stack).taken /\ line.name \in st.macros)
      [] line.kind = "else" /\ st.stack # <<>> -> Branch(st, ~Last(st.stack).taken)
      [] line.kind = "endif" /\ st.stack # <<>> -> [st EXCEPT !.stack = Front(@)]
      [] OTHER -> st

Selected(lines, macros) ==
    LET start == [macros |-> macros, stack |-> <<>>, kept |-> {}]
        next(st, i) == IF lines[i].kind = "text" /\ Active(st)
                       THEN [st EXCEPT !.kept = @ \cup {i}]
                       ELSE Directive(st, lines[i])
    IN FoldLeftDomain(next, start, lines).kept

-----------------------------------------------------------------------------
(* module_port_contract.  A header is a sequence of [name, direction,      *)
(* width], where the direction may be left out and width is that of the    *)
(* range written there, 1 if there is none; width 0 is a range that is     *)
(* not of numbers.  The body declares [direction, width, names].           *)

Omitted == "omitted"

Declared(body, name) == {i \in DOMAIN body : name \in body[i].names}

\* A direction holds, with its width, for the names after it, also for one that has
\* a range of its own.  If a name has
\* none at all, every port is looked up in the body.
PortContract(header, body) ==
    LET carry(ports, entry) ==
            LET before == IF ports = <<>> THEN [direction |-> "", width |-> 1] ELSE Last(ports)
            IN Append(ports, [name |-> entry.name,
                 direction |-> IF entry.direction = Omitted THEN before.direction
                               ELSE entry.direction,
                 width |-> IF entry.direction = Omitted THEN before.width ELSE entry.width])
        ports == FoldLeft(carry, <<>>, header)
        lookup(port) ==
            LET found == Declared(body, port.name)
                last == CHOOSE i \in found : \A j \in found : j <= i
            IN IF found = {} THEN port
               ELSE [name |-> port.name, direction |-> body[last].direction,
                     width |-> body[last].width]
    IN IF \E i \in DOMAIN ports : ports[i].direction = ""
       THEN [i \in DOMAIN ports |-> lookup(ports[i])]
       ELSE ports

-----------------------------------------------------------------------------
(* The comparison and what prepare makes of it.                            *)

\* A contract that names a port twice means its last mention.
ByName(ports) ==
    [n \in {ports[i].name : i \in DOMAIN ports} |->
        LET i == CHOOSE i \in DOMAIN ports : /\ ports[i].name = n
                     /\ \A j \in DOMAIN ports : ports[j].name = n => j <= i
        IN [direction |-> ports[i].direction, width |-> ports[i].width]]

Compare(expected, actual) ==
    LET e == ByName(expected)
        a == ByName(actual)
    IN [missing |-> DOMAIN e \ DOMAIN a, extra |-> DOMAIN a \ DOMAIN e,
        mismatches |-> {n \in DOMAIN e \cap DOMAIN a : e[n] # a[n]}]

\* _expected_cpu_top_contract: malformed entries of the catalog are dropped.
Expected(raw) ==
    Picked(raw, {i \in DOMAIN raw : raw[i].direction \in {"input", "output", "inout"}
                                     /\ raw[i].width > 0})

Differs(d) == d.missing \cup d.extra \cup d.mismatches # {}

\* Mutant of Verdict: ports that nobody expects are accepted.
VerdictIgnoringExtra(w) ==
    LET d == Compare(Expected(w.contract), w.actual) IN
    CASE w.definitions # 1 -> "failed"
      [] w.definitions = 1 /\ Expected(w.contract) = <<>> -> "module_only"
      [] OTHER -> IF d.missing \cup d.mismatches # {} THEN "failed" ELSE "pass"

\* _validate_frontend_cpu_top and _validate_generic_design_top.
Verdict(w) ==
    LET expected == Expected(w.contract) IN
    CASE w.kind = "cpu_core" /\ ~w.required -> "not_required"
      [] w.kind = "cpu_core" /\ w.required /\ w.identifier /\ w.definitions = 1 /\ expected # <<>> ->
            IF Differs(Compare(expected, w.actual)) THEN "failed" ELSE "pass"
      [] (w.kind = "cpu_core" => w.required /\ expected = <<>>) /\ w.identifier /\ w.definitions = 1 ->
            "module_only"
      [] OTHER -> "failed"

\* _build_readiness_facts: the interface part.
Readiness(w) ==
    LET compared == w.kind = "cpu_core" /\ w.required /\ w.identifier /\ w.definitions = 1
        expected == IF compared THEN Expected(w.contract) ELSE <<>>
        d == IF expected = <<>> THEN Compare(<<>>, <<>>) ELSE Compare(expected, w.actual)
        unmatched == Cardinality(d.missing) + Cardinality(d.mismatches)
    IN [applicable |-> w.kind = "cpu_core" /\ Verdict(w) # "not_required",
        expected |-> Len(expected),
        matched |-> IF Len(expected) < unmatched THEN 0 ELSE Len(expected) - unmatched,
        missing |-> Cardinality(d.missing), extra |-> Cardinality(d.extra),
        mismatched |-> Cardinality(d.mismatches)]

\* _inject_custom_cpu_top_define: [name, value] pairs.
WithTopDefine(defines, custom, name, top) ==
    IF ~custom THEN defines
    ELSE Append(SelectSeq(defines, LAMBDA d : d.name # name), [name |-> name, value |-> top])

-----------------------------------------------------------------------------
(* Properties. *)

\* What `ifdef means: a line is left if, of every conditional around it, it is
\* in the first branch whose condition holds there.
Meaning(lines, macros) ==
    LET Opens(i) == lines[i].kind \in {"ifdef", "ifndef"}
        Depth(k, i) == Cardinality({j \in k..i : Opens(j)})
                       - Cardinality({j \in k..i : lines[j].kind = "endif"})
        Around(i) == {k \in 1..i - 1 : Opens(k) /\ \A j \in k..i - 1 : Depth(k, j) > 0}
        Heads(k, i) == {k} \cup {j \in k + 1..i - 1 : lines[j].kind \in {"elsif", "else"} /\
                                   \A m \in k..j : Depth(k, m) > 0 /\ Depth(k, j) = 1}
        upTo[i \in 0..Len(lines)] ==
            IF i = 0 THEN [active |-> {}, macros |-> <<macros>>]
            ELSE LET before == upTo[i - 1]
                     true(h) == CASE lines[h].kind \in {"ifdef", "elsif"} ->
                                       lines[h].name \in before.macros[h]
                                  [] lines[h].kind = "ifndef" ->
                                       lines[h].name \notin before.macros[h]
                                  [] OTHER -> TRUE
                     chosen(k) == LET heads == Heads(k, i)
                                      now == CHOOSE h \in heads : \A g \in heads : g <= h
                                  IN true(now) /\ \A g \in heads \ {now} : ~true(g)
                     active == \A k \in Around(i) : chosen(k)
                 IN [active |-> IF active THEN before.active \cup {i} ELSE before.active,
                     macros |-> Append(before.macros,
                        CASE active /\ lines[i].kind = "define" -> before.macros[i] \cup {lines[i].name}
                          [] active /\ lines[i].kind = "undef" -> before.macros[i] \ {lines[i].name}
                          [] OTHER -> before.macros[i])]
    IN {i \in upTo[Len(lines)].active : lines[i].kind = "text"}

\* sv_module.py:139.  The one pass over the lines, with its stack of frames,
\* leaves the lines that the conditionals mean, also in a text that ends within
\* a conditional, closes one too often or defines macros in a branch.
ConditionalsAreResolved(lines, macros) ==
    Selected(lines, macros) = Meaning(lines, macros)

\* sv_module.py:76.  However an interface is written down (each port with its
\* direction, neither direction nor range where both repeat, or a list of names that
\* the body declares) its contract is the same.  A port with a range and without a
\* direction is SystemVerilog too, and is read with the range of the port before it:
\* where directions alone are left out, the contract is right if, and only if, no
\* direction that repeats has a new range.
StyleDoesNotMatter(ports) ==
    LET inherits(i) == i > 1 /\ ports[i].direction = ports[i - 1].direction
        repeats(i) == inherits(i) /\ ports[i].width = ports[i - 1].width
        grouped == [i \in DOMAIN ports |-> IF repeats(i) THEN [ports[i] EXCEPT !.direction = Omitted,
                                                                               !.width = 1]
                                           ELSE ports[i]]
        ranged == [i \in DOMAIN ports |-> IF inherits(i) THEN [ports[i] EXCEPT !.direction = Omitted]
                                          ELSE ports[i]]
        names == [i \in DOMAIN ports |-> [name |-> ports[i].name, direction |-> Omitted, width |-> 1]]
        body == [i \in DOMAIN ports |-> [direction |-> ports[i].direction,
                                         width |-> ports[i].width, names |-> {ports[i].name}]]
    IN /\ PortContract(ports, <<>>) = ports
       /\ PortContract(grouped, <<>>) = ports
       /\ PortContract(names, body) = ports
       /\ PortContract(ranged, <<>>) = ports <=> \A i \in DOMAIN ports : inherits(i) => repeats(i)

\* runner.py:277.  A top passes exactly if it is defined once and its interface,
\* as a set of ports, is what the contract asks for; and the counts that are
\* reported say so, whichever check has failed.
PassMeansSameInterface(w) ==
    LET r == Readiness(w)
        same == ByName(Expected(w.contract)) = ByName(w.actual)
    IN /\ Verdict(w) = "pass" =>
             /\ w.definitions = 1 /\ w.identifier /\ same
             /\ r.matched = r.expected /\ r.expected > 0
       /\ Verdict(w) = "failed" /\ r.expected > 0 =>
             r.missing + r.extra + r.mismatched > 0 /\ ~same
       /\ r.extra > 0 => Verdict(w) = "failed"
=============================================================================
