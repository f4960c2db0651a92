------------------------------ MODULE RtlInputs ------------------------------
(***************************************************************************)
(* How RTL is found (tools/prepare/runner.py) and how it is watched for    *)
(* changes (tools/common/rtl_inputs.py).  Two walks over the same tree of  *)
(* filelists, written apart from each other: prepare parses it to collect  *)
(* the files of the flow, and the fingerprint hashes it to decide whether  *)
(* what prepare collected is still current.                                *)
(*                                                                         *)
(* A project is a record: entries[f] are the lines of filelist f, at[f]    *)
(* says where file f is, copy[f] which file of a third-party bundle stands *)
(* in for one that has moved.  cpu and soc are the two root lists; a       *)
(* workspace that has neither has an input list or a single file, verilog. *)
(***************************************************************************)
EXTENDS Lists

CONSTANTS
    Files,      \* paths of filelists and RTL files
    NoFile      \* a root that is not given

ASSUME NoFileAssumption == NoFile \notin Files

\* A line is of one of the kinds "list" (-f x), "glued" (-fx), "rtl", "incdir",
\* "define" or an option that nobody reads; a file is "here", "moved" or "absent".

Found(p, f) == p.at[f] = "here"

-----------------------------------------------------------------------------
(* resolve_thirdparty_path: prepare and the validation, but not the        *)
(* fingerprint, look for a listed file that is not there in the bundles.   *)

Resolved(p, f) == IF p.at[f] = "moved" THEN p.copy[f] ELSE f

\* The project as these two walks read it.
Relocated(p) ==
    LET line(l) == IF l.kind \in {"list", "glued", "rtl"}
                   THEN [kind |-> l.kind, arg |-> Resolved(p, l.arg)] ELSE l
    IN [p EXCEPT !.entries = [f \in Files |-> [i \in DOMAIN p.entries[f] |-> line(p.entries[f][i])]]]

-----------------------------------------------------------------------------
(* PrepareStep._parse_sv_filelist, a line at a time: the lines of a nested *)
(* list are read in the place of the line that names it.                   *)

Nothing == [todo |-> <<>>, visited |-> {}, rtl |-> <<>>, incdirs |-> <<>>,
            defines |-> <<>>, failed |-> FALSE]

\* Mutant of ReadLine: a nested list is read again wherever it is named.
ReadLineAgain(p, st) ==
    LET line == Head(st.todo)
        rest == [st EXCEPT !.todo = Tail(@)]
    IN CASE line.kind = "list" /\ ~Found(p, line.arg) ->
                [rest EXCEPT !.failed = TRUE, !.todo = <<>>]
         [] line.kind = "list" /\ Found(p, line.arg) ->
                [rest EXCEPT !.todo = p.entries[line.arg] \o @]
         [] line.kind = "rtl" -> [rest EXCEPT !.rtl = Append(@, line.arg)]
         [] OTHER -> rest

\* A list that was read before is skipped, so that lists may name each other.
ReadLine(p, st) ==
    LET line == Head(st.todo)
        rest == [st EXCEPT !.todo = Tail(@)]
    IN CASE line.kind \in {"list", "rtl"} /\ ~Found(p, line.arg) ->
                [rest EXCEPT !.failed = TRUE, !.todo = <<>>]
         [] line.kind = "list" /\ Found(p, line.arg) /\ line.arg \notin st.visited ->
                [rest EXCEPT !.visited = @ \cup {line.arg},
                             !.todo = p.entries[line.arg] \o @]
         [] line.kind = "rtl" /\ Found(p, line.arg) ->
                [rest EXCEPT !.rtl = Append(@, line.arg)]
         [] line.kind = "incdir" -> [rest EXCEPT !.incdirs = Append(@, line.arg)]
         [] line.kind = "define" -> [rest EXCEPT !.defines = Append(@, line.arg)]
         [] OTHER -> rest

\* Every line of every list is read at most once.
Fuel(p) == 1 + Cardinality(UNION {{f} \X DOMAIN p.entries[f] : f \in Files})

Parse(p, root) ==
    LET run[n \in 0..Fuel(p)] ==
          IF n = 0 THEN [Nothing EXCEPT !.todo = <<[kind |-> "list", arg |-> root]>>]
          ELSE IF run[n - 1].todo = <<>> THEN run[n - 1]
          ELSE ReadLine(p, run[n - 1])
    IN run[Fuel(p)]

-----------------------------------------------------------------------------
(* PrepareStep._collect_inputs. *)

\* The input list, if it is there, counts in a workspace that has neither root list.
FirstList(p) ==
    IF p.cpu = NoFile /\ p.soc = NoFile /\ p.input # NoFile /\ Found(p, p.input)
    THEN p.input ELSE p.cpu

Roots(p) == {FirstList(p), p.soc} \ {NoFile}

\* Without any list there may be a single file.
Single(p) == Roots(p) = {} /\ p.verilog # NoFile /\ Found(p, p.verilog)

Parsed(p, root) == IF root = NoFile THEN Nothing ELSE Parse(p, root)

\* The CPU list comes first; no RTL at all is an error as well.
Collect(p) ==
    LET cpu == Parsed(p, FirstList(p))
        soc == Parsed(p, p.soc)
        rtl == IF Single(p) THEN <<p.verilog>> ELSE Unique(cpu.rtl \o soc.rtl)
    IN [rtl |-> rtl,
        incdirs |-> Unique(cpu.incdirs \o soc.incdirs),
        defines |-> Unique(cpu.defines \o soc.defines),
        lists |-> cpu.visited \cup soc.visited,
        failed |-> cpu.failed \/ soc.failed \/ rtl = <<>>]

Collected(p) == Collect(Relocated(p))

\* write_generated_rtl_filelist: the lines for a selection of RTL files, of which
\* adapters have the difftest entry point.
GeneratedList(sources, adapters, enable) ==
    LET files == Unique(sources)
    IN (IF enable /\ \E i \in DOMAIN files : files[i] \in adapters
        THEN <<[kind |-> "define", arg |-> "ECOS_DIFFTEST"]>> ELSE <<>>)
       \o <<[kind |-> "incdir", arg |-> "."]>>
       \o [i \in DOMAIN files |-> [kind |-> "rtl", arg |-> files[i]]]

-----------------------------------------------------------------------------
(* workspace_input_fingerprint and _filelist_tree_sha256: paths as they are *)
(* written, and the input list only of a generic workspace.                *)

WatchedRoots(p) == ({p.cpu, p.soc} \cup IF p.generic THEN {p.input} ELSE {}) \ {NoFile}

\* Mutant of Follows: only the spelling with a blank names a nested list.
FollowsBlank(line) == line.kind = "glued"

Follows(line) == line.kind \in {"list", "glued"}

\* What the walk visits: the lists, whether they are there or not.
ListsWatched(p) ==
    LET more(S) == S \cup {f \in Files : \E g \in S : p.at[g] = "here" /\
                        \E i \in DOMAIN p.entries[g] :
                            Follows(p.entries[g][i]) /\ p.entries[g][i].arg = f}
        reach[n \in 0..Cardinality(Files)] ==
            IF n = 0 THEN WatchedRoots(p) ELSE more(reach[n - 1])
    IN reach[Cardinality(Files)]

Listed(p, lists) ==
    {f \in Files : \E g \in lists : p.at[g] = "here" /\
        \E i \in DOMAIN p.entries[g] : p.entries[g][i] = [kind |-> "rtl", arg |-> f]}

\* The files whose text goes into the fingerprint; of any other path only the
\* name and the word "missing" do.
Watched(p) ==
    {f \in ListsWatched(p) \cup Listed(p, ListsWatched(p)) \cup ({p.verilog} \ {NoFile}) : Found(p, f)}

-----------------------------------------------------------------------------
(* Properties. *)

\* What a user means by a tree of lists: whatever can be reached.
ReachableFrom(p, roots) ==
    LET more(S) == S \cup {f \in Files : \E g \in S : \E i \in DOMAIN p.entries[g] :
                               p.entries[g][i] = [kind |-> "list", arg |-> f]}
        reach[n \in 0..Cardinality(Files)] ==
            IF n = 0 THEN roots ELSE more(reach[n - 1])
    IN reach[Cardinality(Files)]

Reachable(p) == ReachableFrom(p, Roots(p))

RtlIn(p, lists) ==
    {f \in Files : \E g \in lists : \E i \in DOMAIN p.entries[g] :
                       p.entries[g][i] = [kind |-> "rtl", arg |-> f]}

Named(p) == IF Single(p) THEN {p.verilog} ELSE RtlIn(p, Reachable(p))

\* runner.py:97.  Lists that name each other do not make prepare loop or lose a
\* file: it fails exactly if a file is missing, in the bundles too, or nothing is
\* named, and else collects every reachable file once.
CollectsWhatIsNamed(p) ==
    LET q == Relocated(p)
        c == Collected(p)
    IN /\ c.failed <=> Named(q) = {} \/ \E f \in Named(q) \cup Reachable(q) : ~Found(q, f)
       /\ ~c.failed =>
             /\ Elements(c.rtl) = Named(q)
             /\ Len(c.rtl) = Cardinality(Named(q))

\* What is read by way of a bundle: the copies of listed files that have moved, and
\* all that these copies name.
Copied(p) ==
    LET q == Relocated(p)
        moved == {f \in ListsWatched(p) \cup Listed(p, ListsWatched(p)) : p.at[f] = "moved"}
        lists == ReachableFrom(q, {p.copy[f] : f \in moved})
    IN lists \cup RtlIn(q, lists)

\* rtl_inputs.py:37.  Every list and every RTL file that prepare has read is in
\* the fingerprint, so that an edit of any of them makes the manifest stale;
\* but for what a bundle provides, and for the input list of a CPU workspace,
\* which the fingerprint leaves out.
WatchesWhatItReads(p) ==
    LET c == Collected(p)
    IN ~c.failed /\ (p.generic \/ FirstList(p) = p.cpu) =>
           c.lists \cup Elements(c.rtl) \subseteq Watched(p) \cup Copied(p)
=============================================================================
