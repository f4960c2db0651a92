---------------------------- MODULE MCRulesProofs ----------------------------
(***************************************************************************)
(* The runs' properties of the rules, as theorems of their specification:   *)
(* each input that MCRules chooses is one that a theorem of RuleProofs is   *)
(* about.                                                                   *)
(***************************************************************************)
EXTENDS MCRules, RuleProofs

Arguments == Paths \cup {"w"}
LineKinds == {"ifdef", "ifndef", "elsif", "else", "endif", "define", "text"}
Ports == [name : {"a", "b", "c"}, direction : Directions, width : Nat]

\* Whatever is chosen is of the form that the code has it in.
InputsAreFormed ==
    /\ Holds("filelists", IsProject(input[1], Arguments))
    /\ Holds("conditionals", input[1] \in Seq(LinesIn(LineKinds, {"a"})))
    /\ Holds("interfaces", /\ input[1] \in Seq(Ports)
                           /\ \A i, j \in DOMAIN input[1] : input[1][i].name = input[1][j].name => i = j)
    /\ Holds("tops", /\ \E X : input[1].contract \in Seq(X) /\ input[1].actual \in Seq(X)
                     /\ input[1].required \in BOOLEAN /\ input[1].identifier \in BOOLEAN)

LEMMA PathsAreFinite == IsFiniteSet(Paths)
<1>1. Paths = {"cpu.f", "soc.f", "nested.f", "a.v", "b.sv", "copy.f", "copy.sv"}
  BY DEF Paths, ListNames, RtlNames
<1>2. IsFiniteSet({"cpu.f"}) /\ IsFiniteSet({"soc.f"}) /\ IsFiniteSet({"nested.f"})
      /\ IsFiniteSet({"a.v"}) /\ IsFiniteSet({"b.sv"}) /\ IsFiniteSet({"copy.f"}) /\ IsFiniteSet({"copy.sv"})
  BY FS_Singleton
<1>3. Paths = {"cpu.f"} \cup ({"soc.f"} \cup ({"nested.f"} \cup ({"a.v"} \cup ({"b.sv"} \cup
                  ({"copy.f"} \cup {"copy.sv"})))))
  BY <1>1
<1> QED BY <1>2, <1>3, FS_Union, Zenon

\* An action of another subject takes none of the inputs that are looked at here.
InputNames == {"filelists", "conditionals", "interfaces", "tops"}
CatalogNames == {"configurations", "catalogchecks", "userlists", "manifests", "selections"}

LEMMA CatalogsChoose ==
    /\ Configurations => Open("configurations")
    /\ CatalogChecks => Open("catalogchecks")
    /\ UserLists => Open("userlists")
    /\ Manifests => Open("manifests")
    /\ Selections => Open("selections")
<1>1. Configurations => Open("configurations")
  BY Zenon DEF Configurations
<1>2. CatalogChecks => Open("catalogchecks")
  BY Zenon DEF CatalogChecks
<1>3. UserLists => Open("userlists")
  BY Zenon DEF UserLists
<1>4. Manifests => Open("manifests")
  BY Zenon DEF Manifests
<1>5. Selections => Open("selections")
  BY Zenon DEF Selections
<1> QED BY <1>1, <1>2, <1>3, <1>4, <1>5, Zenon

LEMMA InputsChoose ==
    /\ Filelists => Open("filelists")
    /\ Conditionals => Open("conditionals")
    /\ Interfaces => Open("interfaces")
    /\ Tops => Open("tops")
<1>1. Filelists => Open("filelists")
  BY Zenon DEF Filelists
<1>2. Conditionals => Open("conditionals")
  BY Zenon DEF Conditionals
<1>3. Interfaces => Open("interfaces")
  BY Zenon DEF Interfaces
<1>4. Tops => Open("tops")
  BY Zenon DEF Tops
<1> QED BY <1>1, <1>2, <1>3, <1>4, Zenon

LEMMA OthersChoose ==
    ASSUME Next
    PROVE  \/ Filelists \/ Conditionals \/ Interfaces \/ Tops
           \/ Configurations \/ CatalogChecks \/ UserLists \/ Manifests \/ Selections
           \/ \E name \in Subjects \ (InputNames \cup CatalogNames) : Open(name)
<1>6. SimulatedCases => Open("simulatedcases")
  BY Zenon DEF SimulatedCases
<1>7. NamedImages => Open("namedimages")
  BY Zenon DEF NamedImages
<1>8. SimulatedRuns => Open("simulatedruns")
  BY Zenon DEF SimulatedRuns
<1>9. Drivers => Open("drivers")
  BY Zenon DEF Drivers
<1>10. SimulationSteps => Open("simulationsteps")
  BY Zenon DEF SimulationSteps
<1>11. ProgramSets => Open("programsets")
  BY Zenon DEF ProgramSets
<1>12. Reports => Open("reports")
  BY Zenon DEF Reports
<1>13. Elaborations => Open("elaborations")
  BY Zenon DEF Elaborations
<1>14. Lints => Open("lints")
  BY Zenon DEF Lints
<1>15. ReviewSourcesOf => Open("reviewedsources")
  BY Zenon DEF ReviewSourcesOf
<1>16. Netlists => Open("netlists")
  BY Zenon DEF Netlists
<1>17. Populations => Open("populations")
  BY Zenon DEF Populations
<1>18. YosysRuns => Open("yosysruns")
  BY Zenon DEF YosysRuns
<1>19. IssueReports => Open("issuereports")
  BY Zenon DEF IssueReports
<1>21. Requests => Open("requests")
  BY Zenon DEF Requests
<1>22. Defaults => Open("defaults")
  BY Zenon DEF Defaults
<1>23. SuiteContracts => Open("suitecontracts")
  BY Zenon DEF SuiteContracts
<1>24. AppliedSuites => Open("appliedsuites")
  BY DEF AppliedSuites
<1>25. ProjectRunsOf => Open("projectruns")
  BY Zenon DEF ProjectRunsOf
<1>26. Targets => Open("targets")
  BY DEF Targets
<1> QED BY <1>6, <1>7, <1>8, <1>9, <1>10, <1>11, <1>12, <1>13, <1>14, <1>15, <1>16, <1>17, <1>18, <1>19, <1>21, <1>22, <1>23, <1>24, <1>25, <1>26 DEF Next, Subjects, InputNames, CatalogNames

\* The lists of up to two elements are lists.
LEMMA PairsAre == ASSUME NEW X PROVE Pairs(X) \subseteq Seq(X) /\ Short(X) \subseteq Seq(X)
<1>1. ASSUME NEW x \in X PROVE <<x>> \in Seq(X)
  OBVIOUS
<1>2. ASSUME NEW q \in X \X X PROVE q \in Seq(X)
  <2>1. PICK x \in X, y \in X : q = <<x, y>>
    OBVIOUS
  <2>2. <<x, y>> \in Seq(X)
    OBVIOUS
  <2> QED BY <2>1, <2>2
<1>3. Short(X) \subseteq Seq(X)
  <2>1. PICK ones : ones = {<<x>> : x \in X}
    OBVIOUS
  <2>2. ASSUME NEW q \in ones PROVE q \in Seq(X)
    <3>1. PICK x \in X : q = <<x>>
      BY <2>1, Zenon
    <3> QED BY <1>1, <3>1, Zenon
  <2>3. <<>> \in Seq(X)
    OBVIOUS
  <2>4. {<<>>} \cup ones \subseteq Seq(X)
    BY <2>2, <2>3, Zenon
  <2> QED BY <2>1, <2>4, Zenon DEF Short
<1>4. X \X X \subseteq Seq(X)
  BY <1>2, Zenon
<1> QED BY <1>3, <1>4, Zenon DEF Pairs

LEMMA UpToAre == ASSUME NEW X, NEW n \in Nat PROVE UpTo(X, n) \subseteq Seq(X)
BY DEF UpTo

\* The parts of a project that every choice of one has.
LEMMA PartsAreFormed ==
    ASSUME NEW gone, NEW L, NEW e1 \in Seq(L), NEW e2 \in Seq(L), NEW e3 \in Seq(L)
    PROVE  /\ At(gone) \in [Files -> {"here", "moved", "absent"}]
           /\ Copies \in [Files -> Files]
           /\ Entries(e1, e2, e3) \in [Files -> Seq(L)]
<1>1. At(gone) \in [Paths -> {"here", "moved", "absent"}]
  BY DEF At
<1>2. Copies \in [Paths -> Paths]
  <2>1. ASSUME NEW f \in DOMAIN CopyOf PROVE CopyOf[f] \in Paths
    <3>1. CopyOf[f] \in {"copy.f", "copy.sv"}
      BY <2>1 DEF CopyOf
    <3> QED BY <3>1 DEF Paths
  <2> QED BY <2>1 DEF Copies
<1>3. Entries(e1, e2, e3) \in [Paths -> Seq(L)]
  <2>1. <<>> \in Seq(L)
    OBVIOUS
  <2> QED BY <2>1 DEF Entries
<1> QED BY <1>1, <1>2, <1>3, PathsAssumption

LEMMA ListsAre ==
    ASSUME NEW K, K \subseteq LinesOf(Arguments), NEW s, s \in Short(K) \/ s \in Pairs(K)
    PROVE  s \in Seq(LinesOf(Arguments))
<1>1. s \in Seq(K)
  BY PairsAre
<1>2. \A i \in 1..Len(s) : s[i] \in K
  BY <1>1, ElementOfSeq
<1> QED BY <1>1, <1>2

LEMMA RootLinesAre == RootLines \subseteq LinesOf(Arguments)
<1> SUFFICES ASSUME NEW line \in RootLines PROVE line \in LinesOf(Arguments)
  OBVIOUS
<1> QED BY PathsAssumption DEF RootLines, Line, LinesOf, Arguments, Paths, ListNames, RtlNames

RootNames == {"cpu.f", "soc.f", "nested.f", "b.sv", "none"}

LEMMA RootNamesAre == RootNames \subseteq Files \cup {NoFile}
BY PathsAssumption DEF RootNames, Paths, ListNames, RtlNames

LEMMA FormedProject ==
    ASSUME NEW cpu \in RootNames, NEW soc \in RootNames, NEW first \in RootNames, NEW verilog \in RootNames,
           NEW generic, NEW gone,
           NEW e1 \in Seq(LinesOf(Arguments)), NEW e2 \in Seq(LinesOf(Arguments)), NEW e3 \in Seq(LinesOf(Arguments)),
           NEW p, HasFields(p), p.cpu = cpu, p.soc = soc, p.input = first, p.verilog = verilog,
           p.at = At(gone), p.copy = Copies, p.entries = Entries(e1, e2, e3)
    PROVE  IsProject(p, Arguments)
<1>1. /\ At(gone) \in [Files -> {"here", "moved", "absent"}] /\ Copies \in [Files -> Files]
      /\ Entries(e1, e2, e3) \in [Files -> Seq(LinesOf(Arguments))]
  BY PartsAreFormed
<1>2. \A root \in {p.cpu, p.soc, p.input, p.verilog} : root \in Files \cup {NoFile}
  BY RootNamesAre, Zenon
<1> QED BY <1>1, <1>2, Zenon DEF IsProject

RootChoices == {<<"cpu.f", "none", "none">>, <<"cpu.f", "soc.f", "none">>, <<"none", "none", "cpu.f">>,
           <<"none", "none", "nested.f">>}

LEMMA RootChoicesAre ==
    ASSUME NEW roots \in RootChoices
    PROVE  roots[1] \in RootNames /\ roots[2] \in RootNames /\ roots[3] \in RootNames
<1>1. CASE roots = <<"cpu.f", "none", "none">>
  BY <1>1 DEF RootNames
<1>2. CASE roots = <<"cpu.f", "soc.f", "none">>
  BY <1>2 DEF RootNames
<1>3. CASE roots = <<"none", "none", "cpu.f">>
  BY <1>3 DEF RootNames
<1>4. CASE roots = <<"none", "none", "nested.f">>
  BY <1>4 DEF RootNames
<1> QED BY <1>1, <1>2, <1>3, <1>4, Zenon DEF RootChoices

LEMMA FilelistsAreFormed ==
    ASSUME Filelists
    PROVE  \E p : input' = <<p>> /\ IsProject(p, Arguments)
<1>1. PICK e1 \in Pairs(RootLines), e2 \in Short(RootLines), e3 \in Short(RootLines), gone \in Gone,
           roots \in RootChoices, generic \in BOOLEAN :
        Take([cpu |-> roots[1], soc |-> roots[2], input |-> roots[3], verilog |-> "b.sv", generic |-> generic,
              at |-> At(gone), copy |-> Copies, entries |-> Entries(e1, e2, e3)])
  BY Zenon DEF Filelists, RootChoices
<1>2. PICK c, s, i, a, y, e : /\ c = roots[1] /\ s = roots[2] /\ i = roots[3]
                              /\ a = At(gone) /\ y = Copies /\ e = Entries(e1, e2, e3)
  BY Zenon
<1>3. PICK p : p = ProjectOf(c, s, i, "b.sv", generic, a, y, e)
  BY Zenon
<1>4. input' = <<p>>
  <2>1. p = [cpu |-> c, soc |-> s, input |-> i, verilog |-> "b.sv", generic |-> generic,
             at |-> a, copy |-> y, entries |-> e]
    BY ONLY <1>3, Zenon DEF ProjectOf
  <2>2. Take([cpu |-> c, soc |-> s, input |-> i, verilog |-> "b.sv", generic |-> generic,
              at |-> a, copy |-> y, entries |-> e])
    BY <1>1, <1>2, Zenon
  <2> QED BY <2>1, <2>2, Zenon DEF Take
<1>5. /\ p.cpu = c /\ p.soc = s /\ p.input = i /\ p.verilog = "b.sv" /\ p.at = a /\ p.copy = y
      /\ p.entries = e
  BY ONLY <1>3 DEF ProjectOf
<1>6. HasFields(p)
  BY <1>3, ProjectHasFields, Zenon
<1>7. e1 \in Seq(LinesOf(Arguments)) /\ e2 \in Seq(LinesOf(Arguments)) /\ e3 \in Seq(LinesOf(Arguments))
  BY RootLinesAre, ListsAre, Zenon
<1>8. c \in RootNames /\ s \in RootNames /\ i \in RootNames /\ "b.sv" \in RootNames
  BY <1>2, RootChoicesAre DEF RootNames
<1>9. p.at = At(gone) /\ p.copy = Copies /\ p.entries = Entries(e1, e2, e3)
  BY <1>2, <1>5, Zenon
<1>10. IsProject(p, Arguments)
  BY <1>5, <1>6, <1>7, <1>8, <1>9, FormedProject, Zenon
<1> QED BY <1>4, <1>10, Zenon

LEMMA ConditionalsAreFormed ==
    ASSUME Conditionals
    PROVE  \E lines : input' = <<lines>> /\ lines \in Seq(LinesIn(LineKinds, {"a"}))
<1>1. PICK kinds \in UpTo(LineKinds, 5) : Take([i \in DOMAIN kinds |-> [kind |-> kinds[i], name |-> "a"]])
  BY Zenon DEF Conditionals, LineKinds
<1>2. kinds \in Seq(LineKinds)
  BY UpToAre
<1>3. [i \in DOMAIN kinds |-> [kind |-> kinds[i], name |-> "a"]] \in Seq(LinesIn(LineKinds, {"a"}))
  <2>1. \A i \in 1..Len(kinds) : [kind |-> kinds[i], name |-> "a"] \in LinesIn(LineKinds, {"a"})
    <3>1. \A i \in 1..Len(kinds) : kinds[i] \in LineKinds
      BY <1>2, ElementOfSeq
    <3> QED BY <3>1 DEF LinesIn
  <2>2. DOMAIN kinds = 1..Len(kinds) /\ Len(kinds) \in Nat
    BY <1>2, LenProperties
  <2> QED BY <2>1, <2>2
<1> QED BY <1>1, <1>3 DEF Take

LEMMA InterfacesAreFormed ==
    ASSUME Interfaces
    PROVE  \E ports \in Seq(Ports) : /\ input' = <<ports>>
                                     /\ \A i, j \in DOMAIN ports : ports[i].name = ports[j].name => i = j
<1>1. PICK n \in 0..3, dir \in [1..3 -> {"input", "output"}], width \in [1..3 -> 1..2] :
        Take([i \in 1..n |-> Port(<<"a", "b", "c">>[i], dir[i], width[i])])
  BY Zenon DEF Interfaces
<1> DEFINE ports == [i \in 1..n |-> Port(<<"a", "b", "c">>[i], dir[i], width[i])]
<1>2. input' = <<ports>>
  BY <1>1 DEF Take
<1>3. \A i \in 1..n : /\ ports[i] \in Ports /\ ports[i].name = <<"a", "b", "c">>[i]
                      /\ i \in {1, 2, 3}
  BY DEF Port, Ports, Directions
<1>4. ports \in Seq(Ports) /\ DOMAIN ports = 1..n
  BY <1>3
<1>5. \A i, j \in {1, 2, 3} : <<"a", "b", "c">>[i] = <<"a", "b", "c">>[j] => i = j
  OBVIOUS
<1>6. \A i, j \in DOMAIN ports : ports[i].name = ports[j].name => i = j
  BY <1>3, <1>4, <1>5
<1> HIDE DEF ports
<1> QED BY <1>2, <1>4, <1>6

LEMMA TopsAreFormed ==
    ASSUME Tops
    PROVE  \E w, X : /\ input' = <<w>> /\ w.contract \in Seq(X) /\ w.actual \in Seq(X)
                     /\ w.required \in BOOLEAN /\ w.identifier \in BOOLEAN
<1> DEFINE A == {Port("a", "input", 1), Port("a", "input", 2), Port("b", "input", 1),
                 Port("b", "input", 0), Port("b", "unknown", 1)}
           B == {Port("a", "input", 1), Port("a", "output", 1), Port("a", "input", 2),
                 Port("b", "input", 1), Port("b", "input", 0)}
<1>1. PICK contract \in Pairs(A), actual \in Pairs(B),
           situation \in {<<"cpu_core", TRUE, TRUE>>, <<"cpu_core", FALSE, TRUE>>,
                          <<"cpu_core", TRUE, FALSE>>, <<"generic_rtl", FALSE, TRUE>>},
           definitions \in 0..2 :
        Take([kind |-> situation[1], required |-> situation[2], identifier |-> situation[3],
              definitions |-> definitions, contract |-> contract, actual |-> actual])
  BY Zenon DEF Tops
<1> DEFINE w == [kind |-> situation[1], required |-> situation[2], identifier |-> situation[3],
                 definitions |-> definitions, contract |-> contract, actual |-> actual]
<1>2. input' = <<w>>
  BY <1>1 DEF Take
<1>3. w.required \in BOOLEAN /\ w.identifier \in BOOLEAN
  <2>1. situation[2] \in BOOLEAN /\ situation[3] \in BOOLEAN
    <3>1. CASE situation = <<"cpu_core", TRUE, TRUE>>
      BY <3>1
    <3>2. CASE situation = <<"cpu_core", FALSE, TRUE>>
      BY <3>2
    <3>3. CASE situation = <<"cpu_core", TRUE, FALSE>>
      BY <3>3
    <3>4. CASE situation = <<"generic_rtl", FALSE, TRUE>>
      BY <3>4
    <3> QED BY <3>1, <3>2, <3>3, <3>4, Zenon
  <2>2. w.required = situation[2] /\ w.identifier = situation[3]
    OBVIOUS
  <2> QED BY <2>1, <2>2, Zenon
<1>4. w.contract \in Seq(A \cup B) /\ w.actual \in Seq(A \cup B)
  <2> HIDE DEF A, B
  <2>1. contract \in Seq(A) /\ actual \in Seq(B)
    BY PairsAre
  <2> QED BY <2>1
<1> HIDE DEF w
<1> QED BY <1>2, <1>3, <1>4

LEMMA Selects ==
    ASSUME NEW value, input' = <<value>>
    PROVE  input'[1] = value /\ input' # <<>>
OBVIOUS

LEMMA InputsStayFormed ==
    ASSUME InputsAreFormed, [Next]_vars
    PROVE  InputsAreFormed'
<1> USE DEF InputsAreFormed, Holds
<1>1. CASE UNCHANGED vars
  BY <1>1 DEF vars
<1>2. CASE Filelists
  <2>1. PICK p : input' = <<p>> /\ IsProject(p, Arguments)
    BY <1>2, FilelistsAreFormed
  <2>2. subject' = "filelists" /\ input'[1] = p
    BY <1>2, <2>1, Selects, Zenon DEF Filelists, Open
  <2> QED BY <2>1, <2>2
<1>3. CASE Conditionals
  <2>1. PICK lines : input' = <<lines>> /\ lines \in Seq(LinesIn(LineKinds, {"a"}))
    BY <1>3, ConditionalsAreFormed
  <2>2. subject' = "conditionals" /\ input'[1] = lines
    BY <1>3, <2>1, Selects, Zenon DEF Conditionals, Open
  <2> QED BY <2>1, <2>2
<1>4. CASE Interfaces
  <2>1. PICK ports \in Seq(Ports) : /\ input' = <<ports>>
                                    /\ \A i, j \in DOMAIN ports : ports[i].name = ports[j].name => i = j
    BY <1>4, InterfacesAreFormed
  <2>2. subject' = "interfaces" /\ input'[1] = ports
    BY <1>4, <2>1, Selects, Zenon DEF Interfaces, Open
  <2> QED BY <2>1, <2>2
<1>5. CASE Tops
  <2>1. PICK w, X : /\ input' = <<w>> /\ w.contract \in Seq(X) /\ w.actual \in Seq(X)
                    /\ w.required \in BOOLEAN /\ w.identifier \in BOOLEAN
    BY <1>5, TopsAreFormed
  <2>2. subject' = "tops" /\ input'[1] = w
    BY <1>5, <2>1, Selects, Zenon DEF Tops, Open
  <2> QED BY <2>1, <2>2
<1>6. ASSUME NEW name \in Subjects \ InputNames, Open(name)
      PROVE  InputsAreFormed'
  BY <1>6 DEF Open, InputNames
<1>7. ASSUME NEW name \in CatalogNames, Open(name) PROVE InputsAreFormed'
  BY <1>7 DEF Open, CatalogNames
<1>8. CASE Configurations \/ CatalogChecks \/ UserLists \/ Manifests \/ Selections
  <2> HIDE DEF InputsAreFormed
  <2> QED BY <1>7, <1>8, CatalogsChoose, Zenon DEF CatalogNames
<1> HIDE DEF InputsAreFormed
<1> QED BY <1>1, <1>2, <1>3, <1>4, <1>5, <1>6, <1>8, OthersChoose DEF InputNames, CatalogNames

LEMMA FormedInputsAreRight ==
    ASSUME InputsAreFormed
    PROVE  InputsAreFoundAndWatched
<1>1. ASSUME subject = "filelists", input # <<>>
      PROVE  CollectsWhatIsNamed(input[1]) /\ WatchesWhatItReads(input[1])
  <2>1. IsProject(input[1], Arguments)
    BY <1>1 DEF InputsAreFormed, Holds
  <2>2. IsFiniteSet(Files)
    BY PathsAreFinite, PathsAssumption
  <2> QED BY <2>1, <2>2, ListsAreCollected, ReadFilesAreWatched
<1>2. ASSUME subject = "conditionals", input # <<>> PROVE ConditionalsAreResolved(input[1], {})
  <2>1. input[1] \in Seq(LinesIn(LineKinds, {"a"}))
    BY <1>2 DEF InputsAreFormed, Holds
  <2> QED BY <2>1, ConditionalsAreMeant
<1>3. ASSUME subject = "interfaces", input # <<>> PROVE StyleDoesNotMatter(input[1])
  <2>1. /\ input[1] \in Seq(Ports)
        /\ \A i, j \in DOMAIN input[1] : input[1][i].name = input[1][j].name => i = j
    BY <1>3 DEF InputsAreFormed, Holds
  <2> QED BY <2>1, StylesAreRead DEF Ports
<1>4. ASSUME subject = "tops", input # <<>> PROVE PassMeansSameInterface(input[1])
  <2>1. PICK X : /\ input[1].contract \in Seq(X) /\ input[1].actual \in Seq(X)
                 /\ input[1].required \in BOOLEAN /\ input[1].identifier \in BOOLEAN
    BY <1>4 DEF InputsAreFormed, Holds
  <2> QED BY <2>1, TopsAreAccepted
<1> QED BY <1>1, <1>2, <1>3, <1>4 DEF InputsAreFoundAndWatched, Holds

\* RtlInputs and TopContract: whatever input is chosen, prepare collects what its
\* lists name, watches what it reads, and accepts a top for its interface.
THEOREM InputsAreRight == Spec => []InputsAreFoundAndWatched
<1>1. Init => InputsAreFormed
  BY DEF Init, InputsAreFormed, Holds
<1>2. InputsAreFormed /\ [Next]_vars => InputsAreFormed'
  BY InputsStayFormed
<1>3. InputsAreFormed => InputsAreFoundAndWatched
  BY FormedInputsAreRight
<1> QED BY <1>1, <1>2, <1>3, PTL DEF Spec

-----------------------------------------------------------------------------
(* The catalog. *)

ConfigurationFormed(c) == c.suite \in SuiteTable
CheckFormed(c) == /\ EmptyIsNoFile(c.soc) /\ DOMAIN c.soc.sources \subseteq {1}
                  /\ c.soc.sources # <<>> => 1 \in DOMAIN c.soc.sources
UserListFormed(u) == /\ IsProject(u.project, Arguments)
                     /\ u.project.cpu \in Files /\ Found(u.project, u.project.cpu) /\ u.project.soc = NoFile
                     /\ \E X : u.project.ports \in [Files -> Seq(X)] /\ u.core.contract \in Seq(X)
SelectionFormed(s) == s.sources \in Seq(RtlNames) /\ s.enable \in BOOLEAN

CatalogIsFormed ==
    /\ Holds("configurations", ConfigurationFormed(input[1]))
    /\ Holds("catalogchecks", CheckFormed(input[1]))
    /\ Holds("userlists", UserListFormed(input[1]))
    /\ Holds("manifests", ManifestsFormed(input[1]))
    /\ Holds("selections", SelectionFormed(input[1]))

LEMMA SuiteOfConfiguration ==
    ASSUME NEW a, NEW b, NEW s \in SuiteTable, NEW t, NEW l, NEW x, NEW y
    PROVE  ConfigurationFormed([core |-> a, soc |-> b, suite |-> s, toolchain |-> t,
                                list |-> l, top |-> x, identifier |-> y])
BY DEF ConfigurationFormed

LEMMA ConfigurationsAreFormed == ASSUME Configurations PROVE \E c : input' = <<c>> /\ ConfigurationFormed(c)
<1>1. PICK level \in {FilelistLevel, SimLevel}, isa \in {{}, {"rv32i"}, {"rv64"}}, socket \in {"s1", "s2"},
       reset \in {"", "r1"}, suites \in SuiteSets,
       kind \in {<<"custom-filelist", TRUE, "", "stable">>, <<"builtin", FALSE, "cpu.f", "experimental">>},
       soclevel \in {FilelistLevel, SimLevel}, socreset \in {"r1", "r2"},
       socsuites \in SuiteSets, suite \in SuiteTable, toolchain \in {"rv32", "rv64"},
       asked \in {<<"", FALSE, TRUE>>, <<"given", TRUE, TRUE>>, <<"given", TRUE, FALSE>>} :
        Take([core |-> Core(kind[1], level, isa, socket, reset, suites, kind[4], kind[2], kind[3]),
              soc |-> Soc(soclevel, "s1", socreset, socsuites), suite |-> suite,
              toolchain |-> [id |-> "gcc", isa |-> {toolchain}],
              list |-> asked[1], top |-> asked[2], identifier |-> asked[3]])
  BY Zenon DEF Configurations
<1> QED BY <1>1, SuiteOfConfiguration, Zenon DEF Take

Disks == {<<{"x"}, {}>>, <<{"x"}, {"y"}>>, <<{"x", "z"}, {}>>}

LEMMA FilesAreNamed == \A disk \in Disks : "" \notin disk[1] \cup disk[2]
<1>1. "" \notin {"x"} \cup {} /\ "" \notin {"x"} \cup {"y"} /\ "" \notin {"x", "z"} \cup {}
  OBVIOUS
<1>2. ASSUME NEW a, NEW b, "" \notin a \cup b, NEW disk, disk = <<a, b>>
      PROVE  "" \notin disk[1] \cup disk[2]
  BY <1>2, Zenon
<1> QED BY <1>1, <1>2, Zenon DEF Disks

SourceLists == {<<>>, <<{"x", "y"}>>}

LEMMA SourcesAre ==
    ASSUME NEW sources \in SourceLists
    PROVE  DOMAIN sources \subseteq {1} /\ (sources # <<>> => 1 \in DOMAIN sources)
<1>1. CASE sources = <<>>
  BY <1>1
<1>2. CASE sources = <<{"x", "y"}>>
  BY <1>2
<1> QED BY <1>1, <1>2 DEF SourceLists

LEMMA FilesOfCheck ==
    ASSUME NEW a, NEW reset, NEW suites, NEW defines, NEW present, NEW ready, NEW files,
           NEW sources \in SourceLists, NEW disk \in Disks
    PROVE  CheckFormed([core |-> a, soc |-> ReadySoc(reset, suites, defines, present, ready, files, sources, disk)])
<1>1. PICK b : b = ReadySoc(reset, suites, defines, present, ready, files, sources, disk)
  OBVIOUS
<1>2. b.there = disk[1] /\ b.bundled = disk[2] /\ b.sources = sources
  BY ONLY <1>1, Zenon DEF ReadySoc
<1>3. EmptyIsNoFile(b)
  BY <1>2, FilesAreNamed, Zenon DEF EmptyIsNoFile, Present
<1>4. DOMAIN b.sources \subseteq {1} /\ (b.sources # <<>> => 1 \in DOMAIN b.sources)
  BY <1>2, SourcesAre, Zenon
<1> HIDE DEF ReadySoc
<1>5. PICK c : c = [core |-> a, soc |-> b]
  OBVIOUS
<1>6. c.soc = b
  BY ONLY <1>5
<1>7. CheckFormed(c)
  BY <1>3, <1>4, <1>6, Zenon DEF CheckFormed
<1> QED BY <1>1, <1>5, <1>7, Zenon

LEMMA ChecksAreFormed == ASSUME CatalogChecks PROVE \E c : input' = <<c>> /\ CheckFormed(c)
<1>1. PICK reset \in {"", "r1"}, socket \in {"s1", "s2"},
           kind \in {<<TRUE, "">>, <<FALSE, "">>, <<FALSE, "absent">>, <<FALSE, "cpu.f">>},
           defines \in BOOLEAN, suites \in SuiteSets,
           socreset \in {"", "r1"}, files \in [ManifestFields -> {"", "x", "y"}],
           sources \in SourceLists, disk \in Disks, ready \in BOOLEAN, present \in BOOLEAN :
        Take([core |-> CheckedCore(socket, reset, suites, kind, defines),
              soc |-> ReadySoc(socreset, suites, defines, present, ready, files, sources, disk)])
  BY Zenon DEF CatalogChecks, SourceLists, Disks
<1> QED BY <1>1, FilesOfCheck, Zenon DEF Take

LEMMA SelectionsAreFormed == ASSUME Selections PROVE \E s : input' = <<s>> /\ SelectionFormed(s)
<1>1. PICK sources \in UpTo(RtlNames, 3), adapters \in SUBSET RtlNames, enable \in BOOLEAN :
        Take([sources |-> sources, adapters |-> adapters, enable |-> enable])
  BY Zenon DEF Selections
<1>2. PICK s : s = [sources |-> sources, adapters |-> adapters, enable |-> enable]
  OBVIOUS
<1>3. input' = <<s>>
  BY <1>1, <1>2, Zenon DEF Take
<1>4. s.sources = sources /\ s.enable = enable
  BY <1>2
<1>5. sources \in Seq(RtlNames)
  BY UpToAre
<1> QED BY <1>3, <1>4, <1>5, Zenon DEF SelectionFormed

LEMMA NotGone == ASSUME NEW gone \in Gone PROVE At(gone)["cpu.f"] = "here"
<1>1. "cpu.f" \notin {} \cup {} /\ "cpu.f" \notin {"nested.f"} \cup {} /\ "cpu.f" \notin {"b.sv"} \cup {}
      /\ "cpu.f" \notin {} \cup {"b.sv"} /\ "cpu.f" \notin {} \cup {"nested.f"}
      /\ "cpu.f" \notin {} \cup {"nested.f", "b.sv"}
  OBVIOUS
<1>2. ASSUME NEW a, NEW b, "cpu.f" \notin a \cup b, gone = <<a, b>>
      PROVE  "cpu.f" \notin gone[1] \cup gone[2]
  BY <1>2, Zenon
<1>3. "cpu.f" \notin gone[1] \cup gone[2]
  BY <1>1, <1>2, Zenon DEF Gone
<1>4. "cpu.f" \in Paths
  BY DEF Paths, ListNames
<1> QED BY <1>3, <1>4 DEF At

LEMMA OneIsAList ==
    LET X == {Port("x", "input", 1), Port("x", "input", 2), Port("y", "input", 1)}
    IN \A x \in X : <<x>> \in Seq(X)
<1> DEFINE X == {Port("x", "input", 1), Port("x", "input", 2), Port("y", "input", 1)}
<1> HIDE DEF X
<1>1. \A x \in X : <<x>> \in Seq(X)
  OBVIOUS
<1> QED BY <1>1 DEF X

LEMMA UserListsAreFormed == ASSUME UserLists PROVE \E u : input' = <<u>> /\ UserListFormed(u)
<1> DEFINE X == {Port("x", "input", 1), Port("x", "input", 2), Port("y", "input", 1)}
           Cores == {[ports |-> {}, contract |-> <<>>],
                     [ports |-> {"x"}, contract |-> <<Port("x", "input", 1)>>]}
           Few == {Line("rtl", f) : f \in RtlNames} \cup {Line("list", "cpu.f")}
<1>1. PICK e1 \in Pairs(RootLines), e2 \in Short(Few), gone \in Gone, tops \in SUBSET RtlNames,
           actual \in {<<Port("x", "input", 1)>>, <<Port("x", "input", 2)>>, <<Port("y", "input", 1)>>},
           core \in Cores :
        Take([core |-> core,
              project |-> [cpu |-> "cpu.f", soc |-> "none", input |-> "none", verilog |-> "none",
                           generic |-> FALSE, at |-> At(gone), copy |-> Copies,
                           defines |-> [f \in Paths |-> f \in tops \/ (f = "copy.sv" /\ "b.sv" \in tops)],
                           ports |-> [f \in Paths |-> actual],
                           entries |-> Entries(e1, <<>>, e2)]])
  BY Zenon DEF UserLists
<1>2. PICK at, copy, defines, ports, entries :
         /\ at = At(gone) /\ copy = Copies /\ entries = Entries(e1, <<>>, e2)
         /\ defines = [f \in Paths |-> f \in tops \/ (f = "copy.sv" /\ "b.sv" \in tops)]
         /\ ports = [f \in Paths |-> actual]
  BY Zenon
<1>3. PICK p : p = [cpu |-> "cpu.f", soc |-> "none", input |-> "none", verilog |-> "none",
                    generic |-> FALSE, at |-> at, copy |-> copy, defines |-> defines,
                    ports |-> ports, entries |-> entries]
  BY Zenon
<1>4. PICK u : u = [core |-> core, project |-> p]
  BY Zenon
<1>5. input' = <<u>>
  BY <1>1, <1>2, <1>3, <1>4, Zenon DEF Take
<1>6. Few \subseteq LinesOf(Arguments)
  <2>1. ASSUME NEW line \in Few PROVE line \in LinesOf(Arguments)
    BY PathsAssumption DEF Line, LinesOf, Arguments, Paths, ListNames, RtlNames
  <2> HIDE DEF Few
  <2> QED BY <2>1
<1> HIDE DEF Few
<1>7. e1 \in Seq(LinesOf(Arguments)) /\ e2 \in Seq(LinesOf(Arguments)) /\ <<>> \in Seq(LinesOf(Arguments))
  BY <1>6, RootLinesAre, ListsAre, EmptySeq, Zenon
<1>8. "cpu.f" \in Files /\ NoFile = "none"
  BY PathsAssumption DEF Paths, ListNames
<1>9. "cpu.f" \in RootNames /\ "none" \in RootNames
  BY DEF RootNames
<1>12. core.contract \in Seq(X) /\ actual \in Seq(X)
  <2>1. CASE core = [ports |-> {}, contract |-> <<>>]
    <3>1. core.contract = <<>>
      BY <2>1
    <3>2. <<>> \in Seq(X)
      BY EmptySeq
    <3> QED BY <3>1, <3>2, OneIsAList, Zenon
  <2>2. CASE core = [ports |-> {"x"}, contract |-> <<Port("x", "input", 1)>>]
    <3>1. core.contract = <<Port("x", "input", 1)>>
      BY <2>2
    <3> QED BY <3>1, OneIsAList, Zenon
  <2> QED BY <2>1, <2>2
<1> HIDE DEF X, Cores
<1>13. ports \in [Files -> Seq(X)]
  BY <1>2, <1>12, PathsAssumption
<1>14. /\ p.cpu = "cpu.f" /\ p.soc = "none" /\ p.input = "none" /\ p.verilog = "none"
       /\ p.at = at /\ p.copy = copy /\ p.ports = ports /\ p.entries = entries
  BY ONLY <1>3
<1>15. u.project = p /\ u.core = core
  BY ONLY <1>4
<1>16. IsProject(p, Arguments)
  <2>1. HasFields(p)
    BY ONLY <1>3 DEF HasFields
  <2>2. p.at = At(gone) /\ p.copy = Copies /\ p.entries = Entries(e1, <<>>, e2)
    BY <1>2, <1>14, Zenon
  <2> QED BY <1>7, <1>9, <1>14, <2>1, <2>2, FormedProject, Zenon
<1>17. p.cpu \in Files /\ Found(p, p.cpu) /\ p.soc = NoFile
  BY <1>2, <1>8, <1>14, NotGone, Zenon DEF Found
<1>18. UserListFormed(u)
  BY <1>12, <1>13, <1>14, <1>15, <1>16, <1>17, Zenon DEF UserListFormed
<1> QED BY <1>5, <1>18

LEMMA ManifestsAreFormed == ASSUME Manifests PROVE \E m : input' = <<m>> /\ ManifestsFormed(m)
<1>1. PICK builtin \in {<<>>, <<"a">>, <<"a", "b">>}, ids \in UpTo({"a", "b", "c", ""}, 4) :
        Take([builtin |-> [i \in DOMAIN builtin |-> [id |-> builtin[i], version |-> 0]],
              manifests |-> [i \in DOMAIN ids |-> [id |-> ids[i], version |-> i]]])
  BY Zenon DEF Manifests
<1>2. ids \in Seq({"a", "b", "c", ""})
  BY UpToAre
<1>3. ManifestsFormed([builtin |-> [i \in DOMAIN builtin |-> [id |-> builtin[i], version |-> 0]],
                       manifests |-> [i \in DOMAIN ids |-> [id |-> ids[i], version |-> i]]])
  BY <1>2, EntriesAreFormed
<1> QED BY <1>1, <1>3, Zenon DEF Take

LEMMA CatalogStaysFormed ==
    ASSUME CatalogIsFormed, [Next]_vars
    PROVE  CatalogIsFormed'
<1> USE DEF CatalogIsFormed, Holds
<1>1. CASE UNCHANGED vars
  BY <1>1 DEF vars
<1>2. CASE Configurations
  <2>1. PICK c : input' = <<c>> /\ ConfigurationFormed(c)
    BY <1>2, ConfigurationsAreFormed
  <2>2. subject' = "configurations" /\ input'[1] = c
    BY <1>2, <2>1, Selects, CatalogsChoose, Zenon DEF Open
  <2> QED BY <2>1, <2>2
<1>3. CASE CatalogChecks
  <2>1. PICK c : input' = <<c>> /\ CheckFormed(c)
    BY <1>3, ChecksAreFormed
  <2>2. subject' = "catalogchecks" /\ input'[1] = c
    BY <1>3, <2>1, Selects, CatalogsChoose, Zenon DEF Open
  <2> QED BY <2>1, <2>2
<1>4. CASE UserLists
  <2>1. PICK u : input' = <<u>> /\ UserListFormed(u)
    BY <1>4, UserListsAreFormed
  <2>2. subject' = "userlists" /\ input'[1] = u
    BY <1>4, <2>1, Selects, CatalogsChoose, Zenon DEF Open
  <2> QED BY <2>1, <2>2
<1>5. CASE Manifests
  <2>1. PICK m : input' = <<m>> /\ ManifestsFormed(m)
    BY <1>5, ManifestsAreFormed
  <2>2. subject' = "manifests" /\ input'[1] = m
    BY <1>5, <2>1, Selects, CatalogsChoose, Zenon DEF Open
  <2> QED BY <2>1, <2>2
<1>6. CASE Selections
  <2>1. PICK s : input' = <<s>> /\ SelectionFormed(s)
    BY <1>6, SelectionsAreFormed
  <2>2. subject' = "selections" /\ input'[1] = s
    BY <1>6, <2>1, Selects, CatalogsChoose, Zenon DEF Open
  <2> QED BY <2>1, <2>2
<1>7. ASSUME NEW name \in Subjects \ CatalogNames, Open(name) PROVE CatalogIsFormed'
  BY <1>7 DEF Open, CatalogNames
<1>8. CASE Filelists \/ Conditionals \/ Interfaces \/ Tops
  <2>1. /\ "filelists" \in Subjects \ CatalogNames /\ "conditionals" \in Subjects \ CatalogNames
        /\ "interfaces" \in Subjects \ CatalogNames /\ "tops" \in Subjects \ CatalogNames
    BY DEF Subjects, CatalogNames
  <2> HIDE DEF CatalogIsFormed
  <2> QED BY <1>7, <1>8, <2>1, InputsChoose, Zenon
<1> HIDE DEF CatalogIsFormed
<1>9. \A name \in Subjects \ (InputNames \cup CatalogNames) : name \in Subjects \ CatalogNames
  OBVIOUS
<1> QED BY <1>1, <1>2, <1>3, <1>4, <1>5, <1>6, <1>7, <1>8, <1>9, OthersChoose, Zenon

LEMMA SuitesAreIndexed == Indexed(SuiteTable)
<1>1. PICK a, b, c : /\ a = Suite("smoke", "stable", {"sim_ready_harness"})
                     /\ b = Suite("cpu-tests", "stable", {}) /\ c = Suite("arch-test", "planned", {})
  OBVIOUS
<1>2. a.id = "smoke" /\ b.id = "cpu-tests" /\ c.id = "arch-test"
  BY <1>1 DEF Suite
<1>3. SuiteTable = {a, b, c}
  BY <1>1, Zenon DEF SuiteTable
<1>4. a.id # b.id /\ a.id # c.id /\ b.id # c.id
  BY ONLY <1>2
<1> QED BY <1>3, <1>4, Zenon DEF Indexed

LEMMA EmptyProjectIs ==
    /\ EmptyProject \in ProjectsOf(Arguments \cup {".", "ECOS_DIFFTEST"})
    /\ \A f \in Files : Found(EmptyProject, f)
<1>1. PICK at, entries : at = [f \in Paths |-> "here"] /\ entries = [f \in Paths |-> <<>>]
  BY Zenon
<1>2. EmptyProject = [cpu |-> "none", soc |-> "none", input |-> "none", verilog |-> "none", generic |-> FALSE,
                      at |-> at, copy |-> Copies, entries |-> entries]
  BY <1>1, Zenon DEF EmptyProject
<1>3. at \in [Files -> {"here", "moved", "absent"}] /\ \A f \in Files : at[f] = "here"
  BY <1>1, PathsAssumption
<1>4. entries \in [Files -> Seq(LinesOf(Arguments \cup {".", "ECOS_DIFFTEST"}))]
  <2>1. PICK L : L = LinesOf(Arguments \cup {".", "ECOS_DIFFTEST"})
    OBVIOUS
  <2>2. <<>> \in Seq(L)
    BY EmptySeq
  <2> QED BY <1>1, <2>1, <2>2, PathsAssumption
<1>5. NoFile = "none"
  BY PathsAssumption
<1>6. Copies \in [Files -> Files]
  <2>1. <<>> \in Seq({})
    BY EmptySeq
  <2> QED BY <2>1, PartsAreFormed
<1>7. EmptyProject \in ProjectsOf(Arguments \cup {".", "ECOS_DIFFTEST"})
  <2>1. PICK c : c = Copies
    OBVIOUS
  <2> QED BY <1>2, <1>3, <1>4, <1>5, <1>6, <2>1 DEF ProjectsOf
<1>8. EmptyProject.at = at
  BY ONLY <1>2
<1> QED BY <1>3, <1>7, <1>8, Zenon DEF Found

LEMMA FormedCatalogIsRight ==
    ASSUME CatalogIsFormed
    PROVE  CatalogIsConsistent
<1>0. IsFiniteSet(Files)
  BY PathsAreFinite, PathsAssumption
<1>1. ASSUME subject = "configurations", input # <<>>
      PROVE  \A p : MatrixMeansCreatable(input[1], SuiteTable, p)
  <2>1. input[1].suite \in SuiteTable
    BY <1>1, Zenon DEF CatalogIsFormed, Holds, ConfigurationFormed
  <2> QED BY <2>1, SuitesAreIndexed, MatrixIsTheValidation
<1>2. ASSUME subject = "catalogchecks", input # <<>>
      PROVE  CheckedEntriesFit(input[1].core, input[1].soc, SuiteTable)
  <2>1. CheckFormed(input[1])
    BY <1>2, Zenon DEF CatalogIsFormed, Holds
  <2>2. PICK core, soc : core = input[1].core /\ soc = input[1].soc
    OBVIOUS
  <2>3. EmptyIsNoFile(soc) /\ DOMAIN soc.sources \subseteq {1} /\ (soc.sources # <<>> => 1 \in DOMAIN soc.sources)
    BY <2>1, <2>2, Zenon DEF CheckFormed
  <2>4. CheckedEntriesFit(core, soc, SuiteTable)
    BY <2>3, CheckedCatalogsFit
  <2> QED BY <2>2, <2>4, Zenon
<1>3. ASSUME subject = "userlists", input # <<>>
      PROVE  WhatIsValidatedIsPrepared(input[1].core, input[1].project)
  <2>1. UserListFormed(input[1])
    BY <1>3, Zenon DEF CatalogIsFormed, Holds
  <2>2. PICK p, core : p = input[1].project /\ core = input[1].core
    OBVIOUS
  <2>3. /\ IsProject(p, Arguments) /\ p.cpu \in Files /\ Found(p, p.cpu) /\ p.soc = NoFile
        /\ \E X : p.ports \in [Files -> Seq(X)] /\ core.contract \in Seq(X)
    BY <2>1, <2>2, Zenon DEF UserListFormed
  <2>4. PICK X : p.ports \in [Files -> Seq(X)] /\ core.contract \in Seq(X)
    BY <2>3, Zenon
  <2> QED BY <1>0, <2>2, <2>3, <2>4, ValidatedListsArePrepared
<1>4. ASSUME subject = "manifests", input # <<>>
      PROVE  LastManifestCounts(input[1].builtin, input[1].manifests)
  <2>1. ManifestsFormed(input[1])
    BY <1>4, Zenon DEF CatalogIsFormed, Holds
  <2>2. PICK b, m : b = input[1].builtin /\ m = input[1].manifests
    OBVIOUS
  <2>3. /\ \E E : b \in Seq(E) /\ m \in Seq(E)
        /\ \A i \in DOMAIN b : Identified(b[i])
        /\ \A i, j \in DOMAIN b : b[i].id = b[j].id => i = j
    BY <2>1, <2>2, Zenon DEF ManifestsFormed
  <2>4. PICK E : b \in Seq(E) /\ m \in Seq(E)
    BY <2>3, Zenon
  <2>5. LastManifestCounts(b, m)
    BY <2>3, <2>4, LastManifestsCount
  <2> QED BY <2>2, <2>5
<1>5. ASSUME subject = "selections", input # <<>>
      PROVE  GeneratedListIsReadBack(EmptyProject, "cpu.f", input[1].sources, input[1].adapters, input[1].enable)
  <2>1. input[1].sources \in Seq(RtlNames) /\ input[1].enable \in BOOLEAN
    BY <1>5, Zenon DEF CatalogIsFormed, Holds, SelectionFormed
  <2>2. PICK A : A = Arguments \cup {".", "ECOS_DIFFTEST"}
    OBVIOUS
  <2>3. EmptyProject \in ProjectsOf(A) /\ (\A f \in Files : Found(EmptyProject, f))
        /\ "ECOS_DIFFTEST" \in A /\ "." \in A
    BY <2>2, EmptyProjectIs
  <2>4. RtlNames \subseteq Files /\ "cpu.f" \in Files
    BY PathsAssumption DEF Paths, ListNames
  <2>5. PICK r \in Seq(RtlNames) : r = input[1].sources
    BY <2>1
  <2>6. r \in Seq(Files) /\ Elements(r) \subseteq Files
    <3>1. \A i \in 1..Len(r) : r[i] \in Files
      BY <2>4, ElementOfSeq
    <3>2. r \in Seq(Files)
      BY <3>1
    <3> QED BY <3>2, ElementsAre
  <2>7. \A f \in Elements(r) : Found(EmptyProject, f)
    BY <2>3, <2>6
  <2>8. Found(EmptyProject, "cpu.f")
    BY <2>3, <2>4
  <2> HIDE DEF EmptyProject
  <2> QED BY <1>0, <2>1, <2>3, <2>4, <2>5, <2>6, <2>7, <2>8, GeneratedListsAreReadBack
<1> QED BY <1>1, <1>2, <1>3, <1>4, <1>5, Zenon DEF CatalogIsConsistent, Holds

\* CatalogRules: whatever is chosen, the matrix is the validation, checked entries fit,
\* what is validated is prepared, the last manifest counts, and a list that the
\* service writes is read back (compatibility.py, registry.py, contract.py).
THEOREM CatalogIsRight == Spec => []CatalogIsConsistent
<1>1. Init => CatalogIsFormed
  BY DEF Init, CatalogIsFormed, Holds
<1>2. CatalogIsFormed /\ [Next]_vars => CatalogIsFormed'
  BY CatalogStaysFormed
<1>3. CatalogIsFormed => CatalogIsConsistent
  BY FormedCatalogIsRight
<1> QED BY <1>1, <1>2, <1>3, PTL DEF Spec
=============================================================================
