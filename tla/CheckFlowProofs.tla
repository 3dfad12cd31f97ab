--------------------------- MODULE CheckFlowProofs ---------------------------
(***************************************************************************)
(* What the verdicts of the check flow are worth, proved for any number of *)
(* commands and faults and any sets of tools.  The scripts enter through   *)
(* two facts each: every report file is written by one script only, and    *)
(* no early way out of a check returns 0.                                  *)
(***************************************************************************)
EXTENDS CheckFlow, TLAPS

-----------------------------------------------------------------------------
(* The scripts. *)

\* The script that writes a file.
WriterOf(f) ==
  CASE f = "hex"            -> "directed_generation"
    [] f = "tool_versions"  -> "tool_detection"
    [] f = "reference_json" -> "reference_regression"
    [] f = "timing_json"    -> "microarchitecture_model"
    [] f = "divider_json"   -> "divider_algorithm_stress"
    [] f = "frontend_json"  -> "front_end_replay_stress"
    [] f = "isa_json"       -> "required_ISA_exercise"
    [] f = "stimulus_json"  -> "reference_stimulus_coverage"
    [] f = "static_audit"   -> "static_RTL_audit"
    [] f = "formal_audit"   -> "formal_flow_source_audit"
    [] f = "tool_audit"     -> "EDA_CI_tool_flow_audit"
    [] f \in {"trace", "status", "rtl_log"}           -> "RTL_simulation"
    [] f \in {"rtl_cov_json", "rtl_cov_md"}           -> "RTL_functional_coverage"
    [] f \in {"code_cov_json", "code_cov_md"}         -> "Verilator_RTL_code_coverage"
    [] f = "perf_md"        -> "RTL_performance_compare"
    [] f = "lint_report"    -> "Verilator_lint"
    [] f = "formal_report"  -> "formal"
    [] f \in {"synth_report", "timing_report"}        -> "Yosys_synthesis"
    [] f \in {"mapped_report", "sta_report"}          -> Asic

Own(c) == {f \in FileNames : WriterOf(f) = c}

\* What a script makes a report file say.
Said == {"pass", "fail", "unavailable", "not_run"}

\* A way out of script c: it writes files of c and, in a check, fails.
EndsWell(c, e) ==
  /\ e \in [rc : 0 .. 2, writes : Seq([file : Own(c), verdict : Said])]
  /\ c # Asic => e.rc # 0
\* A step of script c: what it writes is a file of c, and each way out is as above.
StepsWell(c, s) ==
  /\ s.writes \subseteq Own(c)
  /\ EndsWell(c, s.lack)
  /\ \A e \in s.ends : EndsWell(c, e)

LEMMA EndIs ==
  ASSUME NEW c, NEW fs \in Seq(Own(c))
  PROVE  /\ EndsWell(c, End(1, fs, "fail")) /\ EndsWell(c, End(2, fs, "fail"))
         /\ EndsWell(c, End(2, fs, "unavailable")) /\ EndsWell(c, End(2, fs, "not_run"))
<1> DEFINE own == Own(c)
           W   == Seq([file : own, verdict : Said])
           w(v) == [i \in DOMAIN fs |-> [file |-> fs[i], verdict |-> v]]
<1>1. fs \in Seq(own)
  OBVIOUS
<1> HIDE DEF own
<1>2. w("fail") \in W /\ w("unavailable") \in W /\ w("not_run") \in W
  <2> DEFINE R == [file : own, verdict : Said]
             n == Len(fs)
  <2>1. n \in Nat /\ DOMAIN fs = 1 .. n /\ \A i \in 1 .. n : fs[i] \in own
    BY <1>1
  <2>2. ASSUME NEW v \in Said
        PROVE  w(v) \in Seq(R)
    <3>1. \A i \in 1 .. n : [file |-> fs[i], verdict |-> v] \in R
      BY <2>1
    <3> HIDE DEF R, n
    <3>2. w(v) = [i \in 1 .. n |-> [file |-> fs[i], verdict |-> v]]
      BY <2>1
    <3>3. [i \in 1 .. n |-> [file |-> fs[i], verdict |-> v]] \in Seq(R)
      BY <2>1, <3>1
    <3> HIDE DEF w
    <3> QED
      BY <3>2, <3>3
  <2>3. "fail" \in Said /\ "unavailable" \in Said /\ "not_run" \in Said
    BY DEF Said
  <2> HIDE DEF w, R
  <2>4. w("fail") \in Seq(R) /\ w("unavailable") \in Seq(R) /\ w("not_run") \in Seq(R)
    BY <2>2, <2>3
  <2> QED
    BY <2>4 DEF R
<1> HIDE DEF W
<1>3. /\ [rc |-> 1, writes |-> w("fail")] \in [rc : 0 .. 2, writes : W]
      /\ [rc |-> 2, writes |-> w("fail")] \in [rc : 0 .. 2, writes : W]
      /\ [rc |-> 2, writes |-> w("unavailable")] \in [rc : 0 .. 2, writes : W]
      /\ [rc |-> 2, writes |-> w("not_run")] \in [rc : 0 .. 2, writes : W]
  BY <1>2
<1> QED
  BY <1>3 DEF EndsWell, End, own, W

LEMMA Lists ==
  ASSUME NEW c
  PROVE  /\ <<>> \in Seq(Own(c))
         /\ \A f \in Own(c) : {f} \subseteq Own(c) /\ <<f>> \in Seq(Own(c))
         /\ \A f, g \in Own(c) : <<f, g>> \in Seq(Own(c))
         /\ \A f, g, h \in Own(c) : <<f, g, h>> \in Seq(Own(c))
<1> DEFINE own == Own(c)
<1> HIDE DEF own
<1>1. /\ <<>> \in Seq(own)
      /\ \A f \in own : {f} \subseteq own /\ <<f>> \in Seq(own)
      /\ \A f, g \in own : <<f, g>> \in Seq(own)
      /\ \A f, g, h \in own : <<f, g, h>> \in Seq(own)
  OBVIOUS
<1> QED
  BY <1>1 DEF own

LEMMA WaysOut ==
  ASSUME NEW c
  PROVE  /\ EndsWell(c, Raise)
         /\ \A fs \in Seq(Own(c)) : \A e \in ToolFails(fs) : EndsWell(c, e)
         /\ \A e \in ToolFails(<<>>) : EndsWell(c, e)
<1>1. EndsWell(c, Raise)
  BY EndIs, Lists DEF Raise
<1>2. \A fs \in Seq(Own(c)) : \A e \in ToolFails(fs) : EndsWell(c, e)
  BY EndIs DEF ToolFails, ToolRc
<1> QED
  BY <1>1, <1>2, Lists

LEMMA StepIs ==
  ASSUME NEW c, NEW fs, fs \subseteq Own(c), NEW ends, \A e \in ends : EndsWell(c, e)
  PROVE  StepsWell(c, Step(fs, ends))
BY WaysOut DEF StepsWell, Step

LEMMA NeedsIs ==
  ASSUME NEW c, NEW toolsets, NEW lack, EndsWell(c, lack)
  PROVE  StepsWell(c, Needs(toolsets, lack))
BY DEF StepsWell, Needs, Step

LEMMA ReadsIs ==
  ASSUME NEW c, NEW fs
  PROVE  StepsWell(c, Reads(fs))
BY WaysOut DEF StepsWell, Reads, Step

\* A step that only needs tools, and one that only writes.
LEMMA PlainSteps ==
  ASSUME NEW c
  PROVE  /\ \A f \in Own(c) : StepsWell(c, Step({f}, {}))
         /\ \A ends : (\A e \in ends : EndsWell(c, e)) => StepsWell(c, Step({}, ends))
         /\ \A f \in Own(c) : \A ends :
               (\A e \in ends : EndsWell(c, e)) => StepsWell(c, Step({f}, ends))
BY StepIs

LEMMA OwnFiles == \A f \in FileNames : f \in Own(WriterOf(f))
BY DEF Own

\* A script is a sequence of at least one step, each as it should be.
RunsWell(c, script) ==
  /\ Len(script) \in Nat \ {0} /\ DOMAIN script = 1 .. Len(script)
  /\ \A i \in 1 .. Len(script) : StepsWell(c, script[i])

LEMMA OneStep ==
  ASSUME NEW c, NEW s, StepsWell(c, s)
  PROVE  RunsWell(c, <<s>>)
BY DEF RunsWell

LEMMA PythonScripts ==
  /\ RunsWell("tool_detection", DetectTools)
  /\ RunsWell("directed_generation", DirectedGeneration)
  /\ RunsWell("reference_regression", ReferenceRegression)
  /\ RunsWell("microarchitecture_model", MicroarchModel)
  /\ RunsWell("divider_algorithm_stress", DividerStress)
  /\ RunsWell("front_end_replay_stress", FrontendStress)
  /\ RunsWell("pytest_Python_models", PytestModels)
  /\ RunsWell("required_ISA_exercise", IsaExercise)
  /\ RunsWell("reference_stimulus_coverage", StimulusCoverage)
  /\ RunsWell("static_RTL_audit", StaticAudit)
  /\ RunsWell("formal_flow_source_audit", FormalFlowAudit)
  /\ RunsWell("EDA_CI_tool_flow_audit", ToolFlowAudit)
<1>1. RunsWell("tool_detection", DetectTools)
  <2>1. "tool_versions" \in Own("tool_detection")
    BY DEF Own, WriterOf, FileNames, PythonFiles
  <2> QED
    BY <2>1, OneStep, PlainSteps, WaysOut DEF DetectTools
<1>2. RunsWell("directed_generation", DirectedGeneration)
  <2>1. "hex" \in Own("directed_generation")
    BY DEF Own, WriterOf, FileNames, PythonFiles
  <2> QED
    BY <2>1, OneStep, PlainSteps, WaysOut DEF DirectedGeneration
<1>3. RunsWell("reference_regression", ReferenceRegression)
  <2>1. "reference_json" \in Own("reference_regression")
    BY DEF Own, WriterOf, FileNames, PythonFiles
  <2>2. EndsWell("reference_regression", End(1, <<"reference_json">>, "fail"))
    BY <2>1, Lists, EndIs
  <2> QED
    BY <2>1, <2>2, OneStep, PlainSteps, WaysOut DEF ReferenceRegression
<1>4. RunsWell("microarchitecture_model", MicroarchModel)
  <2>1. "timing_json" \in Own("microarchitecture_model")
    BY DEF Own, WriterOf, FileNames, PythonFiles
  <2> QED
    BY <2>1, OneStep, PlainSteps, WaysOut DEF MicroarchModel
<1>5. RunsWell("divider_algorithm_stress", DividerStress)
  <2>1. "divider_json" \in Own("divider_algorithm_stress")
    BY DEF Own, WriterOf, FileNames, PythonFiles
  <2> QED
    BY <2>1, OneStep, PlainSteps, WaysOut DEF DividerStress
<1>6. RunsWell("front_end_replay_stress", FrontendStress)
  <2>1. "frontend_json" \in Own("front_end_replay_stress")
    BY DEF Own, WriterOf, FileNames, PythonFiles
  <2> QED
    BY <2>1, OneStep, PlainSteps, WaysOut DEF FrontendStress
<1>7. RunsWell("pytest_Python_models", PytestModels)
  BY OneStep, PlainSteps, WaysOut DEF PytestModels
<1>8. RunsWell("required_ISA_exercise", IsaExercise)
  <2>1. "isa_json" \in Own("required_ISA_exercise")
    BY DEF Own, WriterOf, FileNames, PythonFiles
  <2>2. EndsWell("required_ISA_exercise", End(1, <<"isa_json">>, "fail"))
    BY <2>1, Lists, EndIs
  <2> QED
    BY <2>1, <2>2, OneStep, PlainSteps, WaysOut DEF IsaExercise
<1>9. RunsWell("reference_stimulus_coverage", StimulusCoverage)
  <2>1. "stimulus_json" \in Own("reference_stimulus_coverage")
    BY DEF Own, WriterOf, FileNames, PythonFiles
  <2>2. EndsWell("reference_stimulus_coverage", End(1, <<"stimulus_json">>, "fail"))
    BY <2>1, Lists, EndIs
  <2> QED
    BY <2>1, <2>2, OneStep, PlainSteps, WaysOut DEF StimulusCoverage
<1>10. RunsWell("static_RTL_audit", StaticAudit)
  <2>1. "static_audit" \in Own("static_RTL_audit")
    BY DEF Own, WriterOf, FileNames, PythonFiles
  <2>2. EndsWell("static_RTL_audit", End(1, <<"static_audit">>, "fail"))
    BY <2>1, Lists, EndIs
  <2> QED
    BY <2>1, <2>2, OneStep, PlainSteps, WaysOut DEF StaticAudit
<1>11. RunsWell("formal_flow_source_audit", FormalFlowAudit)
  <2>1. "formal_audit" \in Own("formal_flow_source_audit")
    BY DEF Own, WriterOf, FileNames, PythonFiles
  <2>2. EndsWell("formal_flow_source_audit", End(1, <<"formal_audit">>, "fail"))
    BY <2>1, Lists, EndIs
  <2> QED
    BY <2>1, <2>2, OneStep, PlainSteps, WaysOut DEF FormalFlowAudit
<1>12. RunsWell("EDA_CI_tool_flow_audit", ToolFlowAudit)
  <2>1. "tool_audit" \in Own("EDA_CI_tool_flow_audit")
    BY DEF Own, WriterOf, FileNames, PythonFiles
  <2>2. EndsWell("EDA_CI_tool_flow_audit", End(1, <<"tool_audit">>, "fail"))
    BY <2>1, Lists, EndIs
  <2> QED
    BY <2>1, <2>2, OneStep, PlainSteps, WaysOut DEF ToolFlowAudit
<1> QED
  BY <1>1, <1>2, <1>3, <1>4, <1>5, <1>6, <1>7, <1>8, <1>9, <1>10, <1>11, <1>12

LEMMA RtlScripts ==
  /\ RunsWell("RTL_simulation", RtlSimulation)
  /\ RunsWell("RTL_functional_coverage", RtlCoverage)
<1>1. RunsWell("RTL_simulation", RtlSimulation)
  <2> DEFINE c == "RTL_simulation"
  <2>1. "trace" \in Own(c) /\ "status" \in Own(c) /\ "rtl_log" \in Own(c)
    BY DEF Own, WriterOf, FileNames, AbsentFiles, ToolFiles
  <2> HIDE DEF c
  <2>2. StepsWell(c, RtlBackend)
    BY <2>1, Lists, EndIs, NeedsIs DEF RtlBackend, Unavailable
  <2>3. StepsWell(c, RtlCompile)
    BY WaysOut, PlainSteps DEF RtlCompile
  <2>4. /\ EndsWell(c, End(1, <<"trace", "status", "rtl_log">>, "fail"))
        /\ EndsWell(c, End(1, <<"trace", "rtl_log">>, "fail"))
        /\ EndsWell(c, End(1, <<"trace", "status">>, "fail"))
    BY <2>1, Lists, EndIs
  <2>5. StepsWell(c, RtlTraces)
    BY <2>1, <2>4, PlainSteps DEF RtlTraces
  <2>6. StepsWell(c, RtlStatus) /\ StepsWell(c, RtlLog)
    BY <2>1, PlainSteps DEF RtlStatus, RtlLog
  <2>7. RunsWell(c, RtlSimulation)
    BY <2>2, <2>3, <2>5, <2>6 DEF RunsWell, RtlSimulation
  <2> QED
    BY <2>7 DEF c
<1>2. RunsWell("RTL_functional_coverage", RtlCoverage)
  <2> DEFINE c == "RTL_functional_coverage"
             third  == Step({"rtl_cov_json"}, {Raise, End(1, <<"rtl_cov_json", "rtl_cov_md">>, "fail")})
             fourth == Step({"rtl_cov_md"}, {})
  <2>1. "rtl_cov_json" \in Own(c) /\ "rtl_cov_md" \in Own(c)
    BY DEF Own, WriterOf, FileNames, AbsentFiles, ToolFiles
  <2> HIDE DEF c
  <2>2. StepsWell(c, Needs(Simulator, Unavailable(<<"rtl_cov_md">>)))
    BY <2>1, Lists, EndIs, NeedsIs DEF Unavailable
  <2>3. StepsWell(c, Reads({"trace", "status"}))
    BY ReadsIs
  <2>4. EndsWell(c, End(1, <<"rtl_cov_json", "rtl_cov_md">>, "fail"))
    BY <2>1, Lists, EndIs
  <2>5. StepsWell(c, third)
    BY <2>1, <2>4, WaysOut, PlainSteps
  <2>6. StepsWell(c, fourth)
    BY <2>1, PlainSteps
  <2>7. RunsWell(c, RtlCoverage)
    BY <2>2, <2>3, <2>5, <2>6 DEF RunsWell, RtlCoverage
  <2> QED
    BY <2>7 DEF c
<1> QED
  BY <1>1, <1>2

LEMMA CoverageScripts ==
  /\ RunsWell("Verilator_RTL_code_coverage", CodeCoverage)
  /\ RunsWell("RTL_performance_compare", PerfCompare)
<1>1. RunsWell("Verilator_RTL_code_coverage", CodeCoverage)
  <2> DEFINE c == "Verilator_RTL_code_coverage"
             last == Step({"code_cov_md"}, {})
  <2>1. "code_cov_json" \in Own(c) /\ "code_cov_md" \in Own(c)
    BY DEF Own, WriterOf, FileNames, AbsentFiles
  <2> HIDE DEF c
  <2>2. StepsWell(c, CodeCoverageTools)
    BY <2>1, Lists, EndIs, NeedsIs DEF CodeCoverageTools, Unavailable
  <2>3. StepsWell(c, CodeCoverageBuild)
    BY WaysOut, PlainSteps DEF CodeCoverageBuild
  <2>4. /\ EndsWell(c, End(1, <<"code_cov_md">>, "fail"))
        /\ EndsWell(c, End(1, <<"code_cov_json", "code_cov_md">>, "fail"))
    BY <2>1, Lists, EndIs
  <2>5. StepsWell(c, CodeCoverageRuns)
    BY <2>4, PlainSteps DEF CodeCoverageRuns
  <2>6. StepsWell(c, CodeCoverageMerge)
    BY WaysOut, PlainSteps DEF CodeCoverageMerge
  <2>7. StepsWell(c, CodeCoverageValid)
    BY <2>1, <2>4, PlainSteps DEF CodeCoverageValid
  <2>8. StepsWell(c, last)
    BY <2>1, PlainSteps
  <2>9. RunsWell(c, CodeCoverage)
    BY <2>2, <2>3, <2>5, <2>6, <2>7, <2>8 DEF RunsWell, CodeCoverage
  <2> QED
    BY <2>9 DEF c
<1>2. RunsWell("RTL_performance_compare", PerfCompare)
  <2> DEFINE c == "RTL_performance_compare"
  <2>1. "perf_md" \in Own(c)
    BY DEF Own, WriterOf, FileNames, ToolFiles
  <2> HIDE DEF c
  <2>2. StepsWell(c, Step({}, {Raise}))
    BY WaysOut, PlainSteps
  <2>3. StepsWell(c, Needs(Simulator, Unavailable(<<"perf_md">>)))
    BY <2>1, Lists, EndIs, NeedsIs DEF Unavailable
  <2>4. EndsWell(c, End(1, <<"perf_md">>, "fail"))
    BY <2>1, Lists, EndIs
  <2>5. StepsWell(c, Step({"perf_md"}, {End(1, <<"perf_md">>, "fail")}))
    BY <2>1, <2>4, PlainSteps
  <2>6. RunsWell(c, PerfCompare)
    BY <2>2, <2>3, <2>5 DEF RunsWell, PerfCompare
  <2> QED
    BY <2>6 DEF c
<1> QED
  BY <1>1, <1>2

LEMMA ToolScripts ==
  /\ RunsWell("Verilator_lint", Lint)
  /\ RunsWell("formal", Formal)
  /\ RunsWell("Yosys_synthesis", Synthesis)
<1>1. RunsWell("Verilator_lint", Lint)
  <2> DEFINE c == "Verilator_lint"
  <2>1. "lint_report" \in Own(c)
    BY DEF Own, WriterOf, FileNames, ToolFiles
  <2> HIDE DEF c
  <2>2. StepsWell(c, Needs({{"verilator"}}, End(2, <<"lint_report">>, "unavailable")))
    BY <2>1, Lists, EndIs, NeedsIs
  <2>3. StepsWell(c, Step({"lint_report"}, ToolFails(<<"lint_report">>)))
    BY <2>1, Lists, WaysOut, PlainSteps
  <2>4. RunsWell(c, Lint)
    BY <2>2, <2>3 DEF RunsWell, Lint
  <2> QED
    BY <2>4 DEF c
<1>2. RunsWell("formal", Formal)
  <2> DEFINE c == "formal"
             inner == FormalTarget(FALSE)
             last  == FormalTarget(TRUE)
  <2>1. "formal_report" \in Own(c)
    BY DEF Own, WriterOf, FileNames, ToolFiles
  <2> HIDE DEF c
  <2>2. StepsWell(c, FormalProbe)
    BY <2>1, Lists, EndIs, NeedsIs DEF FormalProbe, Unavailable
  <2>3. EndsWell(c, End(1, <<"formal_report">>, "fail"))
    BY <2>1, Lists, EndIs
  <2>4. StepsWell(c, inner) /\ StepsWell(c, last)
    BY <2>1, <2>3, PlainSteps DEF FormalTarget
  <2>5. Formal = <<FormalProbe, inner, inner, last>>
    BY DEF Formal
  <2> HIDE DEF inner, last
  <2>6. RunsWell(c, Formal)
    BY <2>2, <2>4, <2>5 DEF RunsWell
  <2> QED
    BY <2>6 DEF c
<1>3. RunsWell("Yosys_synthesis", Synthesis)
  <2> DEFINE c == "Yosys_synthesis"
             both == <<"synth_report", "timing_report">>
             second == Step({"synth_report"}, ToolFails(both))
             third  == Step({"timing_report"}, {})
  <2>1. "synth_report" \in Own(c) /\ "timing_report" \in Own(c)
    BY DEF Own, WriterOf, FileNames, ToolFiles
  <2> HIDE DEF c
  <2>2. both \in Seq(Own(c))
    BY <2>1, Lists
  <2> HIDE DEF both
  <2>3. StepsWell(c, Needs({{"yosys"}}, Unavailable(both)))
    BY <2>2, EndIs, NeedsIs DEF Unavailable
  <2>4. StepsWell(c, second) /\ StepsWell(c, third)
    BY <2>1, <2>2, WaysOut, PlainSteps
  <2>5. RunsWell(c, Synthesis)
    BY <2>3, <2>4 DEF RunsWell, Synthesis, both
  <2> QED
    BY <2>5 DEF c
<1> QED
  BY <1>1, <1>2, <1>3

\* The script of `make asic`, where a target that cannot be met ends with 0.
LEMMA AsicScript == RunsWell(Asic, AsicTiming)
<1>1. "sta_report" \in Own(Asic) /\ "mapped_report" \in Own(Asic)
  BY DEF Own, WriterOf, FileNames, AsicReports
<1>2. /\ End(0, <<"sta_report">>, "not_run").writes = End(2, <<"sta_report">>, "not_run").writes
      /\ End(0, <<"sta_report">>, "not_run") =
           [rc |-> 0, writes |-> End(0, <<"sta_report">>, "not_run").writes]
  BY DEF End
<1>3. /\ EndsWell(Asic, End(0, <<"sta_report">>, "not_run"))
      /\ EndsWell(Asic, End(2, <<"sta_report">>, "not_run"))
      /\ EndsWell(Asic, End(2, <<"sta_report">>, "unavailable"))
  <2> DEFINE W == Seq([file : Own(Asic), verdict : Said])
  <2>1. /\ EndsWell(Asic, End(2, <<"sta_report">>, "not_run"))
        /\ EndsWell(Asic, End(2, <<"sta_report">>, "unavailable"))
    BY <1>1, Lists, EndIs
  <2>2. End(2, <<"sta_report">>, "not_run").writes \in W
    BY <2>1 DEF EndsWell
  <2> HIDE DEF W
  <2>3. End(0, <<"sta_report">>, "not_run") \in [rc : 0 .. 2, writes : W]
    BY <1>2, <2>2
  <2> QED
    BY <2>1, <2>3 DEF EndsWell, W
<1>4. /\ EndsWell(Asic, AsicOut(2, "not_run", "not_run"))
      /\ EndsWell(Asic, AsicOut(2, "unavailable", "not_run"))
      /\ EndsWell(Asic, AsicOut(1, "fail", "not_run")) /\ EndsWell(Asic, AsicOut(2, "fail", "not_run"))
  <2> DEFINE own == Own(Asic)
             W   == Seq([file : own, verdict : Said])
             w(m, s) == <<[file |-> "mapped_report", verdict |-> m],
                          [file |-> "sta_report", verdict |-> s]>>
  <2>1. "sta_report" \in own /\ "mapped_report" \in own
    BY <1>1
  <2> HIDE DEF own
  <2>2. w("not_run", "not_run") \in W /\ w("unavailable", "not_run") \in W /\ w("fail", "not_run") \in W
    BY <2>1 DEF Said
  <2> HIDE DEF W
  <2>3. /\ [rc |-> 2, writes |-> w("not_run", "not_run")] \in [rc : 0 .. 2, writes : W]
        /\ [rc |-> 2, writes |-> w("unavailable", "not_run")] \in [rc : 0 .. 2, writes : W]
        /\ [rc |-> 1, writes |-> w("fail", "not_run")] \in [rc : 0 .. 2, writes : W]
        /\ [rc |-> 2, writes |-> w("fail", "not_run")] \in [rc : 0 .. 2, writes : W]
    BY <2>2
  <2> QED
    BY <2>3 DEF EndsWell, AsicOut, own, W
<1>5. StepsWell(Asic, AsicLibrary)
  BY <1>4, PlainSteps DEF AsicLibrary
<1>6. StepsWell(Asic, AsicYosys)
  BY <1>4, NeedsIs DEF AsicYosys
<1>7. StepsWell(Asic, AsicMapping)
  <2> DEFINE ends == {AsicOut(rc, "fail", "not_run") : rc \in ToolRc}
  <2>1. \A e \in ends : EndsWell(Asic, e)
    BY <1>4 DEF ToolRc
  <2> HIDE DEF ends
  <2>2. StepsWell(Asic, Step({"mapped_report"}, ends))
    <3>1. {"mapped_report"} \subseteq Own(Asic)
      BY <1>1
    <3> QED
      BY <2>1, <3>1, StepIs
  <2> QED
    BY <2>2 DEF AsicMapping, ends
<1>8. StepsWell(Asic, AsicTarget)
  BY <1>3, PlainSteps DEF AsicTarget
<1>9. StepsWell(Asic, AsicStaTool)
  BY <1>3, NeedsIs DEF AsicStaTool, Unavailable
<1>10. StepsWell(Asic, AsicConstraint)
  BY <1>3, PlainSteps DEF AsicConstraint
<1>11. StepsWell(Asic, AsicSta)
  BY <1>1, Lists, WaysOut, PlainSteps DEF AsicSta
<1> QED
  BY <1>5, <1>6, <1>7, <1>8, <1>9, <1>10, <1>11 DEF RunsWell, AsicTiming

-----------------------------------------------------------------------------
(* The table of checks. *)

LEMMA Table ==
  /\ Len(Checks) = 19 /\ DOMAIN Checks = 1 .. 19
  /\ \A i \in 1 .. 19 : Checks[i] \in CheckNames /\ Checks[i] # Asic
  /\ \A i, j \in 1 .. 19 : Checks[i] = Checks[j] => i = j
  /\ Checks # <<Asic>> /\ Checks # <<>>
<1>1. Len(Checks) = 19 /\ DOMAIN Checks = 1 .. 19
  BY DEF Checks
<1>2. \A i \in 1 .. 19 : Checks[i] \in CheckNames /\ Checks[i] # Asic
  BY <1>1 DEF Checks, CheckNames, Asic
<1>3. \A i, j \in 1 .. 19 : Checks[i] = Checks[j] => i = j
  BY DEF Checks
<1>4. Checks # <<Asic>> /\ Checks # <<>>
  BY DEF Checks
<1> QED
  BY <1>1, <1>2, <1>3, <1>4

LEMMA EachScript ==
  /\ "tool_detection" \in CheckNames /\ Script["tool_detection"] = DetectTools
  /\ "directed_generation" \in CheckNames /\ Script["directed_generation"] = DirectedGeneration
  /\ "reference_regression" \in CheckNames /\ Script["reference_regression"] = ReferenceRegression
  /\ "microarchitecture_model" \in CheckNames /\ Script["microarchitecture_model"] = MicroarchModel
  /\ "divider_algorithm_stress" \in CheckNames /\ Script["divider_algorithm_stress"] = DividerStress
  /\ "front_end_replay_stress" \in CheckNames /\ Script["front_end_replay_stress"] = FrontendStress
  /\ "pytest_Python_models" \in CheckNames /\ Script["pytest_Python_models"] = PytestModels
  /\ "required_ISA_exercise" \in CheckNames /\ Script["required_ISA_exercise"] = IsaExercise
  /\ "reference_stimulus_coverage" \in CheckNames /\ Script["reference_stimulus_coverage"] = StimulusCoverage
  /\ "static_RTL_audit" \in CheckNames /\ Script["static_RTL_audit"] = StaticAudit
  /\ "formal_flow_source_audit" \in CheckNames /\ Script["formal_flow_source_audit"] = FormalFlowAudit
  /\ "EDA_CI_tool_flow_audit" \in CheckNames /\ Script["EDA_CI_tool_flow_audit"] = ToolFlowAudit
  /\ "RTL_simulation" \in CheckNames /\ Script["RTL_simulation"] = RtlSimulation
  /\ "RTL_functional_coverage" \in CheckNames /\ Script["RTL_functional_coverage"] = RtlCoverage
  /\ "Verilator_RTL_code_coverage" \in CheckNames /\ Script["Verilator_RTL_code_coverage"] = CodeCoverage
  /\ "RTL_performance_compare" \in CheckNames /\ Script["RTL_performance_compare"] = PerfCompare
  /\ "Verilator_lint" \in CheckNames /\ Script["Verilator_lint"] = Lint
  /\ "formal" \in CheckNames /\ Script["formal"] = Formal
  /\ "Yosys_synthesis" \in CheckNames /\ Script["Yosys_synthesis"] = Synthesis
  /\ Script[Asic] = AsicTiming
<1>1. \A i \in 1 .. 19 : Checks[i] \in CheckNames
  BY Table
<1> QED
  BY <1>1 DEF Script, Checks, Asic

LEMMA ScriptsRunWell == \A c \in CheckNames \union {Asic} : RunsWell(c, Script[c])
<1>1. ASSUME NEW i \in 1 .. 19
      PROVE  RunsWell(Checks[i], Script[Checks[i]])
  BY EachScript, PythonScripts, RtlScripts, CoverageScripts, ToolScripts DEF Checks
<1> QED
  BY <1>1, Table, EachScript, AsicScript DEF CheckNames

-----------------------------------------------------------------------------
(* The invariant. *)

Verdicts == {"PASS", "TOOL_UNAVAILABLE"} \union Failing

\* Where a command is, and what it has found so far.
Shape ==
  /\ cmd \in Nat /\ strict \in BOOLEAN
  /\ job \in {<<>>, Checks, <<Asic>>} /\ (job = <<Asic>> => ~strict)
  /\ DOMAIN files = FileNames
  /\ \A f \in FileNames : files[f].cmd \in Nat /\ files[f].cmd <= cmd
  /\ status \in Seq([check : CheckNames \union {Asic}, status : Verdicts, rc : Nat])
  /\ \A i \in DOMAIN status : strict => status[i].status # "TOOL_UNAVAILABLE"
  /\ \A i, j \in DOMAIN status : status[i].check = status[j].check => i = j
  /\ job # <<>> =>
       /\ exit = Running
       /\ at = Len(status) + 1 /\ Len(status) <= Len(job)
       /\ \A i \in DOMAIN status : status[i].check = job[i]
       /\ at <= Len(job) => /\ step \in 1 .. Len(Script[job[at]]) + 1
                            /\ out = OnTheWay \/ EndsWell(job[at], out)

\* The steps that the running script has behind it went well.
Behind ==
  InScript /\ out = OnTheWay => \A i \in 1 .. step - 1 :
    /\ Provided(Script[job[at]][i].tools, tools)
    /\ \A f \in Script[job[at]][i].writes : Current(f)

\* A strict command that ended with 0 has a PASS for every check of the table.
AllGreen ==
  exit = 0 /\ strict /\ job = <<>> =>
    /\ Len(status) = 19
    /\ \A i \in 1 .. 19 : status[i].check = Checks[i] /\ status[i].status = "PASS"

\* Coverage has been counted, after a simulation that passed: of its traces.
CoverageCounted ==
  InScript /\ job[at] = "RTL_functional_coverage" /\ out = OnTheWay /\ step > 3 =>
    \A i \in DOMAIN status : Passed(i, "RTL_simulation") => files["rtl_cov_json"].from = cmd

\* A way out of `make asic` with one report left to write, or with both.
OneWrite(e) == \E s \in Said \ {"pass"} :
  e.writes = <<[file |-> "sta_report", verdict |-> s]>>
TwoWrites(e) == \E m, s \in Said \ {"pass"} :
  e.writes = <<[file |-> "mapped_report", verdict |-> m], [file |-> "sta_report", verdict |-> s]>>

\* How far `make asic` is with its reports: the STA report is the last of the
\* command, whatever way it takes, and the mapping report is there before it.
AsicReportsSoFar ==
  job = <<Asic>> /\ at = 1 =>
    /\ out = OnTheWay =>
         /\ step <= 7 => files["sta_report"].cmd < cmd
         /\ step > 3 => files["mapped_report"].cmd = cmd /\ files["mapped_report"].verdict = "pass"
         /\ step > 7 => files["sta_report"].cmd = cmd
    /\ out # OnTheWay =>
         \/ out.writes = <<>> /\ files["mapped_report"].cmd = cmd /\ files["sta_report"].cmd = cmd
         \/ OneWrite(out) /\ files["mapped_report"].cmd = cmd /\ files["sta_report"].cmd < cmd
         \/ TwoWrites(out) /\ files["sta_report"].cmd < cmd

\* The two stress scripts never write anything but pass.
StressScripts == {"divider_algorithm_stress", "front_end_replay_stress"}
StressFiles ==
  /\ files["divider_json"].verdict = "pass" /\ files["frontend_json"].verdict = "pass"
  /\ InScript /\ job[at] \in StressScripts => out.writes = <<>>

\* The rows of a summary of this command are its statuses, and full counts those
\* of a file that says pass.
SummaryRows ==
  /\ summary.cmd \in Nat
  /\ IF job = <<>> THEN summary.cmd <= cmd ELSE summary.cmd < cmd
  /\ job = <<>> /\ summary.cmd = cmd /\ cmd > 0 =>
       /\ \A r \in CheckRows : summary.rows[r] = "PASS" =>
            \E i \in DOMAIN status : status[i].check = r /\ status[i].status = "PASS"
       /\ \A r \in CountRows : summary.rows[r] = "PASS" => files[CountFile(r)].verdict = "pass"

FlowInv ==
  /\ Shape /\ Behind /\ AllGreen /\ PassMeansRun /\ CoverageFollowsSimulation /\ CoverageCounted
  /\ StaNeedsMapping /\ AsicReportsSoFar /\ StressFiles /\ SummaryRows

-----------------------------------------------------------------------------
(* Where a script is. *)

LEMMA OwnApart == \A c, d : c # d => Own(c) \intersect Own(d) = {}
BY DEF Own

LEMMA OutputsAre ==
  ASSUME NEW c \in CheckNames \union {Asic}
  PROVE  /\ Outputs[c] = UNION {Script[c][i].writes : i \in DOMAIN Script[c]}
         /\ ToolNeeds[c] = {Script[c][i].tools : i \in DOMAIN Script[c]}
<1>1. DOMAIN Script = CheckNames \union {Asic}
  BY DEF Script
<1> QED
  BY <1>1 DEF Outputs, ToolNeeds

LEMMA OutputsOwned ==
  ASSUME NEW c \in CheckNames \union {Asic}
  PROVE  /\ Outputs[c] \subseteq Own(c)
         /\ \A i \in 1 .. Len(Script[c]) : Script[c][i].writes \subseteq Own(c)
BY ScriptsRunWell, OutputsAre DEF RunsWell, StepsWell

LEMMA JobIs ==
  ASSUME Shape, InScript
  PROVE  \/ job = Checks /\ Len(job) = 19
         \/ job = <<Asic>> /\ Len(job) = 1 /\ job[1] = Asic
<1>1. job = Checks \/ job = <<Asic>>
  BY DEF Shape, InScript
<1>2. job = <<Asic>> => Len(job) = 1 /\ job[1] = Asic
  OBVIOUS
<1> QED
  BY <1>1, <1>2, Table

LEMMA WhereItRuns ==
  ASSUME Shape, InScript
  PROVE  /\ job[at] \in CheckNames \union {Asic}
         /\ job[at] = Asic <=> job = <<Asic>>
         /\ DOMAIN Script[job[at]] = 1 .. Len(Script[job[at]]) /\ Len(Script[job[at]]) \in Nat
         /\ step \in 1 .. Len(Script[job[at]]) + 1
         /\ step <= Len(Script[job[at]]) => StepsWell(job[at], Here)
         /\ out = OnTheWay \/ EndsWell(job[at], out)
         /\ at = Len(status) + 1 /\ at \in 1 .. Len(job)
         /\ \A i \in DOMAIN status : status[i].check # job[at]
<1>1. /\ at = Len(status) + 1 /\ Len(status) \in Nat /\ DOMAIN status = 1 .. Len(status)
      /\ at <= Len(job) /\ step \in 1 .. Len(Script[job[at]]) + 1
      /\ out = OnTheWay \/ EndsWell(job[at], out)
      /\ \A i \in DOMAIN status : status[i].check = job[i]
  BY DEF Shape, InScript
<1>2. at \in 1 .. Len(job) /\ \A i \in DOMAIN status : i \in Nat /\ i < at /\ 0 < i
  BY <1>1, JobIs
<1>3. job[at] \in CheckNames \union {Asic} =>
        /\ DOMAIN Script[job[at]] = 1 .. Len(Script[job[at]]) /\ Len(Script[job[at]]) \in Nat
        /\ step <= Len(Script[job[at]]) => StepsWell(job[at], Here)
  BY <1>1, ScriptsRunWell DEF RunsWell, Here
<1>4. CASE job = Checks
  <2>1. job[at] \in CheckNames /\ job[at] # Asic /\ job # <<Asic>>
    BY <1>2, <1>4, Table
  <2>2. \A i \in DOMAIN status : status[i].check # job[at]
    <3> SUFFICES ASSUME NEW i \in DOMAIN status PROVE job[i] # job[at]
      BY <1>1
    <3>1. i \in 1 .. 19 /\ at \in 1 .. 19 /\ i # at
      BY <1>2, <1>4, Table
    <3> QED
      BY <1>4, <3>1, Table
  <2> QED
    BY <1>1, <1>2, <1>3, <2>1, <2>2
<1>5. CASE job = <<Asic>>
  <2>1. at = 1 /\ job[at] = Asic /\ DOMAIN status = {}
    BY <1>1, <1>2, <1>5
  <2> QED
    BY <1>1, <1>2, <1>3, <1>5, <2>1
<1> QED
  BY <1>4, <1>5, JobIs

\* A way out is not OnTheWay.
LEMMA OutIs ==
  ASSUME NEW c, NEW e, EndsWell(c, e)
  PROVE  e # OnTheWay /\ e.rc \in Nat
<1>1. e.rc \in 0 .. 2
  <2> DEFINE W == Seq([file : Own(c), verdict : Said])
  <2>1. e \in [rc : 0 .. 2, writes : W]
    BY DEF EndsWell
  <2> HIDE DEF W
  <2> QED
    BY <2>1
<1>2. OnTheWay.rc = 99
  BY DEF OnTheWay, Running
<1> QED
  BY <1>1, <1>2

\* While a script runs, no status is that of `make asic`.
LEMMA NoAsicYet ==
  ASSUME Shape, InScript
  PROVE  \A i \in DOMAIN status : status[i].check # Asic
<1>1. CASE job = Checks
  <2> SUFFICES ASSUME NEW i \in DOMAIN status PROVE job[i] # Asic
    BY DEF Shape, InScript
  <2> DEFINE n == Len(status)
  <2>1. at = n + 1 /\ n \in Nat /\ DOMAIN status = 1 .. n
    BY DEF Shape, InScript
  <2>2. at \in 1 .. 19
    BY <1>1, Table, WhereItRuns
  <2>3. i \in 1 .. n
    BY <2>1
  <2> HIDE DEF n
  <2>4. i \in 1 .. 19
    BY <2>1, <2>2, <2>3
  <2> QED
    BY <1>1, <2>4, Table
<1>2. CASE job = <<Asic>>
  BY <1>2, WhereItRuns
<1> QED
  BY <1>1, <1>2, JobIs

-----------------------------------------------------------------------------
(* What the actions of a script do. *)

LEMMA WriteIs ==
  ASSUME NEW fs, NEW v, Write(fs, v)
  PROVE  /\ DOMAIN files' = FileNames
         /\ \A f \in FileNames :
              files'[f] = IF f \in fs THEN [cmd |-> cmd, from |-> OldestRead, verdict |-> v]
                          ELSE files[f]
BY DEF Write

LEMMA FileAfter ==
  ASSUME NEW fs, NEW v, Write(fs, v), NEW f \in FileNames
  PROVE  /\ f \in fs => files'[f].verdict = v /\ files'[f].cmd = cmd
         /\ f \notin fs => files'[f] = files[f]
<1>1. f \in fs => files'[f] = [cmd |-> cmd, from |-> OldestRead, verdict |-> v]
  BY WriteIs
<1>2. f \notin fs => files'[f] = files[f]
  BY WriteIs
<1> QED
  BY <1>1, <1>2

\* The script goes on, and has written no file but its own.
Stays ==
  /\ InScript /\ UNCHANGED <<cmd, strict, tools, job, at, status, exit, summary>>
OwnWrites ==
  /\ DOMAIN files' = FileNames
  /\ \A f \in FileNames : files'[f] = files[f] \/ (f \in Own(job[at]) /\ files'[f].cmd = cmd)

\* The script returns.  With 0, a check has all its steps behind it; unless it
\* crashed, `make asic` has taken all its steps or all the writes of a way out.
Leaves(rc) ==
  /\ InScript /\ rc \in Nat /\ Returned(rc)
  /\ UNCHANGED <<cmd, strict, tools, job, exit, files, summary>>
  /\ rc = 0 /\ job[at] # Asic => out = OnTheWay /\ step > Len(Script[job[at]])
  /\ rc # Crashed => IF out = OnTheWay THEN step > Len(Script[job[at]]) ELSE out.writes = <<>>

LEMMA WrittenWell ==
  ASSUME Shape, NEW fs, NEW v, Write(fs, v), fs \subseteq Own(job[at])
  PROVE  OwnWrites
<1> SUFFICES ASSUME NEW f \in FileNames
             PROVE  files'[f] = files[f] \/ (f \in Own(job[at]) /\ files'[f].cmd = cmd)
  BY WriteIs DEF OwnWrites
<1> QED
  BY FileAfter

\* The head of a way out, and what is left of it.
LEMMA NextWrite ==
  ASSUME NEW c, EndsWell(c, out), out.writes # <<>>
  PROVE  /\ Head(out.writes).file \in Own(c)
         /\ EndsWell(c, [out EXCEPT !.writes = Tail(@)])
<1> DEFINE R == [file : Own(c), verdict : Said]
<1>1. out \in [rc : 0 .. 2, writes : Seq(R)] /\ (c # Asic => out.rc # 0)
  BY DEF EndsWell
<1> HIDE DEF R
<1>2. Head(out.writes) \in R /\ Tail(out.writes) \in Seq(R)
  BY <1>1
<1>3. [out EXCEPT !.writes = Tail(@)] \in [rc : 0 .. 2, writes : Seq(R)]
  BY <1>1, <1>2
<1>4. [out EXCEPT !.writes = Tail(@)].rc = out.rc
  BY <1>1
<1>5. Head(out.writes).file \in Own(c)
  BY <1>2 DEF R
<1> QED
  BY <1>1, <1>3, <1>4, <1>5 DEF EndsWell, R

LEMMA StaysWell ==
  ASSUME Shape, StopForLack \/ StopForFault \/ StepDone \/ WriteOnTheWayOut
  PROVE  /\ Stays /\ OwnWrites
         /\ step' \in 1 .. Len(Script[job[at]]) + 1
         /\ out' = OnTheWay \/ EndsWell(job[at], out')
         /\ out' = OnTheWay => StepDone
<1>1. Stays
  BY DEF StopForLack, StopForFault, StepDone, WriteOnTheWayOut, AtStep, Stays
<1>2. InScript
  BY <1>1 DEF Stays
<1>3. files' = files => OwnWrites
  BY DEF Shape, OwnWrites
<1>4. CASE StopForLack \/ StopForFault
  <2>1. step <= Len(Script[job[at]]) /\ UNCHANGED <<files, step>>
        /\ (out' = Here.lack \/ out' \in Here.ends)
    BY <1>4 DEF StopForLack, StopForFault, AtStep
  <2>2. EndsWell(job[at], out')
    BY <1>2, <2>1, WhereItRuns DEF StepsWell
  <2> QED
    BY <1>1, <1>2, <1>3, <2>1, <2>2, OutIs, WhereItRuns
<1>5. CASE StepDone
  <2>1. AtStep /\ Write(Here.writes, "pass") /\ step' = step + 1 /\ out' = out
    BY <1>5 DEF StepDone
  <2>2. Here.writes \subseteq Own(job[at]) /\ step' \in 1 .. Len(Script[job[at]]) + 1
    BY <1>2, <2>1, WhereItRuns DEF StepsWell, AtStep
  <2>3. OwnWrites
    BY <2>1, <2>2, WrittenWell
  <2> QED
    BY <1>1, <1>5, <2>1, <2>2, <2>3 DEF AtStep
<1>6. CASE WriteOnTheWayOut
  <2>1. /\ out.writes # <<>> /\ Write({Head(out.writes).file}, Head(out.writes).verdict)
        /\ out' = [out EXCEPT !.writes = Tail(@)] /\ step' = step
    BY <1>6 DEF WriteOnTheWayOut
  <2>2. out # OnTheWay
    BY <2>1 DEF OnTheWay
  <2>3. EndsWell(job[at], out)
    BY <1>2, <2>2, WhereItRuns
  <2>4. Head(out.writes).file \in Own(job[at]) /\ EndsWell(job[at], out')
    BY <2>1, <2>3, NextWrite
  <2>5. OwnWrites
    BY <2>1, <2>4, WrittenWell
  <2> QED
    BY <1>1, <1>2, <2>1, <2>4, <2>5, OutIs, WhereItRuns
<1> QED
  BY <1>4, <1>5, <1>6

LEMMA LeavesWell ==
  ASSUME Shape, LeaveEarly \/ LeaveWell \/ Crash
  PROVE  \E rc : Leaves(rc)
<1>1. CASE LeaveEarly
  <2>1. InScript /\ out # OnTheWay /\ out.writes = <<>> /\ Returned(out.rc)
        /\ UNCHANGED <<cmd, strict, tools, job, exit, files, summary>>
    BY <1>1 DEF LeaveEarly
  <2>2. EndsWell(job[at], out)
    BY <2>1, WhereItRuns
  <2>3. out.rc \in Nat /\ (job[at] # Asic => out.rc # 0)
    BY <2>2, OutIs DEF EndsWell
  <2>4. Leaves(out.rc)
    BY <2>1, <2>3 DEF Leaves
  <2> QED
    BY <2>4
<1>2. CASE LeaveWell
  <2>1. Leaves(0)
    BY <1>2 DEF LeaveWell, Leaves
  <2> QED
    BY <2>1
<1>3. CASE Crash
  <2>1. Leaves(Crashed)
    BY <1>3 DEF Crash, Leaves, Crashed
  <2> QED
    BY <2>1
<1> QED
  BY <1>1, <1>2, <1>3

\* A script that returns adds its status, at the next place of the table.
LEMMA LeavesIs ==
  ASSUME Shape, NEW rc, Leaves(rc)
  PROVE  /\ Shape'
         /\ DOMAIN status' = DOMAIN status \union {at}
         /\ \A i \in DOMAIN status : status'[i] = status[i]
         /\ status'[at].check = job[at] /\ status'[at].status = StatusOf(rc) /\ status'[at].rc = rc
         /\ step' = 1 /\ at' = at + 1 /\ out' = OnTheWay
         /\ \A i \in DOMAIN status : i < at
<1> DEFINE Entry == [check : CheckNames \union {Asic}, status : Verdicts, rc : Nat]
           new == [check |-> job[at], status |-> StatusOf(rc), rc |-> rc]
<1>0. /\ InScript /\ rc \in Nat /\ Returned(rc)
      /\ UNCHANGED <<cmd, strict, tools, job, exit, files>>
  BY DEF Leaves
<1>1. /\ at = Len(status) + 1 /\ at \in 1 .. Len(job)
      /\ job[at] \in CheckNames \union {Asic}
      /\ \A i \in DOMAIN status : status[i].check # job[at]
  BY <1>0, WhereItRuns
<1>2. StatusOf(rc) \in Verdicts /\ (strict => StatusOf(rc) # "TOOL_UNAVAILABLE")
  BY DEF StatusOf, Verdicts, Failing
<1>3. new \in Entry /\ new.check = job[at] /\ new.status = StatusOf(rc) /\ new.rc = rc
  BY <1>0, <1>1, <1>2
<1>4. status \in Seq(Entry) /\ status' = Append(status, new) /\ at' = at + 1 /\ step' = 1
      /\ out' = OnTheWay
  BY <1>0 DEF Shape, Returned
<1> HIDE DEF new, Entry
<1>5. /\ status' \in Seq(Entry) /\ Len(status') = Len(status) + 1 /\ Len(status) \in Nat
      /\ DOMAIN status' = 1 .. Len(status) + 1 /\ DOMAIN status = 1 .. Len(status)
      /\ \A i \in DOMAIN status : status'[i] = status[i]
      /\ status'[at] = new
  BY <1>1, <1>3, <1>4
<1>6. /\ DOMAIN status' = DOMAIN status \union {at}
      /\ \A i \in DOMAIN status : i < at
  BY <1>1, <1>5
<1>7. /\ cmd' \in Nat /\ strict' \in BOOLEAN
      /\ job' \in {<<>>, Checks, <<Asic>>} /\ (job' = <<Asic>> => ~strict')
      /\ DOMAIN files' = FileNames /\ \A f \in FileNames : files'[f].cmd \in Nat /\ files'[f].cmd <= cmd'
      /\ job' # <<>> => exit' = Running
  BY <1>0 DEF Shape
<1>8. \A i \in DOMAIN status' : strict' => status'[i].status # "TOOL_UNAVAILABLE"
  BY <1>0, <1>2, <1>3, <1>5, <1>6 DEF Shape
<1>9. \A i, j \in DOMAIN status' : status'[i].check = status'[j].check => i = j
  <2>1. \A i, j \in DOMAIN status : status[i].check = status[j].check => i = j
    BY DEF Shape
  <2>2. \A i \in DOMAIN status : status'[i].check = status[i].check /\ status[i].check # status'[at].check
    BY <1>1, <1>3, <1>5
  <2> QED
    BY <1>6, <2>1, <2>2
<1>10. \A i \in DOMAIN status' : status'[i].check = job'[i]
  BY <1>0, <1>1, <1>3, <1>5, <1>6 DEF Shape, InScript
<1>11. at' <= Len(job') => step' \in 1 .. Len(Script[job'[at']]) + 1
  <2> SUFFICES ASSUME at + 1 <= Len(job) PROVE 1 \in 1 .. Len(Script[job[at + 1]]) + 1
    BY <1>0, <1>4
  <2>1. job = Checks /\ at + 1 \in 1 .. 19
    <3>1. at \in 1 .. Len(job)
      BY <1>1
    <3>2. CASE Len(job) = 19 /\ job = Checks
      BY <3>1, <3>2
    <3>3. CASE Len(job) = 1
      <4>1. at \in 1 .. 1 /\ at + 1 <= 1
        BY <3>1, <3>3
      <4> QED
        BY <4>1
    <3> QED
      BY <1>0, <3>2, <3>3, JobIs
  <2>2. RunsWell(job[at + 1], Script[job[at + 1]])
    BY <2>1, Table, ScriptsRunWell
  <2> QED
    BY <2>2 DEF RunsWell
<1>12. at' = Len(status') + 1 /\ Len(status') <= Len(job')
  BY <1>0, <1>1, <1>4, <1>5
<1>13. Shape'
  BY <1>4, <1>5, <1>7, <1>8, <1>9, <1>10, <1>11, <1>12 DEF Shape, Entry
<1> QED
  BY <1>3, <1>4, <1>5, <1>6, <1>13

-----------------------------------------------------------------------------
(* What the actions keep of the verdicts. *)

\* The evidence of a check that has passed is not touched by what runs after it.
LEMMA EarlierKept ==
  ASSUME Shape, PassMeansRun, InScript, OwnWrites, UNCHANGED <<cmd, tools>>,
         NEW i \in DOMAIN status, status[i].status = "PASS", status[i].check # Asic
  PROVE  /\ \A n \in ToolNeeds[status[i].check] : Provided(n, tools')
         /\ \A f \in Outputs[status[i].check] : Current(f)'
<1> DEFINE c == status[i].check
<1>1. c \in CheckNames \union {Asic}
  <2> DEFINE Entry == [check : CheckNames \union {Asic}, status : Verdicts, rc : Nat]
  <2>1. status \in Seq(Entry)
    BY DEF Shape
  <2> HIDE DEF Entry
  <2>2. status[i] \in Entry
    BY <2>1
  <2> QED
    BY <2>2 DEF Entry
<1>2. c # job[at]
  BY WhereItRuns
<1>3. /\ \A n \in ToolNeeds[c] : Provided(n, tools)
      /\ \A f \in Outputs[c] : Current(f)
  BY DEF PassMeansRun
<1> HIDE DEF c
<1>4. ASSUME NEW f \in Outputs[c]
      PROVE  files'[f] = files[f]
  <2>1. f \in Own(c)
    BY <1>1, OutputsOwned
  <2>2. f \notin Own(job[at])
    BY <1>2, <2>1, OwnApart
  <2>3. f \in FileNames
    BY <2>1 DEF Own
  <2> QED
    BY <2>2, <2>3 DEF OwnWrites
<1>5. \A f \in Outputs[c] : Current(f)'
  BY <1>3, <1>4 DEF Current
<1> QED
  BY <1>3, <1>5 DEF c

LEMMA StaysShape ==
  ASSUME Shape, Stays, OwnWrites, step' \in 1 .. Len(Script[job[at]]) + 1,
         out' = OnTheWay \/ EndsWell(job[at], out')
  PROVE  Shape'
<1>1. /\ InScript /\ UNCHANGED <<cmd, strict, tools, job, at, status, exit>>
  BY DEF Stays
<1>2. DOMAIN files' = FileNames /\ \A f \in FileNames : files'[f].cmd \in Nat /\ files'[f].cmd <= cmd
  <2>1. cmd \in Nat /\ cmd <= cmd
    BY DEF Shape
  <2>2. \A f \in FileNames : files[f].cmd \in Nat /\ files[f].cmd <= cmd
    BY DEF Shape
  <2> QED
    BY <2>1, <2>2 DEF OwnWrites
<1> QED
  BY <1>1, <1>2 DEF Shape

\* A step that goes well leaves all files of the steps so far current.
LEMMA StepWrites ==
  ASSUME Shape, Behind, StepDone
  PROVE  \A i \in 1 .. step :
           /\ Provided(Script[job[at]][i].tools, tools)
           /\ \A f \in Script[job[at]][i].writes : Current(f)'
<1>1. /\ InScript /\ out = OnTheWay /\ step <= Len(Script[job[at]])
      /\ ~Lacking /\ Write(Here.writes, "pass") /\ UNCHANGED <<cmd, tools, job>>
  BY DEF StepDone, AtStep
<1>2. /\ step \in 1 .. Len(Script[job[at]]) /\ Len(Script[job[at]]) \in Nat
      /\ job[at] \in CheckNames \union {Asic} /\ StepsWell(job[at], Here)
  <2>1. /\ step \in 1 .. Len(Script[job[at]]) + 1 /\ Len(Script[job[at]]) \in Nat
        /\ job[at] \in CheckNames \union {Asic} /\ StepsWell(job[at], Here)
    BY <1>1, WhereItRuns
  <2> QED
    BY <1>1, <2>1
<1>3. ASSUME NEW f \in Here.writes
      PROVE  Current(f)'
  <2>1. f \in FileNames
    BY <1>2 DEF StepsWell, Own
  <2>2. files'[f].cmd = cmd /\ files'[f].verdict = "pass"
    BY <1>1, <2>1, FileAfter
  <2> QED
    BY <1>1, <2>2 DEF Current
<1>4. Provided(Here.tools, tools)
  BY <1>1 DEF Lacking
<1>5. ASSUME NEW i \in 1 .. step - 1
      PROVE  /\ Provided(Script[job[at]][i].tools, tools)
             /\ \A f \in Script[job[at]][i].writes : Current(f)'
  <2>1. /\ Provided(Script[job[at]][i].tools, tools)
        /\ \A f \in Script[job[at]][i].writes : Current(f)
    BY <1>1, <1>5 DEF Behind
  <2>2. i \in 1 .. Len(Script[job[at]])
    BY <1>2
  <2>3. \A f \in Script[job[at]][i].writes : f \in FileNames
    BY <1>2, <2>2, OutputsOwned DEF Own
  <2>4. ASSUME NEW f \in Script[job[at]][i].writes
        PROVE  Current(f)'
    <3>1. CASE f \in Here.writes
      BY <1>3, <3>1
    <3>2. CASE f \notin Here.writes
      <4>1. files'[f] = files[f]
        BY <1>1, <2>3, <2>4, <3>2, FileAfter
      <4> QED
        BY <1>1, <2>1, <2>4, <4>1 DEF Current
    <3> QED
      BY <3>1, <3>2
  <2> QED
    BY <2>1, <2>4
<1> QED
  <2> SUFFICES ASSUME NEW i \in 1 .. step
               PROVE  /\ Provided(Script[job[at]][i].tools, tools)
                      /\ \A f \in Script[job[at]][i].writes : Current(f)'
    OBVIOUS
  <2>1. CASE i = step
    BY <1>3, <1>4, <2>1 DEF Here
  <2>2. CASE i # step
    <3>1. i \in 1 .. step - 1
      BY <1>2, <2>2
    <3> QED
      BY <1>5, <3>1
  <2> QED
    BY <2>1, <2>2

\* A script on its way, or on a way out.
Goes == StopForLack \/ StopForFault \/ StepDone \/ WriteOnTheWayOut

LEMMA GoesKeeps ==
  ASSUME Shape, PassMeansRun, Behind, Goes
  PROVE  Shape' /\ PassMeansRun' /\ Behind'
<1>1. /\ Stays /\ OwnWrites
      /\ step' \in 1 .. Len(Script[job[at]]) + 1
      /\ out' = OnTheWay \/ EndsWell(job[at], out')
      /\ out' = OnTheWay => StepDone
  BY StaysWell DEF Goes
<1>2. InScript /\ UNCHANGED <<cmd, tools, job, at, status>>
  BY <1>1 DEF Stays
<1>3. Shape'
  BY <1>1, StaysShape
<1>4. PassMeansRun'
  BY <1>1, <1>2, EarlierKept DEF PassMeansRun
<1>5. Behind'
  <2> SUFFICES ASSUME out' = OnTheWay, NEW i \in 1 .. step' - 1
               PROVE  /\ Provided(Script[job[at]][i].tools, tools')
                      /\ \A f \in Script[job[at]][i].writes : Current(f)'
    BY <1>2 DEF Behind
  <2>1. StepDone /\ step' = step + 1
    BY <1>1 DEF StepDone
  <2>2. step \in Nat
    BY <1>2, WhereItRuns
  <2>3. i \in 1 .. step
    BY <2>1, <2>2
  <2> QED
    BY <1>2, <2>1, <2>3, StepWrites
<1> QED
  BY <1>3, <1>4, <1>5

LEMMA LeavesKeeps ==
  ASSUME Shape, PassMeansRun, Behind, NEW rc, Leaves(rc)
  PROVE  Shape' /\ PassMeansRun' /\ Behind'
<1>1. /\ InScript /\ rc \in Nat /\ UNCHANGED <<cmd, tools, job, files>>
      /\ rc = 0 /\ job[at] # Asic => out = OnTheWay /\ step > Len(Script[job[at]])
  BY DEF Leaves
<1>2. /\ Shape'
      /\ DOMAIN status' = DOMAIN status \union {at}
      /\ \A i \in DOMAIN status : status'[i] = status[i]
      /\ status'[at].check = job[at] /\ status'[at].status = StatusOf(rc) /\ step' = 1
  BY LeavesIs
<1>3. StatusOf(rc) = "PASS" => rc = 0
  BY DEF StatusOf
<1>4. ASSUME rc = 0, job[at] # Asic
      PROVE  /\ \A n \in ToolNeeds[job[at]] : Provided(n, tools)
             /\ \A f \in Outputs[job[at]] : Current(f)
  <2> DEFINE script == Script[job[at]]
  <2>1. /\ out = OnTheWay /\ step > Len(script) /\ step \in 1 .. Len(script) + 1
        /\ Len(script) \in Nat /\ DOMAIN script = 1 .. Len(script)
        /\ job[at] \in CheckNames \union {Asic}
    BY <1>1, <1>4, WhereItRuns
  <2> HIDE DEF script
  <2>2. step - 1 = Len(script)
    BY <2>1
  <2> USE DEF script
  <2>3. \A i \in DOMAIN script :
          Provided(script[i].tools, tools) /\ \A f \in script[i].writes : Current(f)
    BY <1>1, <2>1, <2>2 DEF Behind
  <2> QED
    BY <2>1, <2>3, OutputsAre
<1>5. OwnWrites
  BY <1>1 DEF OwnWrites, Shape
<1>6. ASSUME NEW i \in DOMAIN status', status'[i].status = "PASS", status'[i].check # Asic
      PROVE  /\ \A n \in ToolNeeds[status'[i].check] : Provided(n, tools')
             /\ \A f \in Outputs[status'[i].check] : Current(f)'
  <2>1. CASE i \in DOMAIN status
    <3>1. status[i].status = "PASS" /\ status[i].check # Asic /\ status'[i].check = status[i].check
      BY <1>2, <1>6, <2>1
    <3> QED
      BY <1>1, <1>5, <2>1, <3>1, EarlierKept
  <2>2. CASE i = at
    <3>1. rc = 0 /\ job[at] # Asic /\ status'[i].check = job[at]
      BY <1>2, <1>3, <1>6, <2>2
    <3> QED
      BY <1>1, <1>4, <3>1 DEF Current
  <2> QED
    BY <1>2, <2>1, <2>2
<1>7. PassMeansRun'
  BY <1>6 DEF PassMeansRun
<1>8. Behind'
  BY <1>2 DEF Behind
<1> QED
  BY <1>2, <1>7, <1>8

-----------------------------------------------------------------------------
(* The coverage report. *)

LEMMA Writers ==
  /\ "rtl_cov_json" \in FileNames /\ WriterOf("rtl_cov_json") = "RTL_functional_coverage"
  /\ "divider_json" \in FileNames /\ WriterOf("divider_json") = "divider_algorithm_stress"
  /\ "frontend_json" \in FileNames /\ WriterOf("frontend_json") = "front_end_replay_stress"
  /\ "mapped_report" \in FileNames /\ WriterOf("mapped_report") = Asic
  /\ "sta_report" \in FileNames /\ WriterOf("sta_report") = Asic
BY DEF WriterOf, FileNames, AbsentFiles, PythonFiles, AsicReports

\* A file that is not the running script's own is left alone.
LEMMA ForeignFile ==
  ASSUME OwnWrites, NEW f \in FileNames, WriterOf(f) # job[at]
  PROVE  files'[f] = files[f]
BY DEF OwnWrites, Own

\* The third step of the coverage script computes its JSON file from traces and
\* status files; the simulation writes both.
LEMMA CoverageReads ==
  /\ Script["RTL_functional_coverage"] = RtlCoverage /\ Len(RtlCoverage) = 4
  /\ UNION {RtlCoverage[i].reads : i \in 1 .. 3} = {"trace", "status"}
  /\ RtlCoverage[3].writes = {"rtl_cov_json"} /\ RtlCoverage[4].writes = {"rtl_cov_md"}
  /\ {"trace", "status"} \subseteq Outputs["RTL_simulation"]
<1>1. Script["RTL_functional_coverage"] = RtlCoverage /\ Len(RtlCoverage) = 4
  BY EachScript DEF RtlCoverage
<1>2. RtlCoverage[1].reads = {} /\ RtlCoverage[2].reads = {"trace", "status"}
      /\ RtlCoverage[3].reads = {}
  BY DEF RtlCoverage, Needs, Reads, Step
<1>3. UNION {RtlCoverage[i].reads : i \in 1 .. 3} = {"trace", "status"}
  BY <1>2
<1>4. RtlCoverage[3].writes = {"rtl_cov_json"} /\ RtlCoverage[4].writes = {"rtl_cov_md"}
  BY DEF RtlCoverage, Step
<1>5. /\ Script["RTL_simulation"] = RtlSimulation /\ DOMAIN RtlSimulation = 1 .. 5
      /\ RtlSimulation[3] = RtlTraces /\ RtlSimulation[4] = RtlStatus
  BY EachScript DEF RtlSimulation
<1>6. RtlTraces.writes = {"trace"} /\ RtlStatus.writes = {"status"}
  BY DEF RtlTraces, RtlStatus, Step
<1>7. {"trace", "status"} \subseteq Outputs["RTL_simulation"]
  <2>1. Outputs["RTL_simulation"] = UNION {RtlSimulation[i].writes : i \in 1 .. 5}
    BY <1>5, EachScript, OutputsAre
  <2> QED
    BY <1>5, <1>6, <2>1
<1> QED
  BY <1>1, <1>3, <1>4, <1>7

\* The JSON file is counted from this command's traces, if the simulation passed.
LEMMA CoverageStep ==
  ASSUME Shape, PassMeansRun, StepDone, job[at] = "RTL_functional_coverage", step = 3,
         NEW i \in DOMAIN status, Passed(i, "RTL_simulation")
  PROVE  files'["rtl_cov_json"].from = cmd
<1>1. Here = RtlCoverage[3]
  BY CoverageReads DEF Here
<1>2. files["trace"].cmd = cmd /\ files["status"].cmd = cmd
  BY CoverageReads DEF PassMeansRun, Passed, Current, Asic
<1>3. UNION {Script[job[at]][k].reads : k \in 1 .. step} = {"trace", "status"}
  BY CoverageReads
<1>4. {cmd} \union {files[f].cmd : f \in {"trace", "status"}} = {cmd}
  BY <1>2
<1>5. OldestRead = Min({cmd})
  BY <1>3, <1>4 DEF OldestRead
<1>6. cmd \in Nat
  BY DEF Shape
<1>7. OldestRead = cmd
  BY <1>5, <1>6 DEF Min
<1>8. Write(Here.writes, "pass") /\ "rtl_cov_json" \in Here.writes
  BY <1>1, CoverageReads DEF StepDone
<1>9. files'["rtl_cov_json"] = [cmd |-> cmd, from |-> OldestRead, verdict |-> "pass"]
  BY <1>8, Writers, WriteIs
<1> QED
  BY <1>7, <1>9

\* The simulation comes before the coverage in the table.
LEMMA SimulationFirst ==
  ASSUME Shape, InScript, job[at] = "RTL_simulation", NEW j \in DOMAIN status
  PROVE  status[j].check # "RTL_functional_coverage"
<1>1. job = Checks
  BY JobIs, WhereItRuns DEF Asic
<1>2. at \in 1 .. 19
  BY <1>1, Table, WhereItRuns
<1>3. j \in 1 .. at - 1 /\ status[j].check = Checks[j]
  <2>1. at = Len(status) + 1 /\ Len(status) \in Nat /\ DOMAIN status = 1 .. Len(status)
    BY WhereItRuns DEF Shape
  <2>2. j \in 1 .. at - 1
    BY <2>1
  <2>3. status[j].check = Checks[j]
    BY <1>1 DEF Shape, InScript
  <2> QED
    BY <2>2, <2>3
<1>4. Checks[13] = "RTL_simulation" /\ Checks[14] = "RTL_functional_coverage"
  BY DEF Checks
<1>5. at = 13
  BY <1>1, <1>2, <1>4, Table
<1>6. j \in 1 .. 12
  BY <1>3, <1>5
<1>7. Checks[j] # Checks[14]
  <2>1. j \in 1 .. 19 /\ 14 \in 1 .. 19 /\ j # 14
    BY <1>6
  <2> QED
    BY <2>1, Table
<1> QED
  BY <1>3, <1>4, <1>7

LEMMA CoverageGoes ==
  ASSUME Shape, PassMeansRun, CoverageFollowsSimulation, CoverageCounted, Goes
  PROVE  CoverageFollowsSimulation' /\ CoverageCounted'
<1>1. /\ InScript /\ OwnWrites /\ UNCHANGED <<cmd, job, at, status>>
      /\ out' = OnTheWay => StepDone
  BY StaysWell DEF Goes, Stays
<1>2. ASSUME job[at] # "RTL_functional_coverage"
      PROVE  files'["rtl_cov_json"] = files["rtl_cov_json"]
  BY <1>1, <1>2, Writers, ForeignFile
<1>3. CoverageFollowsSimulation'
  <2> SUFFICES ASSUME NEW i \in DOMAIN status, Passed(i, "RTL_simulation"),
                      NEW j \in DOMAIN status, Passed(j, "RTL_functional_coverage")
               PROVE  files'["rtl_cov_json"].from = cmd
    BY <1>1 DEF CoverageFollowsSimulation, Passed
  <2>1. files["rtl_cov_json"].from = cmd
    BY DEF CoverageFollowsSimulation
  <2>2. job[at] # "RTL_functional_coverage"
    BY <1>1, WhereItRuns DEF Passed
  <2> QED
    BY <1>2, <2>1, <2>2
<1>4. CoverageCounted'
  <2> SUFFICES ASSUME job[at] = "RTL_functional_coverage", out' = OnTheWay, step' > 3,
                      NEW i \in DOMAIN status, Passed(i, "RTL_simulation")
               PROVE  files'["rtl_cov_json"].from = cmd
    BY <1>1 DEF CoverageCounted, Passed
  <2>1. /\ StepDone /\ step' = step + 1 /\ step \in Nat /\ step <= 4 /\ out = OnTheWay
        /\ Write(Here.writes, "pass")
    BY <1>1, CoverageReads, WhereItRuns DEF StepDone, AtStep
  <2>2. CASE step = 3
    BY <2>1, <2>2, CoverageStep
  <2>3. CASE step = 4
    <3>1. files["rtl_cov_json"].from = cmd
      BY <1>1, <2>1, <2>3 DEF CoverageCounted
    <3>2. "rtl_cov_json" \notin Here.writes
      BY <2>3, CoverageReads DEF Here
    <3> QED
      BY <2>1, <3>1, <3>2, Writers, FileAfter
  <2>4. step = 3 \/ step = 4
    BY <2>1
  <2> QED
    BY <2>2, <2>3, <2>4
<1> QED
  BY <1>3, <1>4

LEMMA CoverageLeaves ==
  ASSUME Shape, CoverageFollowsSimulation, CoverageCounted, NEW rc, Leaves(rc)
  PROVE  CoverageFollowsSimulation' /\ CoverageCounted'
<1>1. /\ InScript /\ rc \in Nat /\ UNCHANGED <<cmd, job, files>>
      /\ rc = 0 /\ job[at] # Asic => out = OnTheWay /\ step > Len(Script[job[at]])
  BY DEF Leaves
<1>2. /\ DOMAIN status' = DOMAIN status \union {at}
      /\ \A i \in DOMAIN status : status'[i] = status[i]
      /\ status'[at].check = job[at] /\ status'[at].status = StatusOf(rc) /\ step' = 1
  BY LeavesIs
<1>3. StatusOf(rc) = "PASS" => rc = 0
  BY DEF StatusOf
<1>4. CoverageCounted'
  BY <1>2 DEF CoverageCounted
<1>5. CoverageFollowsSimulation'
  <2> SUFFICES ASSUME NEW i \in DOMAIN status', Passed(i, "RTL_simulation")',
                      NEW j \in DOMAIN status', Passed(j, "RTL_functional_coverage")'
               PROVE  files["rtl_cov_json"].from = cmd
    BY <1>1 DEF CoverageFollowsSimulation
  <2>1. CASE j = at
    <3>1. job[at] = "RTL_functional_coverage" /\ rc = 0
      BY <1>2, <1>3, <2>1 DEF Passed
    <3>2. i \in DOMAIN status /\ Passed(i, "RTL_simulation")
      BY <1>2, <2>1, <3>1 DEF Passed
    <3>3. out = OnTheWay /\ step > 3
      <4>1. out = OnTheWay /\ step > 4 /\ step \in 1 .. 4 + 1
        BY <1>1, <3>1, CoverageReads, WhereItRuns DEF Asic
      <4> QED
        BY <4>1
    <3> QED
      BY <1>1, <3>1, <3>2, <3>3 DEF CoverageCounted
  <2>2. CASE j # at
    <3>1. j \in DOMAIN status /\ Passed(j, "RTL_functional_coverage")
      BY <1>2, <2>2 DEF Passed
    <3>2. i # at
      BY <1>1, <1>2, <3>1, SimulationFirst DEF Passed
    <3>3. i \in DOMAIN status /\ Passed(i, "RTL_simulation")
      BY <1>2, <3>2 DEF Passed
    <3> QED
      BY <3>1, <3>3 DEF CoverageFollowsSimulation
  <2> QED
    BY <2>1, <2>2
<1> QED
  BY <1>4, <1>5

-----------------------------------------------------------------------------
(* The reports of `make asic`. *)

LEMMA SingleWrite ==
  ASSUME NEW rc, NEW f, NEW v
  PROVE  End(rc, <<f>>, v).writes = <<[file |-> f, verdict |-> v]>>
<1> DEFINE r == [file |-> f, verdict |-> v]
           w == [i \in DOMAIN <<f>> |-> [file |-> <<f>>[i], verdict |-> v]]
<1>1. DOMAIN <<f>> = {1} /\ <<f>>[1] = f
  OBVIOUS
<1>2. w = [i \in {1} |-> r]
  BY <1>1
<1>3. <<r>> = [i \in {1} |-> r]
  <2> HIDE DEF r
  <2> QED
    OBVIOUS
<1>4. End(rc, <<f>>, v).writes = w
  BY DEF End
<1> QED
  BY <1>2, <1>3, <1>4

\* The seven steps: the first three leave by writing both reports, the others by
\* writing the STA report, and only the third and the last write one in passing.
LEMMA AsicSteps ==
  /\ Script[Asic] = AsicTiming /\ Len(AsicTiming) = 7
  /\ \A s \in 1 .. 3 : \A e \in AsicTiming[s].ends : TwoWrites(e)
  /\ TwoWrites(AsicTiming[2].lack)
  /\ \A s \in 4 .. 7 : \A e \in AsicTiming[s].ends : OneWrite(e)
  /\ OneWrite(AsicTiming[5].lack)
  /\ \A s \in {1, 3, 4, 6, 7} : AsicTiming[s].tools = {{}}
  /\ \A s \in 1 .. 7 : AsicTiming[s].reads = {}
  /\ AsicTiming[3].writes = {"mapped_report"} /\ AsicTiming[7].writes = {"sta_report"}
  /\ \A s \in {1, 2, 4, 5, 6} : AsicTiming[s].writes = {}
<1>1. Script[Asic] = AsicTiming /\ Len(AsicTiming) = 7
  BY EachScript DEF AsicTiming
<1>2. /\ AsicTiming[1] = AsicLibrary /\ AsicTiming[2] = AsicYosys /\ AsicTiming[3] = AsicMapping
      /\ AsicTiming[4] = AsicTarget /\ AsicTiming[5] = AsicStaTool
      /\ AsicTiming[6] = AsicConstraint /\ AsicTiming[7] = AsicSta
  BY DEF AsicTiming
<1>3. ASSUME NEW rc, NEW m \in Said \ {"pass"}
      PROVE  TwoWrites(AsicOut(rc, m, "not_run"))
  <2>1. "not_run" \in Said \ {"pass"}
    BY DEF Said
  <2>2. AsicOut(rc, m, "not_run").writes = <<[file |-> "mapped_report", verdict |-> m],
                                             [file |-> "sta_report", verdict |-> "not_run"]>>
    BY DEF AsicOut
  <2> QED
    BY <1>3, <2>1, <2>2 DEF TwoWrites
<1>4. ASSUME NEW rc, NEW v \in Said \ {"pass"}
      PROVE  OneWrite(End(rc, <<"sta_report">>, v))
  BY <1>4, SingleWrite DEF OneWrite
<1>5. {"fail", "unavailable", "not_run"} \subseteq Said \ {"pass"}
  BY DEF Said
<1>6. /\ AsicLibrary.ends = {AsicOut(2, "not_run", "not_run")}
      /\ AsicLibrary.tools = {{}} /\ AsicLibrary.reads = {} /\ AsicLibrary.writes = {}
  BY DEF AsicLibrary, Step
<1>7. /\ AsicYosys.ends = {} /\ AsicYosys.lack = AsicOut(2, "unavailable", "not_run")
      /\ AsicYosys.reads = {} /\ AsicYosys.writes = {}
  BY DEF AsicYosys, Needs, Step
<1>8. /\ \A e \in AsicMapping.ends : \E rc \in ToolRc : e = AsicOut(rc, "fail", "not_run")
      /\ AsicMapping.tools = {{}} /\ AsicMapping.reads = {} /\ AsicMapping.writes = {"mapped_report"}
  BY DEF AsicMapping, Step
<1>9. /\ AsicTarget.ends = {End(0, <<"sta_report">>, "not_run")}
      /\ AsicTarget.tools = {{}} /\ AsicTarget.reads = {} /\ AsicTarget.writes = {}
  BY DEF AsicTarget, Step
<1>10. /\ AsicStaTool.ends = {} /\ AsicStaTool.lack = End(2, <<"sta_report">>, "unavailable")
       /\ AsicStaTool.reads = {} /\ AsicStaTool.writes = {}
  BY DEF AsicStaTool, Needs, Step, Unavailable
<1>11. /\ AsicConstraint.ends = {End(2, <<"sta_report">>, "not_run")}
       /\ AsicConstraint.tools = {{}} /\ AsicConstraint.reads = {} /\ AsicConstraint.writes = {}
  BY DEF AsicConstraint, Step
<1>12. /\ \A e \in AsicSta.ends : \E rc \in ToolRc : e = End(rc, <<"sta_report">>, "fail")
       /\ AsicSta.tools = {{}} /\ AsicSta.reads = {} /\ AsicSta.writes = {"sta_report"}
  BY DEF AsicSta, Step, ToolFails
<1>13. \A s \in 1 .. 3 : \A e \in AsicTiming[s].ends : TwoWrites(e)
  BY <1>2, <1>3, <1>5, <1>6, <1>7, <1>8
<1>14. \A s \in 4 .. 7 : \A e \in AsicTiming[s].ends : OneWrite(e)
  BY <1>2, <1>4, <1>5, <1>9, <1>10, <1>11, <1>12
<1>15. TwoWrites(AsicTiming[2].lack) /\ OneWrite(AsicTiming[5].lack)
  BY <1>2, <1>3, <1>4, <1>5, <1>7, <1>10
<1>16. \A s \in 1 .. 7 : AsicTiming[s].reads = {}
  BY <1>2, <1>6, <1>7, <1>8, <1>9, <1>10, <1>11, <1>12
<1>17. \A s \in {1, 3, 4, 6, 7} : AsicTiming[s].tools = {{}}
  BY <1>2, <1>6, <1>8, <1>9, <1>11, <1>12
<1>18. /\ AsicTiming[3].writes = {"mapped_report"} /\ AsicTiming[7].writes = {"sta_report"}
       /\ \A s \in {1, 2, 4, 5, 6} : AsicTiming[s].writes = {}
  BY <1>2, <1>6, <1>7, <1>8, <1>9, <1>10, <1>11, <1>12
<1> QED
  BY <1>1, <1>13, <1>14, <1>15, <1>16, <1>17, <1>18

LEMMA HeadTail ==
  /\ \A a : Head(<<a>>) = a /\ Tail(<<a>>) = <<>> /\ <<a>> # <<>>
  /\ \A a, b : Head(<<a, b>>) = a /\ Tail(<<a, b>>) = <<b>> /\ <<a, b>> # <<>>
OBVIOUS

\* Where `make asic` is.
LEMMA AsicAt ==
  ASSUME Shape, InScript, job[at] = Asic
  PROVE  /\ job = <<Asic>> /\ at = 1 /\ step \in 1 .. 8 /\ Len(Script[job[at]]) = 7
         /\ step <= 7 => Here = AsicTiming[step]
         /\ cmd \in Nat /\ files["sta_report"].cmd \in Nat /\ files["sta_report"].cmd <= cmd
<1>1. job = <<Asic>> /\ at \in 1 .. Len(job) /\ Len(job) = 1
  BY WhereItRuns, JobIs, Table
<1>2. Len(Script[job[at]]) = 7 /\ step \in 1 .. 7 + 1
  BY WhereItRuns, AsicSteps
<1>3. cmd \in Nat /\ files["sta_report"].cmd \in Nat /\ files["sta_report"].cmd <= cmd
  BY Writers DEF Shape
<1> QED
  BY <1>1, <1>2, <1>3, AsicSteps DEF Here

LEMMA AsicGoes ==
  ASSUME Shape, StaNeedsMapping, AsicReportsSoFar, Goes
  PROVE  StaNeedsMapping' /\ AsicReportsSoFar'
<1> DEFINE map == "mapped_report"
           sta == "sta_report"
<1>1. /\ InScript /\ OwnWrites /\ UNCHANGED <<cmd, job, at, status>>
  BY StaysWell DEF Goes, Stays
<1>2. ~AsicWentOut'
  BY <1>1, NoAsicYet DEF AsicWentOut
<1>3. map \in FileNames /\ sta \in FileNames
  BY Writers
<1>4. CASE job[at] # Asic
  <2>1. files'[map] = files[map] /\ files'[sta] = files[sta]
    BY <1>1, <1>4, Writers, ForeignFile
  <2>2. job # <<Asic>>
    BY <1>1, <1>4, WhereItRuns
  <2> QED
    BY <1>1, <1>2, <2>1, <2>2 DEF StaNeedsMapping, AsicReportsSoFar
<1>5. CASE job[at] = Asic
  <2>1. /\ job = <<Asic>> /\ at = 1 /\ step \in 1 .. 8 /\ Len(Script[job[at]]) = 7
        /\ step <= 7 => Here = AsicTiming[step]
        /\ cmd \in Nat /\ files[sta].cmd \in Nat /\ files[sta].cmd <= cmd
    BY <1>1, <1>5, AsicAt
  <2>2. CASE StopForLack \/ StopForFault
    <3>1. /\ out = OnTheWay /\ step <= 7 /\ UNCHANGED <<files, step>>
      BY <2>1, <2>2 DEF StopForLack, StopForFault, AtStep
    <3>2. files[sta].cmd < cmd /\ (step > 3 => files[map].cmd = cmd)
      BY <2>1, <3>1 DEF AsicReportsSoFar
    <3>3. IF step <= 3 THEN TwoWrites(out') ELSE OneWrite(out')
      <4>1. CASE StopForFault
        <5>1. out' \in AsicTiming[step].ends
          BY <2>1, <3>1, <4>1 DEF StopForFault
        <5>2. step \in 1 .. 3 \/ (step \in 4 .. 7 /\ ~(step <= 3))
          BY <2>1, <3>1
        <5> QED
          BY <5>1, <5>2, AsicSteps
      <4>2. CASE StopForLack
        <5>1. out' = AsicTiming[step].lack /\ Lacking
          BY <2>1, <3>1, <4>2 DEF StopForLack
        <5>2. ~Provided({{}}, tools) \/ step = 2 \/ step = 5
          <6>1. step \in 1 .. 7
            BY <2>1, <3>1
          <6>2. AsicTiming[step].reads = {}
            BY <6>1, AsicSteps
          <6>3. ~Provided(AsicTiming[step].tools, tools)
            BY <2>1, <3>1, <5>1, <6>2 DEF Lacking
          <6>4. step \in {1, 3, 4, 6, 7} => AsicTiming[step].tools = {{}}
            BY AsicSteps
          <6>5. step \in {1, 3, 4, 6, 7} \/ step = 2 \/ step = 5
            BY <6>1
          <6>6. ASSUME AsicTiming[step].tools = {{}} PROVE ~Provided({{}}, tools)
            BY <6>3, <6>6
          <6> QED
            BY <6>4, <6>5, <6>6
        <5>3. Provided({{}}, tools)
          BY DEF Provided
        <5> QED
          BY <5>1, <5>2, <5>3, AsicSteps
      <4> QED
        BY <2>2, <4>1, <4>2
    <3>4. out' # OnTheWay
      <4>1. OneWrite(out') => out'.writes # <<>>
        BY HeadTail DEF OneWrite
      <4>2. TwoWrites(out') => out'.writes # <<>>
        BY HeadTail DEF TwoWrites
      <4>3. OnTheWay.writes = <<>>
        BY DEF OnTheWay
      <4> QED
        BY <3>3, <4>1, <4>2, <4>3
    <3>5. AsicReportsSoFar'
      BY <1>1, <2>1, <3>1, <3>2, <3>3, <3>4 DEF AsicReportsSoFar
    <3>6. StaNeedsMapping'
      BY <1>1, <1>2, <3>1 DEF StaNeedsMapping
    <3> QED
      BY <3>5, <3>6
  <2>3. CASE StepDone
    <3>1. /\ out = OnTheWay /\ out' = OnTheWay /\ step <= 7 /\ step' = step + 1
          /\ Write(AsicTiming[step].writes, "pass")
      BY <2>1, <2>3 DEF StepDone, AtStep
    <3>2. /\ files[sta].cmd < cmd
          /\ step > 3 => files[map].cmd = cmd /\ files[map].verdict = "pass"
      BY <2>1, <3>1 DEF AsicReportsSoFar
    <3>3. /\ step = 3 => AsicTiming[step].writes = {map}
          /\ step = 7 => AsicTiming[step].writes = {sta}
          /\ step # 3 /\ step # 7 => AsicTiming[step].writes = {}
      <4>1. step \in {1, 2, 4, 5, 6} \/ step = 3 \/ step = 7
        BY <2>1, <3>1
      <4> QED
        BY <4>1, AsicSteps
    <3>4. CASE step = 3
      <4>1. files'[map].cmd = cmd /\ files'[map].verdict = "pass" /\ files'[sta] = files[sta]
        BY <1>3, <3>1, <3>3, <3>4, FileAfter
      <4> QED
        BY <1>1, <1>2, <2>1, <3>1, <3>2, <3>4, <4>1 DEF StaNeedsMapping, AsicReportsSoFar
    <3>5. CASE step = 7
      <4>1. files'[sta].cmd = cmd /\ files'[sta].verdict = "pass" /\ files'[map] = files[map]
        BY <1>3, <3>1, <3>3, <3>5, FileAfter
      <4> QED
        BY <1>1, <1>2, <2>1, <3>1, <3>2, <3>5, <4>1 DEF StaNeedsMapping, AsicReportsSoFar
    <3>6. CASE step # 3 /\ step # 7
      <4>1. files'[sta] = files[sta] /\ files'[map] = files[map]
        BY <1>3, <3>1, <3>3, <3>6, FileAfter
      <4>2. step + 1 <= 7 /\ (step + 1 > 3 => step > 3)
        BY <2>1, <3>1, <3>6
      <4> QED
        BY <1>1, <1>2, <2>1, <3>1, <3>2, <4>1, <4>2 DEF StaNeedsMapping, AsicReportsSoFar
    <3> QED
      BY <3>4, <3>5, <3>6
  <2>4. CASE WriteOnTheWayOut
    <3>1. /\ out.writes # <<>> /\ Write({Head(out.writes).file}, Head(out.writes).verdict)
          /\ out' = [out EXCEPT !.writes = Tail(@)]
      BY <2>4 DEF WriteOnTheWayOut
    <3>2. out # OnTheWay
      BY <3>1 DEF OnTheWay
    <3>3. EndsWell(job[at], out) /\ EndsWell(job[at], out')
      BY <1>1, <3>1, <3>2, WhereItRuns, NextWrite
    <3>4. out' # OnTheWay /\ out'.writes = Tail(out.writes)
      <4> DEFINE W == Seq([file : Own(job[at]), verdict : Said])
      <4>1. out \in [rc : 0 .. 2, writes : W]
        BY <3>3 DEF EndsWell
      <4> HIDE DEF W
      <4>2. out'.writes = Tail(out.writes)
        BY <3>1, <4>1
      <4> QED
        BY <3>3, <4>2, OutIs
    <3> DEFINE fs == {Head(out.writes).file}
               vd == Head(out.writes).verdict
    <3>7. Write(fs, vd)
      BY <3>1
    <3>5. CASE OneWrite(out) /\ files[map].cmd = cmd /\ files[sta].cmd < cmd
      <4>1. PICK v \in Said \ {"pass"} : out.writes = <<[file |-> sta, verdict |-> v]>>
        BY <3>5 DEF OneWrite
      <4>2. Head(out.writes) = [file |-> sta, verdict |-> v] /\ Tail(out.writes) = <<>>
        BY <4>1, HeadTail
      <4>3. fs = {sta} /\ vd = v
        BY <4>2
      <4> HIDE DEF fs, vd
      <4>4. files'[sta].cmd = cmd /\ files'[sta].verdict = v /\ files'[map] = files[map]
        <5>1. files'[sta].cmd = cmd /\ files'[sta].verdict = vd /\ files'[map] = files[map]
          BY <1>3, <3>7, <4>3, FileAfter
        <5> QED
          BY <4>3, <5>1
      <4> QED
        BY <1>1, <1>2, <2>1, <3>4, <3>5, <4>1, <4>2, <4>4 DEF StaNeedsMapping, AsicReportsSoFar
    <3>6. CASE TwoWrites(out) /\ files[sta].cmd < cmd
      <4>1. PICK m, v \in Said \ {"pass"} :
              out.writes = <<[file |-> map, verdict |-> m], [file |-> sta, verdict |-> v]>>
        BY <3>6 DEF TwoWrites
      <4>2. /\ Head(out.writes) = [file |-> map, verdict |-> m]
            /\ Tail(out.writes) = <<[file |-> sta, verdict |-> v]>>
        BY <4>1, HeadTail
      <4>3. fs = {map}
        BY <4>2
      <4> HIDE DEF fs, vd
      <4>4. files'[map].cmd = cmd /\ files'[sta] = files[sta]
        BY <1>3, <3>7, <4>3, FileAfter
      <4>5. OneWrite(out')
        BY <3>4, <4>1, <4>2 DEF OneWrite
      <4> QED
        BY <1>1, <1>2, <2>1, <3>4, <3>6, <4>4, <4>5 DEF StaNeedsMapping, AsicReportsSoFar
    <3> QED
      BY <2>1, <3>1, <3>2, <3>5, <3>6 DEF AsicReportsSoFar
  <2> QED
    BY <2>2, <2>3, <2>4 DEF Goes
<1> QED
  BY <1>4, <1>5

LEMMA AsicLeaves ==
  ASSUME Shape, StaNeedsMapping, AsicReportsSoFar, NEW rc, Leaves(rc)
  PROVE  StaNeedsMapping' /\ AsicReportsSoFar'
<1>1. /\ InScript /\ UNCHANGED <<cmd, job, files>>
      /\ rc # Crashed => IF out = OnTheWay THEN step > Len(Script[job[at]]) ELSE out.writes = <<>>
  BY DEF Leaves
<1>2. /\ DOMAIN status' = DOMAIN status \union {at}
      /\ \A i \in DOMAIN status : status'[i] = status[i]
      /\ status'[at].check = job[at] /\ status'[at].rc = rc
      /\ at' = at + 1
  BY <1>1, LeavesIs
<1>3. AsicReportsSoFar'
  <2>1. at \in 1 .. Len(job)
    BY <1>1, WhereItRuns
  <2>2. at' # 1
    BY <1>2, <2>1
  <2> QED
    BY <2>2 DEF AsicReportsSoFar
<1>4. AsicWentOut' => \A f \in AsicReports : files[f].cmd = cmd
  <2> SUFFICES ASSUME AsicWentOut' PROVE files["mapped_report"].cmd = cmd /\ files["sta_report"].cmd = cmd
    BY DEF AsicReports
  <2>1. job[at] = Asic /\ rc # Crashed
    BY <1>1, <1>2, NoAsicYet DEF AsicWentOut
  <2>2. job = <<Asic>> /\ at = 1 /\ step \in 1 .. 8 /\ Len(Script[job[at]]) = 7
    BY <1>1, <2>1, AsicAt
  <2>3. CASE out = OnTheWay
    <3>1. step > 7
      BY <1>1, <2>1, <2>2, <2>3
    <3>2. step > 3 /\ step \in Nat
      BY <2>2, <3>1
    <3> QED
      BY <2>2, <2>3, <3>1, <3>2 DEF AsicReportsSoFar
  <2>4. CASE out # OnTheWay
    <3>1. out.writes = <<>>
      BY <1>1, <2>1, <2>4
    <3>2. ~OneWrite(out)
      BY <3>1, HeadTail DEF OneWrite
    <3>3. ~TwoWrites(out)
      BY <3>1, HeadTail DEF TwoWrites
    <3> QED
      BY <2>2, <2>4, <3>2, <3>3 DEF AsicReportsSoFar
  <2> QED
    BY <2>3, <2>4
<1>5. StaNeedsMapping'
  BY <1>1, <1>4 DEF StaNeedsMapping
<1> QED
  BY <1>3, <1>5

-----------------------------------------------------------------------------
(* The files of the stress scripts. *)

LEMMA RaiseWritesNothing == Raise.writes = <<>>
<1> DEFINE w == [i \in DOMAIN <<>> |-> [file |-> <<>>[i], verdict |-> "fail"]]
<1>1. Raise.writes = w
  BY DEF Raise, End
<1>2. w = <<>>
  OBVIOUS
<1> QED
  BY <1>1, <1>2

LEMMA StressEnds ==
  ASSUME Shape, InScript, job[at] \in StressScripts, step <= Len(Script[job[at]])
  PROVE  /\ Here.lack.writes = <<>>
         /\ \A e \in Here.ends : e.writes = <<>>
<1>1. step \in 1 .. Len(Script[job[at]]) + 1
  BY WhereItRuns
<1>2. /\ Script["divider_algorithm_stress"] = DividerStress /\ Len(DividerStress) = 1
      /\ Script["front_end_replay_stress"] = FrontendStress /\ Len(FrontendStress) = 1
  BY EachScript DEF DividerStress, FrontendStress
<1>3. Here = DividerStress[1] \/ Here = FrontendStress[1]
  <2>1. Script[job[at]] = DividerStress \/ Script[job[at]] = FrontendStress
    BY <1>2 DEF StressScripts
  <2> DEFINE n == Len(Script[job[at]])
  <2>2. n = 1 /\ step \in 1 .. n + 1 /\ step <= n
    BY <1>1, <1>2, <2>1
  <2> HIDE DEF n
  <2>3. step = 1
    BY <2>2
  <2> QED
    BY <2>1, <2>3 DEF Here
<1>4. Here.ends = {Raise} /\ Here.lack = Raise
  BY <1>3 DEF DividerStress, FrontendStress, Step
<1> QED
  BY <1>4, RaiseWritesNothing

LEMMA StressGoes ==
  ASSUME Shape, StressFiles, Goes
  PROVE  StressFiles'
<1>1. InScript /\ OwnWrites /\ UNCHANGED <<cmd, job, at, status>>
  BY StaysWell DEF Goes, Stays
<1>2. job[at] \in StressScripts => out'.writes = <<>>
  <2> SUFFICES ASSUME job[at] \in StressScripts PROVE out'.writes = <<>>
    OBVIOUS
  <2>1. out.writes = <<>>
    BY <1>1 DEF StressFiles
  <2>2. CASE StopForLack \/ StopForFault
    BY <1>1, <2>2, StressEnds DEF StopForLack, StopForFault, AtStep
  <2>3. CASE StepDone
    BY <2>1, <2>3 DEF StepDone
  <2>4. CASE WriteOnTheWayOut
    BY <2>1, <2>4 DEF WriteOnTheWayOut
  <2> QED
    BY <2>2, <2>3, <2>4 DEF Goes
<1>3. ASSUME NEW f \in {"divider_json", "frontend_json"}
      PROVE  files'[f].verdict = "pass"
  <2>1. f \in FileNames /\ files[f].verdict = "pass" /\ WriterOf(f) \in StressScripts
    BY <1>3, Writers DEF StressFiles, StressScripts
  <2>2. CASE WriterOf(f) # job[at]
    BY <1>1, <2>1, <2>2, ForeignFile
  <2>3. CASE WriterOf(f) = job[at]
    <3>1. ~WriteOnTheWayOut
      BY <1>1, <2>1, <2>3 DEF StressFiles, WriteOnTheWayOut
    <3>2. CASE StepDone
      <4>1. Write(Here.writes, "pass")
        BY <3>2 DEF StepDone
      <4>2. CASE f \in Here.writes
        BY <2>1, <4>1, <4>2, FileAfter
      <4>3. CASE f \notin Here.writes
        BY <2>1, <4>1, <4>3, FileAfter
      <4> QED
        BY <4>2, <4>3
    <3>3. CASE StopForLack \/ StopForFault
      BY <2>1, <3>3 DEF StopForLack, StopForFault
    <3> QED
      BY <3>1, <3>2, <3>3 DEF Goes
  <2> QED
    BY <2>2, <2>3
<1> QED
  BY <1>1, <1>2, <1>3 DEF StressFiles

\* A step of a script keeps all parts of the invariant, and so does its return.
LEMMA ScriptKeeps ==
  ASSUME FlowInv, Goes \/ \E rc : Leaves(rc)
  PROVE  FlowInv'
<1>1. /\ Shape /\ Behind /\ PassMeansRun /\ CoverageFollowsSimulation /\ CoverageCounted
      /\ StaNeedsMapping /\ AsicReportsSoFar /\ StressFiles /\ AllGreen /\ SummaryRows
  BY DEF FlowInv
<1>2. job # <<>> /\ UNCHANGED <<cmd, strict, job, exit, summary>>
  <2>1. Goes => InScript /\ UNCHANGED <<cmd, strict, job, exit, summary>>
    BY <1>1, StaysWell DEF Goes, Stays
  <2> QED
    BY <2>1 DEF Leaves, InScript
<1>3. AllGreen' /\ SummaryRows'
  BY <1>1, <1>2 DEF AllGreen, SummaryRows
<1>4. CASE Goes
  <2>1. Shape' /\ PassMeansRun' /\ Behind'
    BY <1>1, <1>4, GoesKeeps
  <2>2. CoverageFollowsSimulation' /\ CoverageCounted'
    BY <1>1, <1>4, CoverageGoes
  <2>3. StaNeedsMapping' /\ AsicReportsSoFar'
    BY <1>1, <1>4, AsicGoes
  <2>4. StressFiles'
    BY <1>1, <1>4, StressGoes
  <2> QED
    BY <1>3, <2>1, <2>2, <2>3, <2>4 DEF FlowInv
<1>5. CASE \E rc : Leaves(rc)
  <2>0. PICK rc : Leaves(rc)
    BY <1>5
  <2>1. Shape' /\ PassMeansRun' /\ Behind'
    BY <1>1, <2>0, LeavesKeeps
  <2>2. CoverageFollowsSimulation' /\ CoverageCounted'
    BY <1>1, <2>0, CoverageLeaves
  <2>3. StaNeedsMapping' /\ AsicReportsSoFar'
    BY <1>1, <2>0, AsicLeaves
  <2>4. StressFiles'
    <3>1. out' = OnTheWay /\ files' = files
      BY <1>1, <2>0, LeavesIs DEF Leaves
    <3>2. out'.writes = <<>>
      BY <3>1 DEF OnTheWay
    <3> QED
      BY <1>1, <3>1, <3>2 DEF StressFiles
  <2> QED
    BY <1>3, <2>1, <2>2, <2>3, <2>4 DEF FlowInv
<1> QED
  BY <1>4, <1>5

-----------------------------------------------------------------------------
(* The start and the end of a command. *)

LEMMA BeginKeeps ==
  ASSUME FlowInv, NEW scripts \in {Checks, <<Asic>>}, NEW s \in BOOLEAN, NEW t, Begin(scripts, s, t),
         scripts = <<Asic>> => ~s
  PROVE  FlowInv'
<1>1. /\ Shape /\ StaNeedsMapping /\ StressFiles /\ SummaryRows
      /\ job = <<>> /\ cmd' = cmd + 1 /\ strict' = s /\ job' = scripts
      /\ at' = 1 /\ step' = 1 /\ out' = OnTheWay /\ status' = <<>> /\ exit' = Running
      /\ UNCHANGED <<files, summary>>
  BY DEF FlowInv, Begin
<1>2. /\ scripts # <<>> /\ Len(scripts) \in Nat
      /\ 1 \in 1 .. Len(Script[scripts[1]]) + 1
  <2>1. scripts # <<>> /\ Len(scripts) \in Nat
    <3>1. CASE scripts = Checks
      BY <3>1, Table
    <3>2. CASE scripts = <<Asic>>
      <4>1. Len(<<Asic>>) = 1
        OBVIOUS
      <4> QED
        BY <3>2, <4>1
    <3> QED
      BY <3>1, <3>2
  <2>2. scripts[1] \in CheckNames \union {Asic}
    BY Table
  <2> QED
    BY <2>1, <2>2, ScriptsRunWell DEF RunsWell
<1>3. DOMAIN status' = {} /\ Len(status') = 0
  BY <1>1
<1>4. cmd \in Nat /\ \A f \in FileNames : files[f].cmd \in Nat /\ files[f].cmd <= cmd
  BY <1>1 DEF Shape
<1>5. Shape'
  <2>1. \A f \in FileNames : files'[f].cmd \in Nat /\ files'[f].cmd <= cmd'
    BY <1>1, <1>4
  <2>2. cmd' \in Nat /\ strict' \in BOOLEAN /\ DOMAIN files' = FileNames
        /\ job' \in {<<>>, Checks, <<Asic>>} /\ (job' = <<Asic>> => ~strict')
    BY <1>1, <1>4 DEF Shape
  <2>3. status' \in Seq([check : CheckNames \union {Asic}, status : Verdicts, rc : Nat])
    BY <1>1
  <2>4. /\ exit' = Running /\ at' = Len(status') + 1 /\ Len(status') <= Len(job')
        /\ step' \in 1 .. Len(Script[job'[at']]) + 1 /\ out' = OnTheWay
    BY <1>1, <1>2, <1>3
  <2> QED
    BY <1>3, <2>1, <2>2, <2>3, <2>4 DEF Shape
<1>6. PassMeansRun' /\ CoverageFollowsSimulation' /\ CoverageCounted' /\ AllGreen' /\ Behind'
  BY <1>1, <1>2, <1>3
     DEF PassMeansRun, CoverageFollowsSimulation, CoverageCounted, AllGreen, Behind, Running
<1>7. StaNeedsMapping'
  BY <1>1, <1>3 DEF StaNeedsMapping, AsicWentOut
<1>8. AsicReportsSoFar'
  <2>1. files["sta_report"].cmd < cmd + 1
    BY <1>4, Writers
  <2> QED
    BY <1>1, <2>1 DEF AsicReportsSoFar
<1>9. StressFiles'
  <2>1. out'.writes = <<>>
    BY <1>1 DEF OnTheWay
  <2> QED
    BY <1>1, <2>1 DEF StressFiles
<1>10. SummaryRows'
  BY <1>1, <1>2 DEF SummaryRows, Shape
<1> QED
  BY <1>5, <1>6, <1>7, <1>8, <1>9, <1>10 DEF FlowInv

\* A row of the summary that says PASS quotes a status.
LEMMA RowIsStatus ==
  ASSUME Shape, NEW r, StatusText(r) = "PASS"
  PROVE  \E i \in DOMAIN status : status[i].check = r /\ status[i].status = "PASS"
<1> DEFINE found == {i \in DOMAIN status : status[i].check = r}
<1>1. found # {} /\ status[Max(found)].status = "PASS"
  BY DEF StatusText
<1>2. PICK i \in found : TRUE
  BY <1>1
<1>3. found = {i}
  BY <1>2 DEF Shape
<1>4. i \in Nat
  BY <1>2 DEF Shape
<1>5. Max({i}) = i
  BY <1>4 DEF Max
<1> QED
  BY <1>1, <1>2, <1>3, <1>5

\* The five kinds of row are told apart by their names.
LEMMA RowsAre ==
  /\ \A r \in CheckRows : Rows[r] = StatusText(r)
  /\ \A r \in CountRows : Rows[r] = CountRow(r)
<1> DEFINE all == ConstantRows \union StressRows \union CountRows \union CheckRows \union AsicReports
<1>1. ASSUME NEW r \in all
      PROVE  Rows[r] = CASE r \in ConstantRows \union StressRows -> "PASS"
                         [] r \in CountRows   -> CountRow(r)
                         [] r \in CheckRows   -> StatusText(r)
                         [] r \in AsicReports -> AsicRow(r)
  BY <1>1 DEF Rows
<1>2. ASSUME NEW r \in CheckRows
      PROVE  r \in all /\ r \notin ConstantRows \union StressRows /\ r \notin CountRows
             /\ r \notin AsicReports
  BY <1>2 DEF CheckRows, ConstantRows, StressRows, CountRows, AsicReports
<1>3. ASSUME NEW r \in CountRows
      PROVE  r \in all /\ r \notin ConstantRows \union StressRows /\ r \notin CheckRows
             /\ r \notin AsicReports
  BY <1>3 DEF CheckRows, ConstantRows, StressRows, CountRows, AsicReports
<1> HIDE DEF all
<1>4. ASSUME NEW r \in CheckRows
      PROVE  Rows[r] = StatusText(r)
  BY <1>1, <1>2, <1>4
<1>5. ASSUME NEW r \in CountRows
      PROVE  Rows[r] = CountRow(r)
  BY <1>1, <1>3, <1>5
<1> QED
  BY <1>4, <1>5

LEMMA FinishKeeps ==
  ASSUME FlowInv, Finish
  PROVE  FlowInv'
<1>1. /\ Shape /\ PassMeansRun /\ CoverageFollowsSimulation /\ StaNeedsMapping /\ StressFiles
      /\ SummaryRows
      /\ job # <<>> /\ at > Len(job) /\ job' = <<>>
      /\ UNCHANGED <<cmd, strict, tools, at, step, out, status, faults, files>>
  BY DEF FlowInv, Finish
<1>2. Shape'
  BY <1>1 DEF Shape
<1>3. /\ PassMeansRun' /\ CoverageFollowsSimulation' /\ StaNeedsMapping' /\ StressFiles'
      /\ Behind' /\ CoverageCounted' /\ AsicReportsSoFar'
  BY <1>1 DEF PassMeansRun, Current, CoverageFollowsSimulation, Passed, StaNeedsMapping, AsicWentOut,
              StressFiles, Behind, InScript, CoverageCounted, AsicReportsSoFar
<1>4. AllGreen'
  <2> SUFFICES ASSUME exit' = 0, strict
               PROVE  /\ Len(status) = 19
                      /\ \A i \in 1 .. 19 : status[i].check = Checks[i] /\ status[i].status = "PASS"
    BY <1>1 DEF AllGreen
  <2>1. job = Checks
    BY <1>1 DEF Shape
  <2>2. \A i \in DOMAIN status : status[i].status \notin Failing
    BY <2>1 DEF Finish
  <2>3. /\ at = Len(status) + 1 /\ Len(status) <= Len(job) /\ Len(status) \in Nat
        /\ DOMAIN status = 1 .. Len(status)
        /\ \A i \in DOMAIN status : status[i].check = job[i]
    BY <1>1 DEF Shape
  <2>4. Len(status) = 19
    <3>1. Len(job) = 19
      BY <2>1, Table
    <3>2. Len(status) + 1 > 19 /\ Len(status) <= 19
      BY <1>1, <2>3, <3>1
    <3> QED
      BY <3>2, <2>3
  <2>5. ASSUME NEW i \in DOMAIN status
        PROVE  status[i].status = "PASS"
    <3> DEFINE Entry == [check : CheckNames \union {Asic}, status : Verdicts, rc : Nat]
    <3>1. status \in Seq(Entry)
      BY <1>1 DEF Shape
    <3> HIDE DEF Entry
    <3>2. status[i] \in Entry
      BY <3>1
    <3>3. status[i].status \in Verdicts
      BY <3>2 DEF Entry
    <3>4. status[i].status # "TOOL_UNAVAILABLE"
      BY <1>1 DEF Shape
    <3> QED
      BY <2>2, <3>3, <3>4 DEF Verdicts
  <2> QED
    BY <2>1, <2>3, <2>4, <2>5
<1>5. SummaryRows'
  <2>1. CASE summary' = summary
    BY <1>1, <2>1 DEF SummaryRows, Shape
  <2>2. CASE summary' = [cmd |-> cmd, rows |-> Rows]
    <3>1. summary'.cmd = cmd /\ summary'.rows = Rows /\ cmd \in Nat
      BY <1>1, <2>2 DEF Shape
    <3>2. \A r \in CheckRows : Rows[r] = "PASS" =>
            \E i \in DOMAIN status : status[i].check = r /\ status[i].status = "PASS"
      BY <1>1, RowsAre, RowIsStatus
    <3>3. \A r \in CountRows : Rows[r] = "PASS" => files[CountFile(r)].verdict = "pass"
      BY RowsAre DEF CountRow
    <3> QED
      BY <1>1, <3>1, <3>2, <3>3 DEF SummaryRows
  <2> QED
    BY <2>1, <2>2 DEF Finish
<1> QED
  BY <1>2, <1>3, <1>4, <1>5 DEF FlowInv

LEMMA InterruptKeeps ==
  ASSUME FlowInv, Interrupt
  PROVE  FlowInv'
<1>1. /\ Shape /\ PassMeansRun /\ CoverageFollowsSimulation /\ StaNeedsMapping /\ StressFiles
      /\ SummaryRows
      /\ job # <<>> /\ job' = <<>> /\ exit' = Interrupted
      /\ UNCHANGED <<cmd, strict, tools, at, step, status, faults, files, summary>>
  BY DEF FlowInv, Interrupt
<1>2. Shape'
  BY <1>1 DEF Shape
<1>3. /\ PassMeansRun' /\ CoverageFollowsSimulation' /\ StaNeedsMapping' /\ StressFiles'
      /\ Behind' /\ CoverageCounted' /\ AsicReportsSoFar'
  BY <1>1 DEF PassMeansRun, Current, CoverageFollowsSimulation, Passed, StaNeedsMapping, AsicWentOut,
              StressFiles, Behind, InScript, CoverageCounted, AsicReportsSoFar
<1>4. AllGreen' /\ SummaryRows'
  BY <1>1 DEF AllGreen, Interrupted, SummaryRows, Shape
<1> QED
  BY <1>2, <1>3, <1>4 DEF FlowInv

LEMMA FlowCorrect == FlowSpec => []FlowInv
<1>1. FlowInit => FlowInv
  <2> SUFFICES ASSUME FlowInit PROVE FlowInv
    OBVIOUS
  <2>1. /\ cmd = 0 /\ strict = FALSE /\ job = <<>> /\ status = <<>> /\ DOMAIN status = {}
        /\ summary.cmd = 0 /\ DOMAIN files = FileNames
        /\ \A f \in FileNames : files[f].verdict = Committed(f) /\ files[f].cmd = 0
    BY DEF FlowInit
  <2>2. /\ Shape /\ AllGreen /\ Behind /\ PassMeansRun /\ CoverageFollowsSimulation
        /\ CoverageCounted /\ AsicReportsSoFar
    <3>1. <<>> # <<Asic>> /\ <<>> \in Seq([check : CheckNames \union {Asic}, status : Verdicts, rc : Nat])
      OBVIOUS
    <3>2. Shape
      <4>1. \A f \in FileNames : files[f].cmd \in Nat /\ files[f].cmd <= cmd
        BY <2>1
      <4>2. cmd \in Nat /\ strict \in BOOLEAN
        BY <2>1
      <4> QED
        BY <2>1, <3>1, <4>1, <4>2 DEF Shape
    <3>3. AllGreen
      BY <2>1 DEF AllGreen
    <3>4. Behind /\ CoverageCounted /\ AsicReportsSoFar
      BY <2>1, <3>1 DEF Behind, InScript, CoverageCounted, AsicReportsSoFar
    <3>5. PassMeansRun /\ CoverageFollowsSimulation
      BY <2>1 DEF PassMeansRun, CoverageFollowsSimulation
    <3> QED
      BY <3>2, <3>3, <3>4, <3>5
  <2>3. SummaryRows
    BY <2>1 DEF SummaryRows
  <2>4. /\ files["divider_json"].verdict = "pass" /\ files["frontend_json"].verdict = "pass"
        /\ files["sta_report"].verdict = "not_run"
    BY <2>1, Writers DEF Committed, PythonFiles, LogFiles, ToolFiles, AsicReports, AbsentFiles
  <2>5. StaNeedsMapping
    BY <2>1, <2>4 DEF StaNeedsMapping, AsicWentOut
  <2>6. StressFiles
    BY <2>1, <2>4 DEF StressFiles, InScript
  <2> QED
    BY <2>2, <2>3, <2>5, <2>6 DEF FlowInv
<1>2. FlowInv /\ [FlowNext]_vars => FlowInv'
  <2> SUFFICES ASSUME FlowInv, [FlowNext]_vars PROVE FlowInv'
    OBVIOUS
  <2>1. CASE MakeTest \/ MakeCi \/ MakeAsic
    BY <2>1, BeginKeeps, Table DEF MakeTest, MakeCi, MakeAsic
  <2>2. CASE StopForLack \/ StepDone \/ StopForFault \/ WriteOnTheWayOut
    BY <2>2, ScriptKeeps DEF Goes
  <2>3. CASE LeaveEarly \/ LeaveWell \/ Crash
    BY <2>3, LeavesWell, ScriptKeeps DEF FlowInv
  <2>4. CASE Finish
    BY <2>4, FinishKeeps
  <2>5. CASE Interrupt
    BY <2>5, InterruptKeeps
  <2>6. CASE UNCHANGED vars
    <3>1. UNCHANGED vars
      BY <2>6
    <3>2. Shape' /\ AllGreen' /\ SummaryRows'
      BY <3>1 DEF vars, FlowInv, Shape, AllGreen, SummaryRows
    <3>3. Behind' /\ PassMeansRun'
      BY <3>1 DEF vars, FlowInv, Behind, InScript, PassMeansRun, Current
    <3>4. CoverageFollowsSimulation' /\ CoverageCounted'
      BY <3>1 DEF vars, FlowInv, InScript, Passed, CoverageFollowsSimulation, CoverageCounted
    <3>5. StaNeedsMapping' /\ AsicReportsSoFar' /\ StressFiles'
      BY <3>1 DEF vars, FlowInv, InScript, StaNeedsMapping, AsicWentOut, AsicReportsSoFar, StressFiles
    <3> QED
      BY <3>2, <3>3, <3>4, <3>5 DEF FlowInv
  <2> QED
    BY <2>1, <2>2, <2>3, <2>4, <2>5, <2>6 DEF FlowNext
<1> QED
  BY <1>1, <1>2, PTL DEF FlowSpec

-----------------------------------------------------------------------------
(* The theorems. *)

\* What run_all_checks.py calls PASS ran in this command, with its tools here.
THEOREM PassIsEarned == FlowSpec => []PassMeansRun
BY FlowCorrect, PTL DEF FlowInv

\* `make ci` returns 0 only after every check of the table, with fresh reports.
THEOREM GreenIsEarned == FlowSpec => []StrictGreen
<1>1. FlowInv => StrictGreen
  <2> SUFFICES ASSUME FlowInv, exit = 0, strict, job = <<>>
               PROVE  /\ Len(status) = Len(Checks)
                      /\ \A i \in DOMAIN Checks : \A f \in Outputs[Checks[i]] : Current(f)
    BY DEF StrictGreen
  <2>1. /\ Len(status) = 19
        /\ \A i \in 1 .. 19 : status[i].check = Checks[i] /\ status[i].status = "PASS"
    BY DEF FlowInv, AllGreen
  <2>2. DOMAIN status = 1 .. 19
    BY <2>1 DEF FlowInv, Shape
  <2> QED
    BY <2>1, <2>2, Table DEF FlowInv, PassMeansRun
<1> QED
  BY <1>1, FlowCorrect, PTL

\* Coverage beside a passed simulation was counted from its traces.
THEOREM CoverageIsOfThisRun == FlowSpec => []CoverageFollowsSimulation
BY FlowCorrect, PTL DEF FlowInv

\* A run_asic_timing.py that went out its own way has written both reports, and an
\* STA report with return code 0 lies beside a mapping that succeeded or beside a
\* newer one, of a script cut off between its two writes.
THEOREM StaFollowsMapping == FlowSpec => []StaNeedsMapping
BY FlowCorrect, PTL DEF FlowInv

\* In a new summary a check row says PASS only of a check that passed in this very
\* command, and a stress or count row only of a JSON file that holds no failure;
\* the two constant rows say PASS of nothing.
THEOREM SummaryIsTrue == FlowSpec => []SummaryOfPasses
<1>1. FlowInv => SummaryOfPasses
  <2> SUFFICES ASSUME FlowInv, job = <<>>, summary.cmd = cmd, cmd > 0
               PROVE  /\ \A r \in CheckRows : summary.rows[r] = "PASS" => \A f \in Outputs[r] : Current(f)
                      /\ \A r \in StressRows \union CountRows :
                           summary.rows[r] = "PASS" => \A f \in Outputs[r] : files[f].verdict = "pass"
    BY DEF SummaryOfPasses
  <2>1. ASSUME NEW r \in CheckRows, summary.rows[r] = "PASS"
        PROVE  \A f \in Outputs[r] : Current(f)
    <3>1. PICK i \in DOMAIN status : status[i].check = r /\ status[i].status = "PASS"
      BY <2>1 DEF FlowInv, SummaryRows
    <3>2. r # Asic
      BY DEF CheckRows, Asic
    <3> QED
      BY <3>1, <3>2 DEF FlowInv, PassMeansRun
  <2>2. /\ Outputs["divider_algorithm_stress"] = {"divider_json"}
        /\ Outputs["front_end_replay_stress"] = {"frontend_json"}
        /\ Outputs["reference_regression"] = {"reference_json"}
        /\ Outputs["reference_stimulus_coverage"] = {"stimulus_json"}
    <3>1. /\ DOMAIN DividerStress = {1} /\ DividerStress[1].writes = {"divider_json"}
          /\ DOMAIN FrontendStress = {1} /\ FrontendStress[1].writes = {"frontend_json"}
          /\ DOMAIN ReferenceRegression = {1} /\ ReferenceRegression[1].writes = {"reference_json"}
          /\ DOMAIN StimulusCoverage = {1} /\ StimulusCoverage[1].writes = {"stimulus_json"}
      BY DEF DividerStress, FrontendStress, ReferenceRegression, StimulusCoverage, Step
    <3> QED
      BY <3>1, EachScript, OutputsAre
  <2>3. ASSUME NEW r \in CountRows, summary.rows[r] = "PASS"
        PROVE  \A f \in Outputs[r] : files[f].verdict = "pass"
    <3>1. files[CountFile(r)].verdict = "pass"
      BY <2>3 DEF FlowInv, SummaryRows
    <3>2. Outputs[r] = {CountFile(r)}
      BY <2>2, <2>3 DEF CountRows, CountFile
    <3> QED
      BY <3>1, <3>2
  <2> QED
    BY <2>1, <2>2, <2>3 DEF StressRows, FlowInv, StressFiles
<1> QED
  BY <1>1, FlowCorrect, PTL

=============================================================================
