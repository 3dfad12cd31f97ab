---------------------------- MODULE CheckScripts ----------------------------
(***************************************************************************)
(* The check scripts under scripts/, each as the sequence of its steps.    *)
(* What the verdict of the flow depends on is kept: which tools a script   *)
(* looks for, at which steps it can stop, with which exit code, and which  *)
(* report files it writes, in which order: a step writes one file at most, *)
(* so that a script can be cut off between any two writes.  What a report  *)
(* says beyond its verdict, and how a tool reaches its verdict, is left    *)
(* out.                                                                    *)
(***************************************************************************)
EXTENDS Naturals, Sequences

\* What a failing external tool may return.  The scripts hand the code on,
\* and nothing keeps a tool from using 2: `make`, pytest and iverilog do.
ToolRc == {1, 2}

\* A way a script ends early: the exit code, and the report files of that path
\* with what each is made to say, in the order in which they are written.
End(rc, fs, verdict) ==
    [rc |-> rc, writes |-> [i \in DOMAIN fs |-> [file |-> fs[i], verdict |-> verdict]]]

\* A raised exception or assertion: Python exits with 1 and no report is touched.
Raise == End(1, <<>>, "fail")

ToolFails(fs) == {End(rc, fs, "fail") : rc \in ToolRc}

\* A step: it needs one of the tool sets `tools` and every file of `reads`, or else
\* leaves by `lack`.  It may stop the script in one of `ends`; when it goes well it
\* writes the report file of `writes`, if there is one.
Step(fs, ends) ==
    [tools |-> {{}}, reads |-> {}, lack |-> Raise, writes |-> fs, ends |-> ends]

Needs(toolsets, lack) == [Step({}, {}) EXCEPT !.tools = toolsets, !.lack = lack]

Reads(fs) == [Step({}, {}) EXCEPT !.reads = fs]

Unavailable(fs) == End(2, fs, "unavailable")

Simulator == {{"verilator"}, {"iverilog", "vvp"}}

\* The Python-only scripts.  Some record a failure in their report ...
ReferenceRegression == <<Step({"reference_json"}, {End(1, <<"reference_json">>, "fail")})>>
IsaExercise         == <<Step({"isa_json"},       {Raise, End(1, <<"isa_json">>, "fail")})>>
StimulusCoverage    == <<Step({"stimulus_json"},  {Raise, End(1, <<"stimulus_json">>, "fail")})>>
StaticAudit         == <<Step({"static_audit"},   {Raise, End(1, <<"static_audit">>, "fail")})>>
FormalFlowAudit     == <<Step({"formal_audit"},   {Raise, End(1, <<"formal_audit">>, "fail")})>>
ToolFlowAudit       == <<Step({"tool_audit"},     {Raise, End(1, <<"tool_audit">>, "fail")})>>

\* ... and some raise before they write anything.
DetectTools        == <<Step({"tool_versions"}, {})>>
DirectedGeneration == <<Step({"hex"}, {Raise})>>
MicroarchModel     == <<Step({"timing_json"}, {Raise})>>
\* Mutant of DividerStress: the count is written before the script fails.
DividerStressLate  == <<Step({"divider_json"}, {End(1, <<"divider_json">>, "fail")})>>
DividerStress      == <<Step({"divider_json"}, {Raise})>>
FrontendStress     == <<Step({"frontend_json"}, {Raise})>>

\* pytest keeps no file; it returns 1 for a failed test and 2 for a test module
\* that cannot be collected.
PytestModels == <<Step({}, ToolFails(<<>>))>>

\* run_rtl_regression.py: a compile error is passed on before any trace or the
\* log is touched.  Every program then runs, whatever the ones before it did: a
\* mismatch leaves complete evidence behind, a simulator that dies leaves a
\* trace only, and a trace that cannot be read raises before the log is written.
RtlBackend == Needs(Simulator, Unavailable(<<"rtl_log">>))
RtlCompile == Step({}, ToolFails(<<>>))
RtlTraces  == Step({"trace"},
                   {End(1, <<"trace", "status", "rtl_log">>, "fail"),
                    End(1, <<"trace", "rtl_log">>, "fail"),
                    End(1, <<"trace", "status">>, "fail")})
RtlStatus  == Step({"status"}, {})
RtlLog     == Step({"rtl_log"}, {})
RtlSimulation == <<RtlBackend, RtlCompile, RtlTraces, RtlStatus, RtlLog>>

\* analyze_rtl_coverage.py reads whatever evidence lies in the reports.
RtlCoverage ==
    <<Needs(Simulator, Unavailable(<<"rtl_cov_md">>)),
      Reads({"trace", "status"}),
      Step({"rtl_cov_json"}, {Raise, End(1, <<"rtl_cov_json", "rtl_cov_md">>, "fail")}),
      Step({"rtl_cov_md"}, {})>>

\* run_verilator_code_coverage.py: only the runs and the final validity test
\* report a failure; each coverage tool in between passes its code on.
CodeCoverageTools == Needs({{"verilator", "verilator_coverage"}}, Unavailable(<<"code_cov_md">>))
CodeCoverageBuild == Step({}, {Raise} \union ToolFails(<<>>))
CodeCoverageRuns  == Step({}, {End(1, <<"code_cov_md">>, "fail")})
CodeCoverageMerge == Step({}, ToolFails(<<>>))
CodeCoverageValid ==
    Step({"code_cov_json"}, {End(1, <<"code_cov_json", "code_cov_md">>, "fail")})
CodeCoverage ==
    <<CodeCoverageTools, CodeCoverageBuild, CodeCoverageRuns, CodeCoverageMerge, CodeCoverageValid,
      Step({"code_cov_md"}, {})>>

\* run_rtl_performance_compare.py generates its programs before it looks for a
\* tool, and turns every later exception into a FAIL report.
PerfCompare ==
    <<Step({}, {Raise}),
      Needs(Simulator, Unavailable(<<"perf_md">>)),
      Step({"perf_md"}, {End(1, <<"perf_md">>, "fail")})>>

\* run_lint.py: Verilator's own code first, then 1 for a warning that is not
\* allowed.  Without Verilator it repeats the static audit, which writes what the
\* audit of the same run already wrote of the same tree.
Lint ==
    <<Needs({{"verilator"}}, End(2, <<"lint_report">>, "unavailable")),
      Step({"lint_report"}, ToolFails(<<"lint_report">>))>>

\* run_formal.py: yosys, then the Slang plugin; the loop stops at the first
\* target that fails, and the report then holds the targets run so far.
FormalProbe == Needs({{"yosys", "slang"}}, Unavailable(<<"formal_report">>))
\* Mutant of FormalTarget: the failed target leaves the exit code at 0.
FormalTargetQuiet(last) ==
    Step(IF last THEN {"formal_report"} ELSE {}, {End(0, <<"formal_report">>, "fail")})
FormalTarget(last) ==
    Step(IF last THEN {"formal_report"} ELSE {}, {End(1, <<"formal_report">>, "fail")})
Formal == <<FormalProbe, FormalTarget(FALSE), FormalTarget(FALSE), FormalTarget(TRUE)>>

\* run_synthesis.py falls back to the native frontend without Slang.
Synthesis ==
    <<Needs({{"yosys"}}, Unavailable(<<"synth_report", "timing_report">>)),
      Step({"synth_report"}, ToolFails(<<"synth_report", "timing_report">>)),
      Step({"timing_report"}, {})>>

\* run_asic_timing.py: library, yosys, mapping, constraint, STA tool, its
\* constraint's value, STA.  Each way out leaves its own pair of reports.
AsicReports  == {"mapped_report", "sta_report"}
\* The ways out that write both reports, the mapping's first: the old STA report
\* lies beside the new mapping report until the second write.
AsicOut(rc, mapped, sta) ==
    [rc |-> rc, writes |-> <<[file |-> "mapped_report", verdict |-> mapped],
                             [file |-> "sta_report", verdict |-> sta]>>]
AsicLibrary  == Step({}, {AsicOut(2, "not_run", "not_run")})
AsicYosys    == Needs({{"yosys"}}, AsicOut(2, "unavailable", "not_run"))
\* Mutant of AsicMapping: a failed mapping leaves the STA report as it was.
AsicMappingQuiet == Step({"mapped_report"}, ToolFails(<<"mapped_report">>))
AsicMapping  == Step({"mapped_report"}, {AsicOut(rc, "fail", "not_run") : rc \in ToolRc})
AsicTarget   == Step({}, {End(0, <<"sta_report">>, "not_run")})
AsicStaTool  == Needs({{"sta"}}, Unavailable(<<"sta_report">>))
AsicConstraint == Step({}, {End(2, <<"sta_report">>, "not_run")})
AsicSta      == Step({"sta_report"}, ToolFails(<<"sta_report">>))
AsicTiming   ==
    <<AsicLibrary, AsicYosys, AsicMapping, AsicTarget, AsicStaTool, AsicConstraint, AsicSta>>

\* Mutant of Checks: coverage is analysed before the regression has run.
ChecksSwapped ==
    <<"tool_detection", "directed_generation", "reference_regression", "microarchitecture_model",
      "divider_algorithm_stress", "front_end_replay_stress", "pytest_Python_models",
      "required_ISA_exercise", "reference_stimulus_coverage", "static_RTL_audit",
      "formal_flow_source_audit", "EDA_CI_tool_flow_audit", "RTL_functional_coverage",
      "RTL_simulation", "Verilator_RTL_code_coverage", "RTL_performance_compare",
      "Verilator_lint", "formal", "Yosys_synthesis">>
\* The checks table of run_all_checks.py, in its order; an underscore in a name is
\* a space or a slash there.
Checks ==
    <<"tool_detection", "directed_generation", "reference_regression", "microarchitecture_model",
      "divider_algorithm_stress", "front_end_replay_stress", "pytest_Python_models",
      "required_ISA_exercise", "reference_stimulus_coverage", "static_RTL_audit",
      "formal_flow_source_audit", "EDA_CI_tool_flow_audit", "RTL_simulation",
      "RTL_functional_coverage", "Verilator_RTL_code_coverage", "RTL_performance_compare",
      "Verilator_lint", "formal", "Yosys_synthesis">>

\* The exit codes the table allows: 2 only where an EDA tool may be missing.
Allowed(check) ==
    IF check \in {"RTL_simulation", "RTL_functional_coverage", "Verilator_RTL_code_coverage",
                  "RTL_performance_compare", "Verilator_lint", "formal", "Yosys_synthesis"}
    THEN {0, 2} ELSE {0}

Asic == "make_asic"

\* The names of the checks, and what each of them runs.
CheckNames == {Checks[i] : i \in DOMAIN Checks}

Script ==
  [check \in CheckNames \union {Asic} |->
    CASE check = "tool_detection"              -> DetectTools
      [] check = "directed_generation"         -> DirectedGeneration
      [] check = "reference_regression"        -> ReferenceRegression
      [] check = "microarchitecture_model"     -> MicroarchModel
      [] check = "divider_algorithm_stress"    -> DividerStress
      [] check = "front_end_replay_stress"     -> FrontendStress
      [] check = "pytest_Python_models"        -> PytestModels
      [] check = "required_ISA_exercise"       -> IsaExercise
      [] check = "reference_stimulus_coverage" -> StimulusCoverage
      [] check = "static_RTL_audit"            -> StaticAudit
      [] check = "formal_flow_source_audit"    -> FormalFlowAudit
      [] check = "EDA_CI_tool_flow_audit"      -> ToolFlowAudit
      [] check = "RTL_simulation"              -> RtlSimulation
      [] check = "RTL_functional_coverage"     -> RtlCoverage
      [] check = "Verilator_RTL_code_coverage" -> CodeCoverage
      [] check = "RTL_performance_compare"     -> PerfCompare
      [] check = "Verilator_lint"              -> Lint
      [] check = "formal"                      -> Formal
      [] check = "Yosys_synthesis"             -> Synthesis
      [] check = Asic                          -> AsicTiming]

\* Every file a script writes on the way to exit code 0.
Outputs == [check \in DOMAIN Script |-> UNION {Script[check][i].writes : i \in DOMAIN Script[check]}]

\* The tools a check needs, as alternatives for each of its steps.
ToolNeeds == [check \in DOMAIN Script |-> {Script[check][i].tools : i \in DOMAIN Script[check]}]

Provided(toolsets, tools) == \E t \in toolsets : t \subseteq tools
=============================================================================
