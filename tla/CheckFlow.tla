----------------------------- MODULE CheckFlow ------------------------------
(***************************************************************************)
(* The flow around the check scripts: run_all_checks.py (`make test`, and  *)
(* `make ci` with REQUIRE_EDA=1), which runs the scripts of its table one  *)
(* after the other and reduces them to a status each and one exit code;    *)
(* generate_final_summary.py after a run that is not strict; `make asic`   *)
(* on its own.  The report files outlive the command that wrote them, so   *)
(* each carries the number of that command, and of the oldest command      *)
(* whose files it was computed from.  A tool may fail at any step; a       *)
(* script may be killed, and the user or a CI time limit may interrupt a   *)
(* command, between any two steps and any two writes of a report file.     *)
(* (The write of one small file is a step.)                                *)
(***************************************************************************)
EXTENDS CheckScripts, Naturals, FiniteSets, FiniteSetsExt

CONSTANTS ToolSets,     \* the sets of tools a machine may have installed
          MaxCommands,  \* bound: commands of a behaviour
          MaxFaults     \* bound: steps of one command that do not go well

ASSUME FlowConstants == MaxCommands \in Nat /\ MaxFaults \in Nat

VARIABLES cmd,      \* number of the current (or last) command
          strict,   \* REQUIRE_EDA=1
          tools,    \* tools on the PATH of the command
          job,      \* scripts of the command, <<>> between commands
          at,       \* the script that runs, as an index of job
          step,     \* the step of it that comes next
          out,      \* the way out it is on: an exit code and the writes left to do
          status,   \* what the finished scripts of the command returned
          exit,     \* exit code of the last command
          faults,   \* steps of the command that did not go well
          files,    \* the report files
          summary   \* reports/final_verification_summary.md

vars == <<cmd, strict, tools, job, at, step, out, status, exit, faults, files, summary>>

Running     == 99
Interrupted == 130
\* A script that goes in no way of its own: killed (a CI time limit, memory), or
\* raising where it prints or writes.  The flow treats all those codes alike.
Crashed     == 137

\* Still on its way: no way out is taken.
OnTheWay == [rc |-> Running, writes |-> <<>>]

\* The report files, by how the last run before the commit left them.
AbsentFiles    == {"trace", "status", "rtl_cov_json", "code_cov_json", "code_cov_md"}
ToolFiles      == {"rtl_log", "rtl_cov_md", "perf_md", "lint_report", "formal_report", "synth_report",
                   "timing_report"}
PythonFiles    == {"hex", "tool_versions", "reference_json", "timing_json", "divider_json",
                   "frontend_json", "isa_json", "stimulus_json", "static_audit", "formal_audit",
                   "tool_audit"}
\* reports/simulation/pytest_reference.log, which no script of the flow writes.
LogFiles       == {"pytest_log"}
FileNames      == AbsentFiles \union ToolFiles \union PythonFiles \union AsicReports \union LogFiles

\* The reports as they are committed: the last run had no EDA tool.
Committed(f) ==
    CASE f \in PythonFiles \union LogFiles -> "pass"
      [] f \in ToolFiles      -> "unavailable"
      [] f \in AsicReports    -> "not_run"
      [] f \in AbsentFiles    -> "absent"

FlowInit ==
    /\ cmd = 0 /\ strict = FALSE /\ tools = {} /\ job = <<>> /\ at = 1 /\ step = 1
    /\ out = OnTheWay /\ status = <<>> /\ exit = 0 /\ faults = 0 /\ summary = [cmd |-> 0, rows |-> <<>>]
    /\ files = [f \in FileNames |-> [cmd |-> 0, from |-> 0, verdict |-> Committed(f)]]

Begin(scripts, s, t) ==
    /\ job = <<>> /\ cmd < MaxCommands
    /\ cmd' = cmd + 1 /\ strict' = s /\ tools' = t /\ job' = scripts
    /\ at' = 1 /\ step' = 1 /\ out' = OnTheWay /\ status' = <<>> /\ exit' = Running /\ faults' = 0
    /\ UNCHANGED <<files, summary>>

MakeTest == \E t \in ToolSets : Begin(Checks, FALSE, t)
MakeCi   == \E t \in ToolSets : Begin(Checks, TRUE, t)
MakeAsic == \E t \in ToolSets : Begin(<<Asic>>, FALSE, t)

InScript == job # <<>> /\ at <= Len(job)
\* The script is about to take a step.
AtStep   == InScript /\ out = OnTheWay /\ step <= Len(Script[job[at]])
Here     == Script[job[at]][step]

\* The oldest command whose files the running script has read by now.
OldestRead ==
    Min({cmd} \union
        {files[f].cmd : f \in UNION {Script[job[at]][i].reads : i \in 1 .. step}})

Write(fs, verdict) ==
    files' = [f \in FileNames |->
                 IF f \in fs THEN [cmd |-> cmd, from |-> OldestRead, verdict |-> verdict]
                 ELSE files[f]]

\* Mutant of StatusOf: a missing tool passes for the strict gate too.
StatusOfLenient(rc) ==
    CASE rc = 0 -> "PASS"
      [] rc = 2 -> "TOOL_UNAVAILABLE"
      [] OTHER  -> "FAIL"

\* What run_all_checks.py makes of an exit code.
StatusOf(rc) ==
    CASE rc = 0             -> "PASS"
      [] rc = 2 /\ ~strict  -> "TOOL_UNAVAILABLE"
      [] rc = 2 /\ strict   -> "FAIL_REQUIRED_TOOL_UNAVAILABLE"
      [] OTHER              -> "FAIL"

Returned(rc) ==
    /\ status' = Append(status, [check |-> job[at], status |-> StatusOf(rc), rc |-> rc])
    /\ at' = at + 1 /\ step' = 1 /\ out' = OnTheWay

Lacking ==
    \/ ~Provided(Here.tools, tools)
    \/ \E f \in Here.reads : files[f].verdict = "absent"

\* The script finds a tool or an input file missing.
StopForLack ==
    /\ AtStep /\ Lacking
    /\ out' = Here.lack
    /\ UNCHANGED <<cmd, strict, tools, job, at, step, status, exit, faults, files, summary>>

\* The step goes well.
StepDone ==
    /\ AtStep /\ ~Lacking
    /\ Write(Here.writes, "pass") /\ step' = step + 1
    /\ UNCHANGED <<cmd, strict, tools, job, at, out, status, exit, faults, summary>>

\* The step ends the script early.
StopForFault ==
    /\ AtStep /\ ~Lacking /\ faults < MaxFaults
    /\ out' \in Here.ends
    /\ faults' = faults + 1
    /\ UNCHANGED <<cmd, strict, tools, job, at, step, status, exit, files, summary>>

\* The next report file on the way out.
WriteOnTheWayOut ==
    /\ InScript /\ out.writes # <<>>
    /\ Write({Head(out.writes).file}, Head(out.writes).verdict)
    /\ out' = [out EXCEPT !.writes = Tail(@)]
    /\ UNCHANGED <<cmd, strict, tools, job, at, step, status, exit, faults, summary>>

\* The end of a way out, with its exit code, and the end of the last step, with 0.
LeaveEarly ==
    /\ InScript /\ out # OnTheWay /\ out.writes = <<>>
    /\ Returned(out.rc)
    /\ UNCHANGED <<cmd, strict, tools, job, exit, faults, files, summary>>

LeaveWell ==
    /\ InScript /\ out = OnTheWay /\ step > Len(Script[job[at]])
    /\ Returned(0)
    /\ UNCHANGED <<cmd, strict, tools, job, exit, faults, files, summary>>

\* Anywhere in the script.
Crash ==
    /\ InScript /\ faults < MaxFaults
    /\ Returned(Crashed) /\ faults' = faults + 1
    /\ UNCHANGED <<cmd, strict, tools, job, exit, files, summary>>

StatusText(check) ==
    LET found == {i \in DOMAIN status : status[i].check = check}
    IN IF found = {} THEN "NOT_RUN" ELSE status[Max(found)].status

\* The rows of generate_final_summary.py that say PASS, under the names of their
\* checks.  "Project structure" always does, and the Python tests do of the count
\* in a log that no script of the flow writes.
ConstantRows == {"project_structure", "pytest_Python_models"}
\* The two stress rows say PASS of one count of their JSON file, twice.
StressRows == {"divider_algorithm_stress", "front_end_replay_stress"}
\* The directed and random tests (as one row here) and the stimulus coverage say
\* PASS beside n/m of their JSON file: all of them, or only some.
CountRows  == {"reference_regression", "reference_stimulus_coverage"}
CountFile(r) == IF r = "reference_regression" THEN "reference_json" ELSE "stimulus_json"
CountRow(r)  == IF files[CountFile(r)].verdict = "pass" THEN "PASS" ELSE "PASS_OF_SOME"
\* The check rows quote the status of the command.
CheckRows  == {"static_RTL_audit", "formal_flow_source_audit", "EDA_CI_tool_flow_audit", "RTL_simulation",
               "RTL_functional_coverage", "RTL_performance_compare", "Verilator_lint", "formal",
               "Yosys_synthesis"}
\* The ASIC rows look for a return code 0 in the reports of the last `make asic`.
AsicRow(f) == IF files[f].verdict = "pass" THEN "PASS" ELSE files[f].verdict

Rows ==
    [r \in ConstantRows \union StressRows \union CountRows \union CheckRows \union AsicReports |->
        CASE r \in ConstantRows \union StressRows -> "PASS"
          [] r \in CountRows   -> CountRow(r)
          [] r \in CheckRows   -> StatusText(r)
          [] r \in AsicReports -> AsicRow(r)]

Failing == {"FAIL", "FAIL_REQUIRED_TOOL_UNAVAILABLE"}

\* After the last script: the status file, the summary, the exit code.
Finish ==
    /\ job # <<>> /\ at > Len(job)
    /\ exit' = IF job = Checks
               THEN IF \E i \in DOMAIN status : status[i].status \in Failing THEN 1 ELSE 0
               ELSE status[1].rc
    /\ summary' = IF job = Checks /\ ~strict THEN [cmd |-> cmd, rows |-> Rows] ELSE summary
    /\ job' = <<>>
    /\ UNCHANGED <<cmd, strict, tools, at, step, out, status, faults, files>>

Interrupt ==
    /\ job # <<>>
    /\ job' = <<>> /\ exit' = Interrupted /\ out' = OnTheWay
    /\ UNCHANGED <<cmd, strict, tools, at, step, status, faults, files, summary>>

FlowNext ==
    \/ MakeTest \/ MakeCi \/ MakeAsic
    \/ StopForLack \/ StepDone \/ StopForFault
    \/ WriteOnTheWayOut \/ LeaveEarly \/ LeaveWell \/ Crash
    \/ Finish \/ Interrupt

FlowSpec == FlowInit /\ [][FlowNext]_vars

-----------------------------------------------------------------------------
Current(f) == files[f].cmd = cmd /\ files[f].verdict = "pass"

\* A check that run_all_checks.py calls PASS ran: the tools of each of its steps
\* are on this machine, and every report it makes says pass and was written by
\* this very command, never left over from an earlier one.
PassMeansRun ==
    \A i \in DOMAIN status :
        status[i].status = "PASS" /\ status[i].check # Asic =>
            /\ \A n \in ToolNeeds[status[i].check] : Provided(n, tools)
            /\ \A f \in Outputs[status[i].check] : Current(f)

\* `make ci` returns 0 only when every check of the table ran to its end in this
\* command and no report is older than it.
StrictGreen ==
    (exit = 0 /\ strict /\ job = <<>>) =>
        /\ Len(status) = Len(Checks)
        /\ \A i \in DOMAIN Checks : \A f \in Outputs[Checks[i]] : Current(f)

\* Functional coverage called PASS beside a simulation called PASS was counted
\* from the traces of that simulation: the order of the table matters, since
\* analyze_rtl_coverage.py takes any traces it finds.
Passed(i, check) == status[i].check = check /\ status[i].status = "PASS"

CoverageFollowsSimulation ==
    \A i \in DOMAIN status : Passed(i, "RTL_simulation") =>
        \A j \in DOMAIN status : Passed(j, "RTL_functional_coverage") =>
            files["rtl_cov_json"].from = cmd

\* Over any series of commands, a run_asic_timing.py that went out its own way has
\* written both of its reports, so that a finished STA lies beside the mapping that
\* it timed.  One that was killed or interrupted between its two writes (after line
\* 72 and before line 78, say) may leave an old STA report that says return code 0
\* beside a mapping that failed; then, and only then, the mapping report is the newer.
AsicWentOut == \E i \in DOMAIN status : status[i].check = Asic /\ status[i].rc # Crashed

StaNeedsMapping ==
    /\ AsicWentOut => \A f \in AsicReports : files[f].cmd = cmd
    /\ files["sta_report"].verdict = "pass" =>
          \/ files["mapped_report"].verdict = "pass"
          \/ files["mapped_report"].cmd > files["sta_report"].cmd

\* Violated.  A run that is green had only exit codes the table allows
\* (run_all_checks.py:12 allows pytest {0}, and line 36 prints FAILED for a code
\* outside the set).
GreenMeansAllowed ==
    (exit = 0 /\ job = <<>>) =>
        \A i \in DOMAIN status : status[i].check # Asic => status[i].rc \in Allowed(status[i].check)

\* What PASS is worth in a new summary.  In a row that quotes the status, the check
\* passed in this very command.  In a row that prints counts, the JSON file it
\* prints them of was last written by a script that passed, if the counts are full;
\* the two stress rows print one count twice and say PASS whatever the status, so
\* that this rests on those scripts raising before they would write a failing count.
\* The two ConstantRows are left out, as they are worth nothing: when pytest fails,
\* the row of the Python tests still says PASS.
SummaryOfPasses ==
    job = <<>> /\ summary.cmd = cmd /\ cmd > 0 =>
        /\ \A r \in CheckRows : summary.rows[r] = "PASS" => \A f \in Outputs[r] : Current(f)
        /\ \A r \in StressRows \union CountRows :
              summary.rows[r] = "PASS" => \A f \in Outputs[r] : files[f].verdict = "pass"
=============================================================================
