------------------------------ MODULE SkillTool ------------------------------
(***************************************************************************)
(* The skill tool (tools/tool_skill.py) on one skill of the registry, with *)
(* the evaluator (core/skill_evaluation.py) and the runner                 *)
(* (core/skill_runner.py).  Runs call the tool concurrently: an evaluation *)
(* awaits each of its test cases, an execution the process it starts from  *)
(* a script file that all executions of the skill share.                   *)
(***************************************************************************)
EXTENDS SkillRegistry, FiniteSets

CONSTANTS
    Call,  \* calls of the tool, each for one request at a time
    Good,  \* codes that pass the test cases
    Cases  \* how many test cases a skill has

ASSUME ToolAssumption == Good \subseteq Code /\ Cases \in Nat \ {0}

VARIABLES
    call,   \* a call under way
    script, \* the code in sandbox_dir/skill_script.py
    passed  \* codes that passed an evaluation in which only they ran (a history)

toolVars == <<call, script, passed>>
vars == <<registryVars, toolVars>>

(* "testing": an evaluation, what it has run so far and the module it has loaded; "launching": the *)
(* script is written, the process not started; "running": the process has read its script.         *)
CallRecord == [pc : {"idle", "testing", "launching", "running"}, left : 0 .. Cases,
               ran : SUBSET (Code \cup {Torn}), module : (Code \X (Code \cup {Torn})) \cup {Absent}]
Idle == [pc |-> "idle", left |-> 0, ran |-> {}, module |-> Absent]

Init ==
    /\ RegistryInit
    /\ call = [k \in Call |-> Idle] /\ script = Absent /\ passed = {}

Testing == [Idle EXCEPT !.pc = "testing", !.left = Cases]
Goes(k, record) == call' = [call EXCEPT ![k] = record]
Free(k) == call[k].pc = "idle"

----------------------------------------------------------------------------
(* register, update, import, approve and unregister *)

\* With tests and run_evaluation the call goes on as an evaluation.
Register(k, code) ==
    /\ Free(k) /\ ~Known /\ Spends("registers")
    /\ \/ Registers(code, "trusted", TRUE) /\ Goes(k, Testing)
       \/ Registers(code, "trusted", FALSE) /\ UNCHANGED call
    /\ UNCHANGED <<script, passed>>

\* A package of our own is signed by our key; one of another installation is not trusted.  A skill
\* that is known is skipped or overwritten.  Tests in a package are not copied: without old ones
\* the evaluation that follows fails at once.
ImportSkill(k, code) ==
    /\ Free(k) /\ Spends("registers")
    /\ \E trust \in {"trusted", "untrusted"} :
          /\ trust = "trusted" => code \in signed
          /\ \/ Registers(code, trust, FALSE) /\ UNCHANGED call
             \/ /\ disk["tests"] = "tests"
                /\ Registers(code, trust, FALSE) /\ Goes(k, Testing)
             \/ /\ disk["tests"] = Absent
                /\ RegistersFailed(code, trust) /\ UNCHANGED call
    /\ UNCHANGED <<script, passed>>

----------------------------------------------------------------------------
(* SkillEvaluator.evaluate *)

EvaluateBegins(k) ==
    /\ Free(k) /\ HasManifest
    /\ IF disk["tests"] = "tests"
       THEN Goes(k, Testing) /\ UNCHANGED <<disk, index>>
       ELSE SetEvaluation("failed") /\ UNCHANGED call
    /\ UNCHANGED <<signed, vouched, unsure, budget, script, passed>>

\* Integrity and trust are skipped; a module is loaded again only for another checksum.
CaseRuns(k) ==
    LET sum == disk["manifest"].checksum
        module == IF call[k].module # Absent /\ call[k].module[1] = sum
                  THEN call[k].module ELSE <<sum, disk["code"]>>
    IN /\ call[k].pc = "testing" /\ call[k].left > 0
       /\ IF HasManifest /\ HasCode
          THEN Goes(k, [call[k] EXCEPT !.left = @ - 1, !.ran = @ \cup {module[2]},
                                       !.module = module])
          ELSE Goes(k, [call[k] EXCEPT !.left = @ - 1, !.ran = @ \cup {Torn}])
       /\ UNCHANGED <<registryVars, script, passed>>

\* Code that fails its tests never passes; code that does not may run into its timeout.
Verdicts(ran) == IF ran \subseteq Good THEN {"passed", "failed"} ELSE {"failed"}

\* The verdict goes to whatever the skill is by now.
EvaluateEnds(k) ==
    LET ran == call[k].ran
        current == {disk["code"]} \cup (IF Readable("manifest") THEN {disk["manifest"].checksum} ELSE {})
    IN /\ call[k].pc = "testing" /\ call[k].left = 0
       /\ \E verdict \in Verdicts(ran) :
             /\ IF Known THEN SetEvaluation(verdict) ELSE UNCHANGED <<disk, index>>
             /\ passed' = IF verdict = "passed" /\ Cardinality(ran) = 1 THEN passed \cup ran ELSE passed
       /\ unsure' = IF current = ran /\ Cardinality(ran) = 1 THEN unsure ELSE unsure \cup (current \cap Code)
       /\ Goes(k, Idle)
       /\ UNCHANGED <<signed, vouched, budget, script>>

----------------------------------------------------------------------------
(* SkillRunner.execute, in a subprocess *)

MayExecute == HasManifest /\ HasCode /\ ~Altered /\ Trusted /\ AgentAvailable

ExecuteBegins(k) ==
    /\ Free(k) /\ MayExecute
    /\ script' = disk["code"]
    /\ Goes(k, [Idle EXCEPT !.pc = "launching"])
    /\ UNCHANGED <<registryVars, passed>>

\* The process reads the script that is there by then.
ProcessStarts(k) ==
    /\ call[k].pc = "launching"
    /\ Goes(k, [Idle EXCEPT !.pc = "running", !.ran = {script}])
    /\ UNCHANGED <<registryVars, script, passed>>

\* The result, or its timeout and the kill; the timeout of the tool cancels a call anywhere.
CallEnds(k) ==
    /\ call[k].pc # "idle"
    /\ Goes(k, Idle)
    /\ UNCHANGED <<registryVars, script, passed>>

----------------------------------------------------------------------------
Crashes ==
    /\ \/ CrashInQuarantine \/ CrashInUnregister \/ CrashInSave
       \/ \E code \in Code, trust \in {"trusted", "untrusted"} : CrashInRegister(code, trust)
    /\ call' = [k \in Call |-> Idle]
    /\ UNCHANGED <<script, passed>>

Next ==
    \/ \E k \in Call : \/ \E code \in Code : Register(k, code) \/ ImportSkill(k, code)
                       \/ EvaluateBegins(k) \/ CaseRuns(k) \/ EvaluateEnds(k)
                       \/ ExecuteBegins(k) \/ ProcessStarts(k) \/ CallEnds(k)
    \/ /\ \/ ApproveTrust \/ Unregister \/ Verify
          \/ \E code \in Code : Update(code) \/ EditCode(code)
       /\ UNCHANGED toolVars
    \/ Crashes

Spec == Init /\ [][Next]_vars

----------------------------------------------------------------------------
(* Properties *)

TypeOK ==
    /\ RegistryTypeOK
    /\ call \in [Call -> CallRecord]
    /\ script \in Code \cup {Absent}
    /\ passed \subseteq Code

Executed == UNION {call[k].ran : k \in {j \in Call : call[j].pc = "running"}}

(* skill_runner.py:250 - what is executed was once registered as trusted, by the agent, after a     *)
(* review or from a package with our signature: never code that was altered by hand or half        *)
(* written, nor a foreign package, whichever of code, manifest and index a crash has left old.     *)
RunsVouchedCode == Executed \subseteq vouched

(* README.md:89 - code is executed only after it has passed its tests itself, but for code whose   *)
(* verdict an evaluation of other code has given (the skill was changed while its cases ran) or    *)
(* which a crash has left under the verdict on the code before it.                                *)
RunsEvaluatedCode == Executed \subseteq passed \cup unsure

(* README.md:89 as it stands. *)
EvaluatedBeforeRun == Executed \subseteq passed
=============================================================================
