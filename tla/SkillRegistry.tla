---------------------------- MODULE SkillRegistry ----------------------------
(***************************************************************************)
(* core/skill_registry.py and core/skill_signing.py, for one skill: the    *)
(* files of its folder, the index on disk and the index in memory.  Every  *)
(* operation runs without an await, but its files are written one after    *)
(* the other and none of them atomically: a crash leaves the first ones    *)
(* new, one perhaps torn, and the others old.                              *)
(***************************************************************************)
EXTENDS Naturals, Sequences

CONSTANTS
    Code,         \* contents of a code file; a checksum is the code it was computed of
    Absent, Torn, \* a file that is not there, and one that cannot be read
    MaxRegisters, \* bound: registrations, approvals and removals
    MaxEdits,     \* bound: changes of the code file by hand
    MaxCrashes    \* bound: crashes

ASSUME RegistryAssumption ==
    /\ {MaxRegisters, MaxEdits, MaxCrashes} \subseteq Nat
    /\ Absent \notin Code /\ Torn \notin Code /\ Absent # Torn

VARIABLES
    disk,    \* the files
    index,   \* the entry of the skill in _index
    signed,  \* codes a package exported from here may hold, under our own signature
    vouched, \* codes once registered as trusted (a history)
    unsure,  \* codes a verdict was given to that an evaluation of other code had, or a crash (a history)
    budget   \* what is left of the bounds

registryVars == <<disk, index, signed, vouched, unsure, budget>>

Trust == {"trusted", "untrusted", "quarantined"}
Evaluation == {"pending", "passed", "failed"}
Manifest == [checksum : Code, trust : Trust]
Entry == [trust : Trust, evaluation : Evaluation, available : BOOLEAN]
File == {"code", "manifest", "index", "tests"}

RegistryInit ==
    /\ disk = [f \in File |-> Absent] /\ index = Absent
    /\ signed = {} /\ vouched = {} /\ unsure = {}
    /\ budget = [registers |-> MaxRegisters, edits |-> MaxEdits, crashes |-> MaxCrashes]

Spends(what) == budget[what] > 0 /\ budget' = [budget EXCEPT ![what] = @ - 1]

----------------------------------------------------------------------------
(* Files, written in order *)

Written(files, new, n) ==
    [f \in File |-> IF \E i \in 1 .. n : files[i] = f THEN new[f] ELSE disk[f]]

\* What a crash leaves of the files.
Remains(files, new) ==
    {Written(files, new, n) : n \in 0 .. Len(files)}
    \cup {[Written(files, new, n) EXCEPT ![files[n + 1]] = Torn] : n \in 0 .. Len(files) - 1}

Readable(file) == disk[file] \notin {Absent, Torn}
Known == index # Absent

\* get() and get_code() need an entry; a manifest that cannot be read is no manifest.
HasManifest == Known /\ Readable("manifest")
HasCode == Known /\ disk["code"] # Absent

----------------------------------------------------------------------------
(* register(), by its callers *)

\* Mutant of Unevaluated: an update keeps the verdict on the previous code.
StillEvaluated(trust) ==
    IF Known THEN [index EXCEPT !.trust = trust]
             ELSE [trust |-> trust, evaluation |-> "pending", available |-> FALSE]

Unevaluated(trust) == [trust |-> trust, evaluation |-> "pending", available |-> FALSE]

RegisterFiles == <<"code", "manifest", "index">>
Registration(code, trust) ==
    [disk EXCEPT !["code"] = code, !["index"] = Unevaluated(trust),
                 !["manifest"] = [checksum |-> code, trust |-> trust]]

\* It is signed whoever made it; tests that come with it are written last, else old ones stay.
Registers(code, trust, tests) ==
    /\ disk' = [Registration(code, trust) EXCEPT !["tests"] = IF tests THEN "tests" ELSE @]
    /\ index' = Unevaluated(trust)
    /\ signed' = signed \cup {code}
    /\ vouched' = IF trust = "trusted" THEN vouched \cup {code} ELSE vouched
    /\ UNCHANGED unsure

\* An import whose evaluation finds too few tests.
RegistersFailed(code, trust) ==
    LET entry == [Unevaluated(trust) EXCEPT !.evaluation = "failed"]
    IN /\ disk' = [Registration(code, trust) EXCEPT !["index"] = entry]
       /\ index' = entry
       /\ signed' = signed \cup {code}
       /\ vouched' = IF trust = "trusted" THEN vouched \cup {code} ELSE vouched
       /\ UNCHANGED unsure

\* update and upgrade_dynamic overwrite and are trusted.
Update(code) == Spends("registers") /\ Registers(code, "trusted", FALSE)

\* register() compares the checksum of the manifest it is given: altered code cannot be approved.
Approvable == HasManifest /\ HasCode /\ disk["manifest"].checksum = disk["code"]

ApproveTrust ==
    /\ Approvable
    /\ Spends("registers") /\ Registers(disk["code"], "trusted", FALSE)

Unregister ==
    /\ Known
    /\ Spends("registers")
    /\ disk' = [f \in File |-> Absent] /\ index' = Absent
    /\ UNCHANGED <<signed, vouched, unsure>>

----------------------------------------------------------------------------
(* verify_integrity() and verify_trust(): code that is not what the manifest says is quarantined *)

\* Mutant of Altered: the checksum is not compared.
AlteredUnseen == disk["code"] = Torn

Altered == disk["code"] # disk["manifest"].checksum

\* Mutant of Quarantine: a status nothing knows.
QuarantineAs(f) == [f EXCEPT !.trust = "altered"]

Quarantine(f) == [f EXCEPT !.trust = "quarantined"]
QuarantineFiles == <<"index", "manifest">>
Quarantined == [disk EXCEPT !["index"] = Quarantine(index), !["manifest"] = Quarantine(@)]

Quarantines ==
    /\ disk' = Quarantined /\ index' = Quarantine(index)
    /\ UNCHANGED <<signed, vouched, unsure, budget>>

\* Also what execute() does with altered code.
Verify == HasManifest /\ HasCode /\ Altered /\ Quarantines

\* A signature is always valid: register() signs whatever it writes.
Trusted == disk["manifest"].trust = "trusted"

\* is_agent_available(): the index is asked, not the manifest.
AgentAvailable == index.evaluation = "passed" /\ index.trust = "trusted"

SetEvaluation(status) ==
    LET entry == [index EXCEPT !.evaluation = status,
                               !.available = status = "passed" /\ index.trust = "trusted"]
    IN /\ index' = entry /\ disk' = [disk EXCEPT !["index"] = entry]

----------------------------------------------------------------------------
(* What happens to the files from outside *)

EditCode(code) ==
    /\ disk["code"] \notin {Absent, code} /\ Spends("edits")
    /\ disk' = [disk EXCEPT !["code"] = code]
    /\ UNCHANGED <<index, signed, vouched, unsure>>

\* A crash leaves one of the disks, and the restart loads the index: one that is torn is empty.
Crash(disks) ==
    /\ Spends("crashes")
    /\ disk' \in disks
    /\ index' = IF disk'["index"] = Torn THEN Absent ELSE disk'["index"]

CrashInRegister(code, trust) ==
    /\ Crash(Remains(RegisterFiles, Registration(code, trust)))
    /\ signed' = signed \cup {code} /\ unsure' = unsure \cup {code}
    /\ vouched' = IF trust = "trusted" THEN vouched \cup {code} ELSE vouched

CrashInQuarantine ==
    /\ HasManifest /\ HasCode /\ Altered
    /\ Crash(Remains(QuarantineFiles, Quarantined))
    /\ UNCHANGED <<signed, vouched, unsure>>

\* rmtree removes the files in any order, before the index is saved.
CrashInUnregister ==
    /\ Known
    /\ Crash({[f \in File |-> IF f \in gone THEN Absent ELSE disk[f]] : gone \in SUBSET (File \ {"index"})})
    /\ UNCHANGED <<signed, vouched, unsure>>

\* While any operation saves the index.
CrashInSave ==
    /\ Known
    /\ Crash({disk, [disk EXCEPT !["index"] = Torn]})
    /\ UNCHANGED <<signed, vouched, unsure>>

----------------------------------------------------------------------------
RegistryTypeOK ==
    /\ disk["code"] \in Code \cup {Absent, Torn}
    /\ disk["manifest"] \in Manifest \cup {Absent, Torn}
    /\ disk["index"] \in Entry \cup {Absent, Torn}
    /\ disk["tests"] \in {"tests", Absent}
    /\ index \in Entry \cup {Absent}
    /\ signed \subseteq Code /\ vouched \subseteq Code /\ unsure \subseteq Code
=============================================================================
