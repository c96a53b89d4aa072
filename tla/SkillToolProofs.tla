--------------------------- MODULE SkillToolProofs ---------------------------
(***************************************************************************)
(* Theorems about SkillTool and SkillRegistry, for any sets of codes and   *)
(* calls, any number of test cases and any bounds.                         *)
(***************************************************************************)
EXTENDS SkillTool, TLAPS

\* Files of a folder: those of the disk, or those an operation is about to leave there.
FileTypes(d) ==
    /\ d = [f \in File |-> d[f]]
    /\ d["code"] \in Code \cup {Absent, Torn}
    /\ d["manifest"] \in Manifest \cup {Absent, Torn}
    /\ d["index"] \in Entry \cup {Absent, Torn}
    /\ d["tests"] \in {"tests", Absent}

Reads(d) == d["manifest"] \notin {Absent, Torn}

\* A manifest that says trusted names code that was registered as trusted, and one under an entry
\* that says passed names code that has passed, or that the entry may be mistaken about.
Vouches(d, codes) == Reads(d) /\ d["manifest"].trust = "trusted" => d["manifest"].checksum \in codes
Judges(d, entry, codes) ==
    Reads(d) /\ entry # Absent /\ entry.evaluation = "passed" => d["manifest"].checksum \in codes

RegistryInv ==
    /\ FileTypes(disk)
    /\ signed \subseteq Code /\ vouched \subseteq Code /\ unsure \subseteq Code
    /\ index \in Entry \cup {Absent}
    /\ Vouches(disk, vouched)
    /\ Judges(disk, index, passed \cup unsure)
    /\ disk["index"] # Torn => Judges(disk, disk["index"], passed \cup unsure)

Sound == vouched \cap (passed \cup unsure)
CallInv ==
    /\ call \in [Call -> CallRecord]
    /\ script \in Code \cup {Absent} /\ passed \subseteq Code
    /\ \A k \in Call : /\ call[k].pc = "launching" => script \in Sound
                       /\ call[k].pc = "running" => call[k].ran \subseteq Sound

ToolInv == RegistryInv /\ CallInv

LEMMA Files == File = {"code", "manifest", "index", "tests"}
BY DEF File

LEMMA ToolInit == Init => ToolInv
<1> SUFFICES ASSUME Init PROVE ToolInv
  OBVIOUS
<1>1. RegistryInv
  BY DEF Init, RegistryInit, RegistryInv, FileTypes, File, Vouches, Judges, Reads
<1>2. Idle \in CallRecord /\ Idle.pc = "idle"
  BY ToolAssumption DEF Idle, CallRecord
<1>3. CallInv
  BY <1>2 DEF Init, CallInv
<1> QED
  BY <1>1, <1>3 DEF ToolInv

----------------------------------------------------------------------------
(* The registry *)

LEMMA EntryTypes ==
    ASSUME NEW trust \in Trust
    PROVE  /\ Unevaluated(trust) \in Entry /\ Unevaluated(trust).evaluation = "pending"
           /\ [Unevaluated(trust) EXCEPT !.evaluation = "failed"] \in Entry
           /\ [Unevaluated(trust) EXCEPT !.evaluation = "failed"].evaluation = "failed"
BY DEF Unevaluated, Entry, Trust, Evaluation

\* What a step that changes the entry or the manifest must leave, when it forgets no history.
Remembers ==
    /\ vouched \subseteq vouched' /\ passed \subseteq passed' /\ unsure \subseteq unsure'
    /\ signed' \subseteq Code /\ vouched' \subseteq Code /\ unsure' \subseteq Code

LEMMA Registered ==
    ASSUME RegistryInv, NEW code \in Code, NEW trust \in Trust, NEW entry \in Entry,
           entry.evaluation # "passed",
           disk' = [f \in File |-> disk'[f]], disk'["tests"] \in {"tests", Absent},
           disk'["code"] = code, disk'["manifest"] = [checksum |-> code, trust |-> trust],
           disk'["index"] = entry, index' = entry,
           signed' = signed \cup {code}, UNCHANGED <<unsure, passed>>,
           vouched' = IF trust = "trusted" THEN vouched \cup {code} ELSE vouched
    PROVE  RegistryInv' /\ Remembers
<1>1. [checksum |-> code, trust |-> trust] \in Manifest
  BY DEF Manifest
<1>2. FileTypes(disk')
  BY <1>1 DEF FileTypes
<1>3. Vouches(disk', vouched')
  BY DEF Vouches, RegistryInv
<1>4. Judges(disk', entry, passed' \cup unsure')
  BY DEF Judges
<1>5. Remembers
  BY DEF RegistryInv, Remembers
<1> QED
  BY <1>2, <1>3, <1>4, <1>5 DEF RegistryInv, Remembers

LEMMA RegistersStep ==
    ASSUME RegistryInv, NEW code \in Code, NEW trust \in Trust, NEW tests \in BOOLEAN,
           Registers(code, trust, tests), UNCHANGED passed
    PROVE  RegistryInv' /\ Remembers
<1> DEFINE entry == Unevaluated(trust)
<1>1. entry \in Entry /\ entry.evaluation # "passed"
  BY EntryTypes
<1> HIDE DEF entry
<1>2. disk' = [[disk EXCEPT !["code"] = code, !["index"] = entry,
                            !["manifest"] = [checksum |-> code, trust |-> trust]]
               EXCEPT !["tests"] = IF tests THEN "tests" ELSE @]
  BY DEF Registers, Registration, entry
<1>3. /\ disk' = [f \in File |-> disk'[f]] /\ disk'["tests"] \in {"tests", Absent}
      /\ disk'["code"] = code /\ disk'["manifest"] = [checksum |-> code, trust |-> trust]
      /\ disk'["index"] = entry
  BY <1>2, Files DEF RegistryInv, FileTypes
<1>4. index' = entry /\ signed' = signed \cup {code} /\ UNCHANGED unsure
      /\ vouched' = IF trust = "trusted" THEN vouched \cup {code} ELSE vouched
  BY DEF Registers, entry
<1> QED
  BY <1>1, <1>3, <1>4, Registered

LEMMA RegistersFailedStep ==
    ASSUME RegistryInv, NEW code \in Code, NEW trust \in Trust,
           RegistersFailed(code, trust), UNCHANGED passed
    PROVE  RegistryInv' /\ Remembers
<1> DEFINE entry == [Unevaluated(trust) EXCEPT !.evaluation = "failed"]
<1>1. entry \in Entry /\ entry.evaluation # "passed"
  BY EntryTypes
<1> HIDE DEF entry
<1>2. disk' = [[disk EXCEPT !["code"] = code, !["index"] = Unevaluated(trust),
                            !["manifest"] = [checksum |-> code, trust |-> trust]]
               EXCEPT !["index"] = entry]
  BY DEF RegistersFailed, Registration, entry
<1>3. /\ disk' = [f \in File |-> disk'[f]] /\ disk'["tests"] \in {"tests", Absent}
      /\ disk'["code"] = code /\ disk'["manifest"] = [checksum |-> code, trust |-> trust]
      /\ disk'["index"] = entry
  BY <1>2, Files DEF RegistryInv, FileTypes
<1>4. index' = entry /\ signed' = signed \cup {code} /\ UNCHANGED unsure
      /\ vouched' = IF trust = "trusted" THEN vouched \cup {code} ELSE vouched
  BY DEF RegistersFailed, entry
<1> QED
  BY <1>1, <1>3, <1>4, Registered

LEMMA UpdateStep ==
    ASSUME RegistryInv, NEW code \in Code, Update(code), UNCHANGED passed
    PROVE  RegistryInv' /\ Remembers
BY RegistersStep DEF Update, Trust

LEMMA ApproveStep ==
    ASSUME RegistryInv, ApproveTrust, UNCHANGED passed
    PROVE  RegistryInv' /\ Remembers
<1>1. disk["code"] \in Code
  BY DEF ApproveTrust, Approvable, HasManifest, Readable, RegistryInv, FileTypes, Manifest
<1> QED
  BY <1>1, RegistersStep DEF ApproveTrust, Trust

LEMMA UnregisterStep ==
    ASSUME RegistryInv, Unregister, UNCHANGED passed
    PROVE  RegistryInv' /\ Remembers
<1>1. disk' = [f \in File |-> Absent] /\ index' = Absent /\ UNCHANGED <<signed, vouched, unsure>>
  BY DEF Unregister
<1>2. FileTypes(disk')
  BY <1>1, Files DEF FileTypes
<1>3. ~Reads(disk')
  BY <1>1, Files DEF Reads
<1> QED
  BY <1>1, <1>2, <1>3 DEF RegistryInv, Remembers, Vouches, Judges

LEMMA QuarantineTypes ==
    /\ \A e \in Entry : Quarantine(e) \in Entry /\ Quarantine(e).evaluation = e.evaluation
    /\ \A m \in Manifest : /\ Quarantine(m) \in Manifest /\ Quarantine(m).trust = "quarantined"
                           /\ Quarantine(m).checksum = m.checksum
BY DEF Quarantine, Entry, Manifest, Trust

\* The files and the entry of a quarantine.
LEMMA QuarantinedFiles ==
    ASSUME RegistryInv, HasManifest
    PROVE  /\ index \in Entry /\ disk["manifest"] \in Manifest /\ FileTypes(Quarantined)
           /\ Quarantined["index"] = Quarantine(index)
           /\ Quarantined["manifest"] = Quarantine(disk["manifest"])
           /\ \A f \in File \ {"index", "manifest"} : Quarantined[f] = disk[f]
<1>1. index \in Entry /\ disk["manifest"] \in Manifest
  BY DEF HasManifest, Known, Readable, RegistryInv, FileTypes
<1>2. Quarantine(index) \in Entry /\ Quarantine(disk["manifest"]) \in Manifest
  BY <1>1, QuarantineTypes
<1>3. Quarantined = [disk EXCEPT !["index"] = Quarantine(index),
                                 !["manifest"] = Quarantine(disk["manifest"])]
  BY Files DEF Quarantined, RegistryInv, FileTypes
<1>4. /\ Quarantined = [f \in File |-> Quarantined[f]]
      /\ Quarantined["index"] = Quarantine(index)
      /\ Quarantined["manifest"] = Quarantine(disk["manifest"])
      /\ \A f \in File \ {"index", "manifest"} : Quarantined[f] = disk[f]
  BY <1>3, Files DEF RegistryInv, FileTypes
<1>5. FileTypes(Quarantined)
  BY <1>2, <1>4, Files DEF RegistryInv, FileTypes
<1> QED
  BY <1>1, <1>4, <1>5

LEMMA VerifyStep ==
    ASSUME RegistryInv, Verify, UNCHANGED passed
    PROVE  RegistryInv' /\ Remembers
<1>1. HasManifest /\ disk' = Quarantined /\ index' = Quarantine(index)
      /\ UNCHANGED <<signed, vouched, unsure>>
  BY DEF Verify, Quarantines
<1>2. /\ index \in Entry /\ disk["manifest"] \in Manifest /\ FileTypes(disk')
      /\ disk'["index"] = index' /\ disk'["manifest"] = Quarantine(disk["manifest"])
  BY <1>1, QuarantinedFiles
<1>3. index' \in Entry /\ index'.evaluation = index.evaluation
      /\ disk'["manifest"].trust = "quarantined"
      /\ disk'["manifest"].checksum = disk["manifest"].checksum
  BY <1>1, <1>2, QuarantineTypes
<1>4. Vouches(disk', vouched')
  BY <1>3 DEF Vouches
<1>5. Judges(disk', index', passed' \cup unsure')
  BY <1>1, <1>3 DEF RegistryInv, Judges, HasManifest, Known, Readable, Reads
<1> QED
  BY <1>1, <1>2, <1>3, <1>4, <1>5 DEF RegistryInv, Remembers

LEMMA EditStep ==
    ASSUME RegistryInv, NEW code \in Code, EditCode(code), UNCHANGED passed
    PROVE  RegistryInv' /\ Remembers
<1>1. /\ disk' = [disk EXCEPT !["code"] = code]
      /\ UNCHANGED <<index, signed, vouched, unsure>>
  BY DEF EditCode
<1>2. FileTypes(disk') /\ \A f \in File \ {"code"} : disk'[f] = disk[f]
  BY <1>1, Files DEF RegistryInv, FileTypes
<1>3. disk'["manifest"] = disk["manifest"] /\ disk'["index"] = disk["index"]
  BY <1>2, Files
<1> QED
  BY <1>1, <1>2, <1>3 DEF RegistryInv, Remembers, Vouches, Judges, Reads

----------------------------------------------------------------------------
(* Crashes *)

\* Whatever a crash leaves, each file is the old one, the new one or torn, and the files that the
\* operation does not write are the old ones.
LEMMA RemainsEach ==
    ASSUME NEW files \in Seq(File), NEW new, NEW d \in Remains(files, new)
    PROVE  /\ d = [f \in File |-> d[f]]
           /\ \A f \in File : d[f] \in {disk[f], new[f], Torn}
           /\ \A f \in File : (\A i \in 1 .. Len(files) : files[i] # f) => d[f] = disk[f]
<1>1. ASSUME NEW n \in 0 .. Len(files)
      PROVE  LET w == Written(files, new, n)
             IN  /\ w = [f \in File |-> w[f]]
                 /\ \A f \in File : w[f] \in {disk[f], new[f]}
                 /\ \A f \in File : (\A i \in 1 .. Len(files) : files[i] # f) => w[f] = disk[f]
  <2>1. 1 .. n \subseteq 1 .. Len(files)
    OBVIOUS
  <2> QED
    BY <2>1 DEF Written
<1>2. CASE \E n \in 0 .. Len(files) : d = Written(files, new, n)
  BY <1>1, <1>2
<1>3. CASE \E n \in 0 .. Len(files) - 1 : d = [Written(files, new, n) EXCEPT ![files[n + 1]] = Torn]
  <2>1. PICK n \in 0 .. Len(files) - 1 :
            d = [Written(files, new, n) EXCEPT ![files[n + 1]] = Torn]
    BY <1>3
  <2> DEFINE w == Written(files, new, n)
             g == files[n + 1]
  <2>2. n \in 0 .. Len(files) /\ n + 1 \in 1 .. Len(files)
    OBVIOUS
  <2>3. g \in File
    BY <2>2
  <2>4. w = [f \in File |-> w[f]] /\ (\A f \in File : w[f] \in {disk[f], new[f]})
        /\ \A f \in File : (\A i \in 1 .. Len(files) : files[i] # f) => w[f] = disk[f]
    BY <1>1, <2>2
  <2> HIDE DEF w
  <2>5. d = [w EXCEPT ![g] = Torn]
    BY <2>1 DEF w
  <2>6. d[g] = Torn /\ (\A f \in File \ {g} : d[f] = w[f]) /\ d = [f \in File |-> d[f]]
    BY <2>3, <2>4, <2>5
  <2>7. \A f \in File : (\A i \in 1 .. Len(files) : files[i] # f) => f # g
    BY <2>2
  <2> QED
    BY <2>4, <2>6, <2>7
<1> QED
  BY <1>2, <1>3 DEF Remains

\* After a restart the invariant holds if the manifest left is one that the entry left goes with.
LEMMA Restarted ==
    ASSUME RegistryInv, Remembers, FileTypes(disk'),
           index' = IF disk'["index"] = Torn THEN Absent ELSE disk'["index"],
           Vouches(disk', vouched'),
           disk'["index"] # Torn => Judges(disk', disk'["index"], passed' \cup unsure')
    PROVE  RegistryInv'
<1>1. index' \in Entry \cup {Absent}
  BY DEF FileTypes
<1>2. Judges(disk', index', passed' \cup unsure')
  BY DEF Judges
<1> QED
  BY <1>1, <1>2 DEF RegistryInv, Remembers

LEMMA CrashInRegisterStep ==
    ASSUME RegistryInv, NEW code \in Code, NEW trust \in Trust,
           CrashInRegister(code, trust), UNCHANGED passed
    PROVE  RegistryInv' /\ Remembers
<1> DEFINE new == Registration(code, trust)
           manifest == [checksum |-> code, trust |-> trust]
<1>1. /\ disk' \in Remains(RegisterFiles, new)
      /\ index' = IF disk'["index"] = Torn THEN Absent ELSE disk'["index"]
      /\ unsure' = unsure \cup {code}
      /\ vouched' = IF trust = "trusted" THEN vouched \cup {code} ELSE vouched
      /\ signed' = signed \cup {code}
  BY DEF CrashInRegister, Crash
<1>2. Remembers
  BY <1>1 DEF RegistryInv, Remembers
<1>3. /\ Unevaluated(trust) \in Entry /\ Unevaluated(trust).evaluation = "pending"
      /\ manifest \in Manifest
  BY EntryTypes DEF Manifest
<1>4. new["code"] = code /\ new["manifest"] = manifest /\ new["index"] = Unevaluated(trust)
  BY Files DEF Registration, RegistryInv, FileTypes
<1>5. RegisterFiles \in Seq(File) /\ \A i \in 1 .. Len(RegisterFiles) : RegisterFiles[i] # "tests"
  BY Files DEF RegisterFiles
<1> HIDE DEF new, manifest
<1>6. /\ disk' = [f \in File |-> disk'[f]]
      /\ \A f \in File : disk'[f] \in {disk[f], new[f], Torn}
      /\ disk'["tests"] = disk["tests"]
  BY <1>1, <1>5, RemainsEach, Files
<1>7. /\ disk'["code"] \in {disk["code"], code, Torn}
      /\ disk'["manifest"] \in {disk["manifest"], manifest, Torn}
      /\ disk'["index"] \in {disk["index"], Unevaluated(trust), Torn}
  BY <1>4, <1>6, Files
<1>8. FileTypes(disk')
  BY <1>3, <1>6, <1>7 DEF FileTypes, RegistryInv
<1>9. Vouches(disk', vouched')
  BY <1>1, <1>7 DEF Vouches, Reads, RegistryInv, manifest
<1>10. disk'["index"] # Torn => Judges(disk', disk'["index"], passed' \cup unsure')
  BY <1>1, <1>3, <1>7 DEF Judges, Reads, RegistryInv, manifest
<1> QED
  BY <1>1, <1>2, <1>8, <1>9, <1>10, Restarted

LEMMA CrashInQuarantineStep ==
    ASSUME RegistryInv, CrashInQuarantine, UNCHANGED passed
    PROVE  RegistryInv' /\ Remembers
<1>1. /\ disk' \in Remains(QuarantineFiles, Quarantined) /\ HasManifest
      /\ index' = IF disk'["index"] = Torn THEN Absent ELSE disk'["index"]
      /\ UNCHANGED <<signed, vouched, unsure>>
  BY DEF CrashInQuarantine, Crash
<1>2. Remembers
  BY <1>1 DEF RegistryInv, Remembers
<1>3. /\ index \in Entry /\ disk["manifest"] \in Manifest /\ FileTypes(Quarantined)
      /\ Quarantined["index"] = Quarantine(index)
      /\ Quarantined["manifest"] = Quarantine(disk["manifest"])
      /\ \A f \in File \ {"index", "manifest"} : Quarantined[f] = disk[f]
  BY <1>1, QuarantinedFiles
<1>4. QuarantineFiles \in Seq(File)
      /\ \A i \in 1 .. Len(QuarantineFiles) : QuarantineFiles[i] \notin {"tests", "code"}
  BY Files DEF QuarantineFiles
<1>5. /\ disk' = [f \in File |-> disk'[f]]
      /\ \A f \in File : disk'[f] \in {disk[f], Quarantined[f], Torn}
      /\ disk'["tests"] = disk["tests"] /\ disk'["code"] = disk["code"]
  BY <1>1, <1>4, RemainsEach, Files
<1>6. /\ disk'["manifest"] \in {disk["manifest"], Quarantine(disk["manifest"]), Torn}
      /\ disk'["index"] \in {disk["index"], Quarantine(index), Torn}
  BY <1>3, <1>5, Files
<1>7. /\ Quarantine(index) \in Entry /\ Quarantine(index).evaluation = index.evaluation
      /\ Quarantine(disk["manifest"]) \in Manifest
      /\ Quarantine(disk["manifest"]).trust = "quarantined"
      /\ Quarantine(disk["manifest"]).checksum = disk["manifest"].checksum
  BY <1>3, QuarantineTypes
<1>8. FileTypes(disk')
  BY <1>5, <1>6, <1>7 DEF FileTypes, RegistryInv
<1>9. Vouches(disk', vouched')
  BY <1>1, <1>6, <1>7 DEF Vouches, Reads, RegistryInv
<1>10. disk'["index"] # Torn => Judges(disk', disk'["index"], passed' \cup unsure')
  BY <1>1, <1>6, <1>7 DEF Judges, Reads, RegistryInv, HasManifest, Known, Readable
<1> QED
  BY <1>1, <1>2, <1>8, <1>9, <1>10, Restarted

LEMMA CrashInUnregisterStep ==
    ASSUME RegistryInv, CrashInUnregister, UNCHANGED passed
    PROVE  RegistryInv' /\ Remembers
<1>1. PICK gone \in SUBSET (File \ {"index"}) :
          disk' = [f \in File |-> IF f \in gone THEN Absent ELSE disk[f]]
  BY DEF CrashInUnregister, Crash
<1>2. /\ index' = IF disk'["index"] = Torn THEN Absent ELSE disk'["index"]
      /\ UNCHANGED <<signed, vouched, unsure>>
  BY DEF CrashInUnregister, Crash
<1>3. Remembers
  BY <1>2 DEF RegistryInv, Remembers
<1>4. /\ disk' = [f \in File |-> disk'[f]] /\ disk'["index"] = disk["index"]
      /\ \A f \in File : disk'[f] \in {disk[f], Absent}
  BY <1>1, Files
<1>5. /\ disk'["code"] \in {disk["code"], Absent} /\ disk'["manifest"] \in {disk["manifest"], Absent}
      /\ disk'["tests"] \in {disk["tests"], Absent}
  BY <1>4, Files
<1>6. FileTypes(disk')
  BY <1>4, <1>5 DEF FileTypes, RegistryInv
<1>7. Vouches(disk', vouched')
  BY <1>2, <1>5 DEF Vouches, Reads, RegistryInv
<1>8. disk'["index"] # Torn => Judges(disk', disk'["index"], passed' \cup unsure')
  BY <1>2, <1>4, <1>5 DEF Judges, Reads, RegistryInv
<1> QED
  BY <1>2, <1>3, <1>6, <1>7, <1>8, Restarted

LEMMA CrashInSaveStep ==
    ASSUME RegistryInv, CrashInSave, UNCHANGED passed
    PROVE  RegistryInv' /\ Remembers
<1>1. /\ disk' \in {disk, [disk EXCEPT !["index"] = Torn]}
      /\ index' = IF disk'["index"] = Torn THEN Absent ELSE disk'["index"]
      /\ UNCHANGED <<signed, vouched, unsure>>
  BY DEF CrashInSave, Crash
<1>2. Remembers
  BY <1>1 DEF RegistryInv, Remembers
<1>3. /\ disk' = [f \in File |-> disk'[f]] /\ disk'["index"] \in {disk["index"], Torn}
      /\ disk'["code"] = disk["code"] /\ disk'["manifest"] = disk["manifest"]
      /\ disk'["tests"] = disk["tests"]
  BY <1>1, Files DEF RegistryInv, FileTypes
<1>4. FileTypes(disk')
  BY <1>3 DEF FileTypes, RegistryInv
<1>5. Vouches(disk', vouched')
  BY <1>1, <1>3 DEF Vouches, Reads, RegistryInv
<1>6. disk'["index"] # Torn => Judges(disk', disk'["index"], passed' \cup unsure')
  BY <1>1, <1>3 DEF Judges, Reads, RegistryInv
<1> QED
  BY <1>1, <1>2, <1>4, <1>5, <1>6, Restarted

----------------------------------------------------------------------------
(* The calls *)

Starts(k) == call'[k].pc \in {"launching", "running"}

\* A step that writes no script and starts no execution.
LEMMA CallFrame ==
    ASSUME CallInv, Remembers, passed' \subseteq Code, UNCHANGED script,
           call' \in [Call -> CallRecord], \A k \in Call : Starts(k) => call'[k] = call[k]
    PROVE  CallInv'
<1>1. Sound \subseteq Sound'
  BY DEF Remembers, Sound
<1>2. \A k \in Call : Starts(k) => call'[k] = call[k] /\ call[k].pc \in {"launching", "running"}
  BY DEF Starts
<1> QED
  BY <1>1, <1>2 DEF CallInv, Starts

LEMMA IdleType ==
    /\ Idle \in CallRecord /\ Idle.pc = "idle"
    /\ Testing \in CallRecord /\ Testing.pc = "testing"
<1>1. Cases \in 0 .. Cases /\ 0 \in 0 .. Cases
  BY ToolAssumption
<1>2. Idle \in CallRecord /\ Idle.pc = "idle"
  BY <1>1 DEF Idle, CallRecord
<1>3. Testing \in CallRecord /\ Testing.pc = "testing"
  BY <1>1 DEF Testing, Idle, CallRecord
<1> QED
  BY <1>2, <1>3

\* A call that goes on, and a call that is not touched.
LEMMA GoesOn ==
    ASSUME CallInv, NEW k \in Call, NEW record \in CallRecord,
           Goes(k, record) \/ UNCHANGED call,
           record.pc \notin {"launching", "running"}
    PROVE  call' \in [Call -> CallRecord] /\ \A j \in Call : Starts(j) => call'[j] = call[j]
BY DEF CallInv, Goes, Starts

\* Steps of the registry, whatever they make of one call.
LEMMA RegistryFrame ==
    ASSUME ToolInv, RegistryInv', Remembers, UNCHANGED <<script, passed>>, NEW k \in Call,
           Goes(k, Testing) \/ Goes(k, Idle) \/ UNCHANGED call
    PROVE  ToolInv'
BY IdleType, GoesOn, CallFrame DEF ToolInv, CallInv

LEMMA RegisterStep ==
    ASSUME ToolInv, NEW k \in Call, NEW code \in Code, Register(k, code) \/ ImportSkill(k, code)
    PROVE  ToolInv'
<1> DEFINE Moved == Goes(k, Testing) \/ Goes(k, Idle) \/ UNCHANGED call
<1>1. UNCHANGED <<script, passed>> /\ Moved
  BY DEF Register, ImportSkill
<1>2. \/ \E trust \in Trust, tests \in BOOLEAN : Registers(code, trust, tests)
      \/ \E trust \in Trust : RegistersFailed(code, trust)
  BY DEF Register, ImportSkill, Trust
<1>3. RegistryInv' /\ Remembers
  BY <1>1, <1>2, RegistersStep, RegistersFailedStep DEF ToolInv
<1> QED
  BY <1>1, <1>3, RegistryFrame

\* The registry after an evaluation has set its verdict, or has found no entry to set it in.
LEMMA VerdictStep ==
    ASSUME RegistryInv, NEW verdict \in {"passed", "failed"}, Known,
           SetEvaluation(verdict), Remembers, UNCHANGED <<signed, vouched>>,
           verdict = "passed" /\ Reads(disk) => disk["manifest"].checksum \in passed' \cup unsure'
    PROVE  RegistryInv'
<1> DEFINE entry == [index EXCEPT !.evaluation = verdict,
                                  !.available = verdict = "passed" /\ index.trust = "trusted"]
<1>1. index \in Entry
  BY DEF Known, RegistryInv
<1>2. entry \in Entry /\ entry.evaluation = verdict
  <2> DEFINE b == verdict = "passed" /\ index.trust = "trusted"
  <2>1. b \in BOOLEAN
    OBVIOUS
  <2> HIDE DEF b
  <2>2. [[index EXCEPT !.evaluation = verdict] EXCEPT !.available = b] \in Entry
        /\ [[index EXCEPT !.evaluation = verdict] EXCEPT !.available = b].evaluation = verdict
    BY <1>1, <2>1 DEF Entry, Evaluation
  <2> QED
    BY <2>2 DEF b
<1> HIDE DEF entry
<1>3. index' = entry /\ disk' = [disk EXCEPT !["index"] = entry]
  BY DEF SetEvaluation, entry
<1>4. FileTypes(disk') /\ disk'["index"] = entry /\ disk'["manifest"] = disk["manifest"]
  BY <1>2, <1>3, Files DEF RegistryInv, FileTypes
<1>5. Judges(disk', entry, passed' \cup unsure') /\ Vouches(disk', vouched')
  BY <1>2, <1>4 DEF Judges, Vouches, Reads, RegistryInv
<1> QED
  BY <1>2, <1>3, <1>4, <1>5 DEF RegistryInv, Remembers

LEMMA EvaluateBeginsStep == ASSUME ToolInv, NEW k \in Call, EvaluateBegins(k) PROVE ToolInv'
<1>1. UNCHANGED <<signed, vouched, unsure, script, passed>> /\ Remembers /\ Known
  BY DEF EvaluateBegins, HasManifest, ToolInv, RegistryInv, Remembers
<1>2. CASE disk["tests"] = "tests"
  <2>1. Goes(k, Testing) /\ UNCHANGED <<disk, index>>
    BY <1>2 DEF EvaluateBegins
  <2>2. RegistryInv'
    BY <1>1, <2>1 DEF ToolInv, RegistryInv
  <2> QED
    BY <1>1, <2>1, <2>2, RegistryFrame
<1>3. CASE disk["tests"] # "tests"
  <2>1. SetEvaluation("failed") /\ UNCHANGED call
    BY <1>3 DEF EvaluateBegins
  <2>2. RegistryInv'
    BY <1>1, <2>1, VerdictStep DEF ToolInv
  <2> QED
    BY <1>1, <2>1, <2>2, RegistryFrame
<1> QED
  BY <1>2, <1>3

LEMMA CaseRunsStep == ASSUME ToolInv, NEW k \in Call, CaseRuns(k) PROVE ToolInv'
<1> DEFINE sum == disk["manifest"].checksum
           module == IF call[k].module # Absent /\ call[k].module[1] = sum
                     THEN call[k].module ELSE <<sum, disk["code"]>>
           went == [call[k] EXCEPT !.left = @ - 1, !.ran = @ \cup {module[2]}, !.module = module]
           failed == [call[k] EXCEPT !.left = @ - 1, !.ran = @ \cup {Torn}]
<1>1. UNCHANGED registryVars /\ UNCHANGED <<script, passed>> /\ call[k].pc = "testing"
      /\ call[k].left > 0
  BY DEF CaseRuns
<1>2. RegistryInv' /\ Remembers
  BY <1>1 DEF ToolInv, RegistryInv, Remembers, registryVars
<1>3. call[k] \in CallRecord /\ call[k].left - 1 \in 0 .. Cases
  <2> DEFINE n == call[k].left
  <2>1. call[k] \in CallRecord
    BY DEF ToolInv, CallInv
  <2>2. n \in 0 .. Cases /\ n > 0
    BY <1>1, <2>1 DEF CallRecord
  <2> HIDE DEF n
  <2>3. n - 1 \in 0 .. Cases
    BY <2>2, ToolAssumption
  <2> QED
    BY <2>1, <2>3 DEF n
<1>4. CASE HasManifest /\ HasCode
  <2>1. module \in Code \X (Code \cup {Torn})
    <3>1. <<sum, disk["code"]>> \in Code \X (Code \cup {Torn})
      BY <1>4 DEF HasManifest, HasCode, Readable, ToolInv, RegistryInv, FileTypes, Manifest
    <3>2. call[k].module # Absent => call[k].module \in Code \X (Code \cup {Torn})
      BY <1>3 DEF CallRecord
    <3> QED
      BY <3>1, <3>2
  <2>2. Goes(k, went)
    BY <1>4 DEF CaseRuns
  <2> HIDE DEF module
  <2>3. went \in CallRecord /\ went.pc = "testing"
    BY <1>1, <1>3, <2>1 DEF CallRecord
  <2> HIDE DEF went
  <2>4. call' \in [Call -> CallRecord] /\ \A j \in Call : Starts(j) => call'[j] = call[j]
    BY <2>2, <2>3, GoesOn DEF ToolInv
  <2> QED
    BY <1>1, <1>2, <2>4, CallFrame DEF ToolInv, CallInv
<1>5. CASE ~(HasManifest /\ HasCode)
  <2>1. Goes(k, failed)
    BY <1>5 DEF CaseRuns
  <2>2. failed \in CallRecord /\ failed.pc = "testing"
    BY <1>1, <1>3 DEF CallRecord
  <2> HIDE DEF failed
  <2>3. call' \in [Call -> CallRecord] /\ \A j \in Call : Starts(j) => call'[j] = call[j]
    BY <2>1, <2>2, GoesOn DEF ToolInv
  <2> QED
    BY <1>1, <1>2, <2>3, CallFrame DEF ToolInv, CallInv
<1> QED
  BY <1>4, <1>5

\* The code a verdict goes to is the one code that ran, or it is one the verdict may be wrong of.
LEMMA EvaluateEndsStep == ASSUME ToolInv, NEW k \in Call, EvaluateEnds(k) PROVE ToolInv'
<1> DEFINE ran == call[k].ran
           current == {disk["code"]}
                      \cup (IF Readable("manifest") THEN {disk["manifest"].checksum} ELSE {})
<1>1. PICK verdict \in Verdicts(ran) :
          /\ IF Known THEN SetEvaluation(verdict) ELSE UNCHANGED <<disk, index>>
          /\ passed' = IF verdict = "passed" /\ Cardinality(ran) = 1 THEN passed \cup ran ELSE passed
  BY DEF EvaluateEnds
<1>2. /\ unsure' = IF current = ran /\ Cardinality(ran) = 1
                   THEN unsure ELSE unsure \cup (current \cap Code)
      /\ Goes(k, Idle) /\ UNCHANGED <<signed, vouched, script>>
  BY DEF EvaluateEnds
<1>3. verdict \in {"passed", "failed"} /\ (verdict = "passed" => ran \subseteq Code)
  BY ToolAssumption DEF Verdicts
<1>4. passed' \subseteq Code /\ Remembers
  BY <1>1, <1>2, <1>3 DEF ToolInv, RegistryInv, CallInv, Remembers
<1>5. Reads(disk) => disk["manifest"].checksum \in current \cap Code
  BY DEF Reads, Readable, ToolInv, RegistryInv, FileTypes, Manifest
<1> HIDE DEF current
<1>6. verdict = "passed" /\ Reads(disk) => disk["manifest"].checksum \in passed' \cup unsure'
  BY <1>1, <1>2, <1>5
<1>7. RegistryInv'
  <2>1. CASE Known
    BY <1>1, <1>2, <1>3, <1>4, <1>6, <2>1, VerdictStep DEF ToolInv
  <2>2. CASE ~Known
    <3>1. UNCHANGED <<disk, index>>
      BY <1>1, <2>2
    <3> QED
      BY <1>2, <1>4, <3>1 DEF ToolInv, RegistryInv, Remembers, Vouches, Judges, Reads
  <2> QED
    BY <2>1, <2>2
<1>8. call' \in [Call -> CallRecord] /\ \A j \in Call : Starts(j) => call'[j] = call[j]
  BY <1>2, IdleType, GoesOn DEF ToolInv
<1> QED
  BY <1>2, <1>4, <1>7, <1>8, CallFrame DEF ToolInv

\* What may be executed is what the manifest vouches for and the entry has passed.
LEMMA ExecutableSound == ASSUME RegistryInv, MayExecute PROVE disk["code"] \in Sound \cap Code
<1>1. Reads(disk) /\ disk["manifest"].trust = "trusted" /\ index # Absent
      /\ index.evaluation = "passed" /\ disk["code"] = disk["manifest"].checksum
  BY DEF MayExecute, HasManifest, Known, Readable, Altered, Trusted, AgentAvailable, Reads
<1>2. disk["code"] \in vouched /\ disk["code"] \in passed \cup unsure
  BY <1>1 DEF RegistryInv, Vouches, Judges
<1> QED
  BY <1>2 DEF Sound, RegistryInv

LEMMA ExecuteBeginsStep == ASSUME ToolInv, NEW k \in Call, ExecuteBegins(k) PROVE ToolInv'
<1> DEFINE record == [Idle EXCEPT !.pc = "launching"]
<1>1. /\ script' = disk["code"] /\ Goes(k, record)
      /\ UNCHANGED registryVars /\ UNCHANGED passed /\ MayExecute
  BY DEF ExecuteBegins
<1>2. RegistryInv' /\ Sound' = Sound
  BY <1>1 DEF ToolInv, RegistryInv, registryVars, Sound
<1>3. script' \in Sound \cap Code
  BY <1>1, ExecutableSound DEF ToolInv
<1>4. record \in CallRecord /\ record.pc = "launching"
  BY IdleType DEF CallRecord
<1> HIDE DEF record
<1>5. /\ call' \in [Call -> CallRecord] /\ call'[k] = record
      /\ \A j \in Call \ {k} : call'[j] = call[j]
  BY <1>1, <1>4 DEF ToolInv, CallInv, Goes
<1>6. CallInv'
  BY <1>1, <1>2, <1>3, <1>4, <1>5 DEF ToolInv, CallInv
<1> QED
  BY <1>2, <1>6 DEF ToolInv

LEMMA ProcessStartsStep == ASSUME ToolInv, NEW k \in Call, ProcessStarts(k) PROVE ToolInv'
<1> DEFINE record == [Idle EXCEPT !.pc = "running", !.ran = {script}]
<1>1. /\ call[k].pc = "launching" /\ Goes(k, record)
      /\ UNCHANGED registryVars /\ UNCHANGED <<script, passed>>
  BY DEF ProcessStarts
<1>2. RegistryInv' /\ Sound' = Sound
  BY <1>1 DEF ToolInv, RegistryInv, registryVars, Sound
<1>3. script \in Sound /\ script \in Code
  BY <1>1 DEF ToolInv, RegistryInv, CallInv, Sound
<1>4. record \in CallRecord /\ record.pc = "running" /\ record.ran = {script}
  BY <1>3, IdleType DEF CallRecord
<1> HIDE DEF record
<1>5. /\ call' \in [Call -> CallRecord] /\ call'[k] = record
      /\ \A j \in Call \ {k} : call'[j] = call[j]
  BY <1>1, <1>4 DEF ToolInv, CallInv, Goes
<1>6. CallInv'
  BY <1>1, <1>2, <1>3, <1>4, <1>5 DEF ToolInv, CallInv
<1> QED
  BY <1>2, <1>6 DEF ToolInv

LEMMA CallEndsStep == ASSUME ToolInv, NEW k \in Call, CallEnds(k) PROVE ToolInv'
<1>1. Goes(k, Idle) /\ UNCHANGED registryVars /\ UNCHANGED <<script, passed>>
  BY DEF CallEnds
<1>2. RegistryInv' /\ Remembers
  BY <1>1 DEF ToolInv, RegistryInv, Remembers, registryVars
<1> QED
  BY <1>1, <1>2, RegistryFrame

LEMMA CrashesStep == ASSUME ToolInv, Crashes PROVE ToolInv'
<1>1. call' = [k \in Call |-> Idle] /\ UNCHANGED <<script, passed>>
  BY DEF Crashes
<1>2. RegistryInv' /\ Remembers
  BY <1>1, CrashInQuarantineStep, CrashInUnregisterStep, CrashInSaveStep, CrashInRegisterStep
     DEF Crashes, ToolInv, Trust
<1>3. call' \in [Call -> CallRecord] /\ \A k \in Call : ~Starts(k)
  BY <1>1, IdleType DEF Starts
<1> QED
  BY <1>1, <1>2, <1>3, CallFrame DEF ToolInv, CallInv

LEMMA ToolStep == ToolInv /\ [Next]_vars => ToolInv'
<1> SUFFICES ASSUME ToolInv, [Next]_vars PROVE ToolInv'
  OBVIOUS
<1>1. ASSUME UNCHANGED toolVars, RegistryInv', Remembers
      PROVE  ToolInv'
  BY <1>1, CallFrame DEF ToolInv, CallInv, toolVars, Starts
<1>2. CASE UNCHANGED vars
  <2>1. RegistryInv' /\ Remembers
    BY <1>2 DEF vars, registryVars, toolVars, ToolInv, RegistryInv, Remembers
  <2> QED
    BY <1>1, <1>2, <2>1 DEF vars
<1>3. CASE /\ \/ ApproveTrust \/ Unregister \/ Verify
              \/ \E code \in Code : Update(code) \/ EditCode(code)
           /\ UNCHANGED toolVars
  <2>1. UNCHANGED passed
    BY <1>3 DEF toolVars
  <2>2. RegistryInv' /\ Remembers
    BY <1>3, <2>1, ApproveStep, UnregisterStep, VerifyStep, UpdateStep, EditStep DEF ToolInv
  <2> QED
    BY <1>1, <1>3, <2>2
<1>4. ASSUME NEW k \in Call, NEW code \in Code, Register(k, code) \/ ImportSkill(k, code)
      PROVE  ToolInv'
  BY <1>4, RegisterStep
<1>5. ASSUME NEW k \in Call,
             \/ EvaluateBegins(k) \/ CaseRuns(k) \/ EvaluateEnds(k)
             \/ ExecuteBegins(k) \/ ProcessStarts(k) \/ CallEnds(k)
      PROVE  ToolInv'
  BY <1>5, EvaluateBeginsStep, CaseRunsStep, EvaluateEndsStep, ExecuteBeginsStep,
     ProcessStartsStep, CallEndsStep
<1>6. CASE Crashes
  BY <1>6, CrashesStep
<1> QED
  BY <1>2, <1>3, <1>4, <1>5, <1>6 DEF Next

----------------------------------------------------------------------------
\* Files, entry and calls have the shape the code gives them.
THEOREM TypeCorrect == Spec => []TypeOK
<1>1. ToolInv => TypeOK
  BY DEF ToolInv, RegistryInv, CallInv, FileTypes, TypeOK, RegistryTypeOK
<1> QED
  BY ToolInit, ToolStep, <1>1, PTL DEF Spec

\* skill_runner.py:250 - whatever crashes, edits and concurrent calls do, what is executed was once
\* registered as trusted.
THEOREM VouchedCorrect == Spec => []RunsVouchedCode
<1>1. ToolInv => RunsVouchedCode
  BY DEF ToolInv, CallInv, Sound, RunsVouchedCode, Executed
<1> QED
  BY ToolInit, ToolStep, <1>1, PTL DEF Spec

\* README.md:89 - what is executed has passed its tests itself, but for code an entry may be
\* mistaken about.
THEOREM EvaluatedCorrect == Spec => []RunsEvaluatedCode
<1>1. ToolInv => RunsEvaluatedCode
  BY DEF ToolInv, CallInv, Sound, RunsEvaluatedCode, Executed
<1> QED
  BY ToolInit, ToolStep, <1>1, PTL DEF Spec
=============================================================================
