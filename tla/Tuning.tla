------------------------------- MODULE Tuning -------------------------------
(***************************************************************************)
(* redis/tuning.sh: `apply` backs up the machine's settings and tunes      *)
(* them, `revert` writes the backup back.  The script runs under `set -e`  *)
(* and may be interrupted between any two writes; an operator may run it   *)
(* any number of times.  A setting is one file of /sys or /proc.           *)
(***************************************************************************)
EXTENDS Naturals, Sequences, TLAPS

CONSTANTS
  Cpus,       \* scaling_governor files, in glob order
  Queues,     \* rps_cpus and xps_cpus files, in the order they are tuned
  Irqs,       \* smp_affinity_list files of the device, in order
  MaxApplies  \* bound: times apply is run

NetFiles == Queues \o Irqs
Governor == {Cpus[i] : i \in 1 .. Len(Cpus)}
Network == {NetFiles[i] : i \in 1 .. Len(NetFiles)}
Setting == Governor \cup Network

Default == "default"        \* what the machine booted with, if not Tuned
Tuned == "tuned"            \* performance, CPU_MASK, or the CPU list
Unreadable == "unreadable"  \* the kernel refuses to read and write the file
NoFile == "no file"         \* no backup file, or an empty one

(* The backup of every governor: `basename $(dirname "$cpu")` is cpufreq   *)
(* for each of them.                                                       *)
GovernorFile == "cpufreq_governor.bak"
BackupFile(s) == IF s \in Governor THEN GovernorFile ELSE s

ASSUME TuningInputs ==
  /\ Cpus \in Seq(STRING) /\ Queues \in Seq(STRING) /\ Irqs \in Seq(STRING)
  /\ Governor \cap Network = {} /\ GovernorFile \notin Setting
  /\ MaxApplies \in Nat

VARIABLES
  now,      \* the value of each setting
  backup,   \* BACKUP_DIR: the value in each backup file, or NoFile
  dir,      \* BACKUP_DIR exists
  stage,       \* "idle", or what the running script is doing
  at,       \* the next file of that loop
  applies,  \* times apply was started
  outcome,  \* how the last invocation ended
  boot,     \* history: the settings before the script was ever run
  base,     \* history: the settings when apply was last started
  saved     \* history: that apply finished backup_settings

tuningvars == <<now, backup, dir, stage, at, applies, outcome, boot, base, saved>>
history == <<boot, base, saved>>

TuningInit ==
  /\ now \in [Setting -> {Default, Tuned, Unreadable}]
  /\ backup = [f \in {GovernorFile} \cup Network |-> NoFile]
  /\ dir = FALSE
  /\ stage = "idle"
  /\ at = 1
  /\ applies = 0
  /\ outcome = "none"
  /\ boot = now
  /\ base = now
  /\ saved = FALSE

(* The script exits.                                                       *)
Exit(how) ==
  /\ stage' = "idle"
  /\ at' = 1
  /\ outcome' = how

(* The loop goes on to its next file; the script goes on to its next loop. *)
Advance == at' = at + 1 /\ UNCHANGED <<stage, outcome>>
Enter(loop) == stage' = loop /\ at' = 1 /\ UNCHANGED outcome

(* `echo value > file`, where a failure is only a warning.                 *)
Write(s, value) ==
  \/ now[s] # Unreadable /\ now' = [now EXCEPT ![s] = value]
  \/ UNCHANGED now

(* `cat file > backup`, which leaves the backup empty when cat fails.      *)
Copy(s) ==
  backup' = [backup EXCEPT ![BackupFile(s)] = IF now[s] = Unreadable THEN NoFile ELSE now[s]]

(* `apply`: check_root and check_nic_exists passed, the directory is made. *)
Apply ==
  /\ stage = "idle"
  /\ applies < MaxApplies
  /\ applies' = applies + 1
  /\ dir' = TRUE
  /\ stage' = "governors"
  /\ at' = 1
  /\ outcome' = "none"
  /\ base' = now
  /\ saved' = FALSE
  /\ UNCHANGED <<now, backup, boot>>

(* backup_settings, the governors.                                         *)
BackupGovernor ==
  /\ stage = "governors"
  /\ \/ /\ at <= Len(Cpus)
        /\ Copy(Cpus[at])
        /\ Advance
     \/ /\ at > Len(Cpus)
        /\ Enter("backup")
        /\ UNCHANGED backup
  /\ UNCHANGED <<now, dir, applies, history>>

(* backup_settings, queues and IRQs, over the backup of an earlier run.    *)
(* Only the `cat` of an IRQ ends the script when it fails.                 *)
BackupNetwork ==
  /\ stage = "backup"
  /\ \/ /\ at <= Len(NetFiles)
        /\ Copy(NetFiles[at])
        /\ IF at > Len(Queues) /\ now[NetFiles[at]] = Unreadable
           THEN Exit("failed") ELSE Advance
        /\ UNCHANGED saved
     \/ /\ at > Len(NetFiles)
        /\ Enter("cpus")
        /\ saved' = TRUE
        /\ UNCHANGED backup
  /\ UNCHANGED <<now, dir, applies, boot, base>>

(* tune_cpu_governor.  Reading an unreadable governor ends the script, and *)
(* so does `((count++))`, of status 1 when count was 0, at the first CPU   *)
(* that was not yet tuned, whether or not the write worked.                *)
TuneCpu ==
  /\ stage = "cpus"
  /\ \/ /\ at <= Len(Cpus) /\ now[Cpus[at]] = Tuned
        /\ Advance
        /\ UNCHANGED now
     \/ /\ at <= Len(Cpus) /\ now[Cpus[at]] # Tuned
        /\ Write(Cpus[at], Tuned)
        /\ Exit("failed")
     \/ /\ at > Len(Cpus)
        /\ Enter("queues")
        /\ UNCHANGED now
  /\ UNCHANGED <<backup, dir, applies, history>>

(* tune_network_queues, which returns 1 without queues.                    *)
TuneQueue ==
  /\ stage = "queues"
  /\ \/ /\ at <= Len(Queues)
        /\ Write(Queues[at], Tuned)
        /\ Advance
     \/ /\ at > Len(Queues)
        /\ IF Queues = <<>> THEN Exit("failed") ELSE Enter("irqs")
        /\ UNCHANGED now
  /\ UNCHANGED <<backup, dir, applies, history>>

(* tune_irq_affinity, which returns 1 without IRQs; `((irq_count++))` ends *)
(* the script at the first one.                                            *)
TuneIrq ==
  /\ stage = "irqs"
  /\ IF Irqs = <<>> THEN UNCHANGED now ELSE Write(Irqs[at], Tuned)
  /\ Exit("failed")
  /\ UNCHANGED <<backup, dir, applies, history>>

(* `revert`.                                                               *)
Revert ==
  /\ stage = "idle"
  /\ \/ dir /\ stage' = "revert" /\ at' = 1 /\ outcome' = "none"
     \/ ~dir /\ Exit("failed")
  /\ UNCHANGED <<now, backup, dir, applies, history>>

(* Mutant: the IRQs are not reverted.                                      *)
RevertNoIrqs ==
  /\ stage = "revert"
  /\ \/ /\ at <= Len(Queues)
        /\ now' = IF backup[NetFiles[at]] = NoFile THEN now
                  ELSE [now EXCEPT ![NetFiles[at]] = backup[NetFiles[at]]]
        /\ Advance
     \/ /\ at > Len(Queues)
        /\ Exit("reverted")
        /\ UNCHANGED now
  /\ UNCHANGED <<backup, dir, applies, history>>

(* revert_settings.  The kernel takes back a value it gave out.  The       *)
(* backup of the governors names no file of /sys and is passed over.       *)
RevertNetwork ==
  /\ stage = "revert"
  /\ \/ /\ at <= Len(NetFiles)
        /\ now' = IF backup[NetFiles[at]] = NoFile THEN now
                  ELSE [now EXCEPT ![NetFiles[at]] = backup[NetFiles[at]]]
        /\ Advance
     \/ /\ at > Len(NetFiles)
        /\ Exit("reverted")
        /\ UNCHANGED now
  /\ UNCHANGED <<backup, dir, applies, history>>

(* Ctrl-C or a lost session.  A backup being written is left empty.        *)
Interrupt ==
  /\ stage # "idle"
  /\ \/ UNCHANGED backup
     \/ /\ stage = "governors"
        /\ backup' = [backup EXCEPT ![GovernorFile] = NoFile]
     \/ /\ stage = "backup" /\ at <= Len(NetFiles)
        /\ backup' = [backup EXCEPT ![NetFiles[at]] = NoFile]
  /\ Exit("interrupted")
  /\ UNCHANGED <<now, dir, applies, history>>

TuningNext ==
  \/ Apply \/ BackupGovernor \/ BackupNetwork
  \/ TuneCpu \/ TuneQueue \/ TuneIrq
  \/ Revert \/ RevertNetwork \/ Interrupt

TuningSpec == TuningInit /\ [][TuningNext]_tuningvars

-----------------------------------------------------------------------------
(* Properties.                                                             *)

(* Every variable of the script holds a value of its kind.                 *)
TuningTypeOK ==
  /\ now \in [Setting -> {Default, Tuned, Unreadable}]
  /\ backup \in [{GovernorFile} \cup Network -> {Default, Tuned, NoFile}]
  /\ dir \in BOOLEAN
  /\ stage \in {"idle", "governors", "backup", "cpus", "queues", "irqs", "revert"}
  /\ at \in Nat \ {0}
  /\ applies \in Nat
  /\ outcome \in {"none", "failed", "interrupted", "reverted"}
  /\ boot \in [Setting -> {Default, Tuned, Unreadable}]
  /\ base \in [Setting -> {Default, Tuned, Unreadable}]
  /\ saved \in BOOLEAN

(* A revert that runs to its end gives the queues and IRQs the settings    *)
(* they had when apply was last started, wherever set -e or an interrupt   *)
(* ended that apply after backup_settings, and however many reverts were   *)
(* interrupted since.                                                      *)
RevertUndoesApply ==
  outcome = "reverted" /\ saved => \A s \in Network : now[s] = base[s]

(* tuning.sh: "Backup all settings for safe revert".  A revert that runs   *)
(* to its end after one apply leaves every setting as the machine had it.  *)
RevertRestores ==
  outcome = "reverted" /\ applies = 1 => now = boot


-----------------------------------------------------------------------------
(* Proofs, for any lists of CPUs, queues and IRQs: a complete revert undoes *)
(* the last apply that finished its backup.*)

(* What backup_settings leaves for setting s, of value base[s].            *)
BackedUp(s) ==
  IF base[s] = Unreadable THEN backup[s] = NoFile /\ now[s] = Unreadable
  ELSE backup[s] = base[s]

(* Restored up to file n of the loop of revert_settings.                   *)
RestoredBelow(n) == \A i \in 1 .. Len(NetFiles) : i < n => now[NetFiles[i]] = base[NetFiles[i]]

(* The inductive invariant: a finished backup stays what it was until the  *)
(* next apply, tuning starts only after it, and the loops of backup and    *)
(* revert have dealt with the files they are past.                         *)
BackupInv ==
  /\ saved => \A i \in 1 .. Len(NetFiles) : BackedUp(NetFiles[i])
  /\ stage \in {"governors", "backup"} => ~saved /\ now = base
  /\ stage = "backup" => \A i \in 1 .. Len(NetFiles) : i < at => BackedUp(NetFiles[i])
  /\ stage \in {"cpus", "queues", "irqs"} => saved
  /\ stage = "revert" /\ saved => RestoredBelow(at)
  /\ outcome = "reverted" => stage = "idle"
  /\ outcome = "reverted" /\ saved => RestoredBelow(Len(NetFiles) + 1)

(* The files of the loops are settings, and the lists are sequences.       *)
LEMMA FilesAreSettings ==
  /\ NetFiles \in Seq(STRING)
  /\ Len(NetFiles) \in Nat /\ Len(Cpus) \in Nat /\ Len(Queues) \in Nat /\ Len(Irqs) \in Nat
  /\ \A i \in 1 .. Len(NetFiles) : NetFiles[i] \in Network
  /\ \A i \in 1 .. Len(Cpus) : Cpus[i] \in Governor
  /\ \A i \in 1 .. Len(Queues) : Queues[i] \in Network
  /\ \A i \in 1 .. Len(Irqs) : Irqs[i] \in Network
<1>1. NetFiles \in Seq(STRING)
  BY TuningInputs DEF NetFiles
<1>2. Len(NetFiles) = Len(Queues) + Len(Irqs)
  BY TuningInputs DEF NetFiles
<1>3. \A i \in 1 .. Len(Queues) : NetFiles[i] = Queues[i]
  BY TuningInputs DEF NetFiles
<1>4. \A i \in 1 .. Len(Irqs) : NetFiles[Len(Queues) + i] = Irqs[i]
  BY TuningInputs DEF NetFiles
<1>5. /\ Len(NetFiles) \in Nat /\ Len(Cpus) \in Nat
      /\ Len(Queues) \in Nat /\ Len(Irqs) \in Nat
  BY <1>1, TuningInputs
<1>6. \A i \in 1 .. Len(NetFiles) : NetFiles[i] \in Network
  BY DEF Network
<1>7. \A i \in 1 .. Len(Cpus) : Cpus[i] \in Governor
  BY DEF Governor
<1>8. \A i \in 1 .. Len(Queues) : i \in 1 .. Len(NetFiles)
  BY <1>2, <1>5
<1>9. \A i \in 1 .. Len(Irqs) : Len(Queues) + i \in 1 .. Len(NetFiles)
  BY <1>2, <1>5
<1> QED
  BY <1>1, <1>3, <1>4, <1>5, <1>6, <1>7, <1>8, <1>9

(* A write to a setting that fails or succeeds keeps the settings typed,   *)
(* and no write changes an unreadable one.                                 *)
LEMMA WriteKeeps ==
  ASSUME TuningTypeOK, NEW s \in Setting, Write(s, Tuned)
  PROVE  /\ now' \in [Setting -> {Default, Tuned, Unreadable}]
         /\ \A t \in Setting : now[t] = Unreadable => now'[t] = Unreadable
BY DEF TuningTypeOK, Write

LEMMA InitBackup == TuningInit => TuningTypeOK /\ BackupInv
<1> SUFFICES ASSUME TuningInit PROVE TuningTypeOK /\ BackupInv
  OBVIOUS
<1>1. TuningTypeOK
  <2>1. dir \in BOOLEAN /\ saved \in BOOLEAN
    BY Zenon DEF TuningInit
  <2>2. backup \in [{GovernorFile} \cup Network -> {Default, Tuned, NoFile}]
    BY DEF TuningInit
  <2>3. at \in Nat \ {0} /\ applies \in Nat
    BY DEF TuningInit
  <2> QED
    BY <2>1, <2>2, <2>3, Zenon DEF TuningInit, TuningTypeOK
<1>2. BackupInv
  BY DEF TuningInit, BackupInv
<1> QED
  BY <1>1, <1>2

LEMMA TypeStep == TuningTypeOK /\ [TuningNext]_tuningvars => TuningTypeOK'
<1> SUFFICES ASSUME TuningTypeOK, [TuningNext]_tuningvars PROVE TuningTypeOK'
  OBVIOUS
<1> USE FilesAreSettings
<1>1. CASE Apply
  <2>1. dir' \in BOOLEAN /\ saved' \in BOOLEAN
    BY <1>1, Zenon DEF Apply
  <2>2. at' \in Nat \ {0} /\ applies' \in Nat
    BY <1>1 DEF Apply, TuningTypeOK
  <2>3. base' = now /\ now' = now /\ backup' = backup /\ boot' = boot
    BY <1>1 DEF Apply
  <2> QED
    BY <1>1, <2>1, <2>2, <2>3, Zenon DEF TuningTypeOK, Apply
<1>2. CASE BackupGovernor
  <2>1. \A i \in 1 .. Len(Cpus) : BackupFile(Cpus[i]) = GovernorFile /\ Cpus[i] \in Setting
    BY DEF BackupFile, Setting
  <2>2. CASE at <= Len(Cpus) /\ Copy(Cpus[at]) /\ Advance
    BY <1>2, <2>1, <2>2 DEF TuningTypeOK, BackupGovernor, Copy, Advance, history
  <2>3. CASE at > Len(Cpus) /\ Enter("backup") /\ UNCHANGED backup
    BY <1>2, <2>3 DEF TuningTypeOK, BackupGovernor, Enter, history
  <2> QED
    BY <1>2, <2>2, <2>3 DEF BackupGovernor
<1>3. CASE BackupNetwork
  <2>1. \A i \in 1 .. Len(NetFiles) : BackupFile(NetFiles[i]) = NetFiles[i] /\ NetFiles[i] \in Setting
    BY TuningInputs DEF BackupFile, Setting
  <2>2. CASE at <= Len(NetFiles)
    BY <1>3, <2>1, <2>2 DEF TuningTypeOK, BackupNetwork, Copy, Advance, Exit
  <2>3. CASE at > Len(NetFiles)
    <3>1. Enter("cpus") /\ saved' = TRUE /\ UNCHANGED <<backup, now, dir, applies, boot, base>>
      BY <1>3, <2>3 DEF BackupNetwork, TuningTypeOK
    <3>2. at' \in Nat \ {0} /\ stage' = "cpus" /\ outcome' = outcome
      BY <3>1 DEF Enter
    <3>3. saved' \in BOOLEAN
      BY <3>1, Zenon
    <3> QED
      BY <3>1, <3>2, <3>3, Zenon DEF TuningTypeOK
  <2> QED
    BY <2>2, <2>3 DEF TuningTypeOK
<1>4. CASE TuneCpu
  <2>1. CASE at <= Len(Cpus) /\ now[Cpus[at]] # Tuned
    <3>1. Cpus[at] \in Setting
      BY <2>1 DEF TuningTypeOK, Setting
    <3>2. Write(Cpus[at], Tuned) /\ Exit("failed")
      BY <1>4, <2>1 DEF TuneCpu, TuningTypeOK
    <3> QED
      BY <1>4, <3>1, <3>2, WriteKeeps DEF TuningTypeOK, TuneCpu, Exit, history
  <2>2. CASE ~(at <= Len(Cpus) /\ now[Cpus[at]] # Tuned)
    BY <1>4, <2>2 DEF TuningTypeOK, TuneCpu, Advance, Enter, history
  <2> QED
    BY <2>1, <2>2
<1>5. CASE TuneQueue
  <2>1. CASE at <= Len(Queues)
    <3>1. Queues[at] \in Setting
      BY <2>1 DEF TuningTypeOK, Setting
    <3>2. Write(Queues[at], Tuned) /\ Advance
      BY <1>5, <2>1 DEF TuneQueue, TuningTypeOK
    <3> QED
      BY <1>5, <3>1, <3>2, WriteKeeps DEF TuningTypeOK, TuneQueue, Advance, history
  <2>2. CASE ~(at <= Len(Queues))
    BY <1>5, <2>2 DEF TuningTypeOK, TuneQueue, Enter, Exit, history
  <2> QED
    BY <2>1, <2>2
<1>6. CASE TuneIrq
  BY <1>6 DEF TuningTypeOK, TuneIrq, Write, Exit, history
<1>7. CASE Revert
  BY <1>7 DEF TuningTypeOK, Revert, Exit, history
<1>8. CASE RevertNetwork
  <2>1. CASE at <= Len(NetFiles)
    <3>1. NetFiles[at] \in Network /\ NetFiles[at] \in Setting
      BY <2>1 DEF TuningTypeOK, Setting
    <3> QED
      BY <1>8, <2>1, <3>1 DEF TuningTypeOK, RevertNetwork, Advance, history
  <2>2. CASE ~(at <= Len(NetFiles))
    BY <1>8, <2>2 DEF TuningTypeOK, RevertNetwork, Exit, history
  <2> QED
    BY <2>1, <2>2
<1>9. CASE Interrupt
  BY <1>9 DEF TuningTypeOK, Interrupt, Exit, history
<1>10. CASE UNCHANGED tuningvars
  BY <1>10 DEF TuningTypeOK, tuningvars
<1> QED
  BY <1>1, <1>2, <1>3, <1>4, <1>5, <1>6, <1>7, <1>8, <1>9, <1>10 DEF TuningNext

(* An unreadable setting stays so, hence a finished backup stays good      *)
(* while backup and base do.                                               *)
LEMMA BackedUpStays ==
  ASSUME NEW s \in Setting, BackedUp(s),
         backup' = backup, base' = base,
         now[s] = Unreadable => now'[s] = Unreadable
  PROVE  BackedUp(s)'
BY DEF BackedUp

(* A step outside backup and revert, not itself the end of a revert.       *)
LEMMA TuningKeepsBackup ==
  ASSUME TuningTypeOK, BackupInv, stage \in {"cpus", "queues", "irqs"},
         UNCHANGED <<backup, base, saved>>,
         \A t \in Setting : now[t] = Unreadable => now'[t] = Unreadable,
         stage' \in {"cpus", "queues", "irqs", "idle"}, outcome' # "reverted"
  PROVE  BackupInv'
<1>1. \A i \in 1 .. Len(NetFiles) : NetFiles[i] \in Setting
  BY FilesAreSettings DEF Setting
<1>2. \A i \in 1 .. Len(NetFiles) : BackedUp(NetFiles[i])
  BY DEF BackupInv
<1>3. \A i \in 1 .. Len(NetFiles) : BackedUp(NetFiles[i])'
  BY <1>1, <1>2, BackedUpStays
<1>4. saved'
  BY DEF BackupInv
<1> QED
  BY <1>3, <1>4 DEF BackupInv

LEMMA BackupStep == TuningTypeOK /\ BackupInv /\ [TuningNext]_tuningvars => BackupInv'
<1> SUFFICES ASSUME TuningTypeOK, BackupInv, [TuningNext]_tuningvars PROVE BackupInv'
  OBVIOUS
<1>0. \A i \in 1 .. Len(NetFiles) :
        NetFiles[i] \in Setting /\ NetFiles[i] \in Network /\ BackupFile(NetFiles[i]) = NetFiles[i]
  BY FilesAreSettings, TuningInputs DEF Setting, BackupFile
<1>1. CASE Apply
  BY <1>1 DEF Apply, BackupInv
<1>2. CASE BackupGovernor
  <2>1. now' = now /\ base' = base /\ saved' = saved /\ ~saved /\ now = base
    BY <1>2 DEF BackupGovernor, BackupInv, history
  <2>2. outcome' = outcome /\ outcome # "reverted"
    BY <1>2 DEF BackupGovernor, BackupInv, Advance, Enter
  <2>3. stage' = "governors" \/ (stage' = "backup" /\ at' = 1)
    BY <1>2 DEF BackupGovernor, Advance, Enter
  <2> QED
    BY <2>1, <2>2, <2>3 DEF BackupInv
<1>3. CASE BackupNetwork
  <2>1. /\ now' = now /\ base' = base /\ now = base /\ ~saved
        /\ outcome # "reverted"
        /\ \A i \in 1 .. Len(NetFiles) : i < at => BackedUp(NetFiles[i])
    BY <1>3 DEF BackupNetwork, BackupInv
  <2>2. CASE at <= Len(NetFiles)
    <3>1. Copy(NetFiles[at]) /\ saved' = saved
      BY <1>3, <2>2 DEF BackupNetwork, TuningTypeOK
    <3>2. at \in 1 .. Len(NetFiles)
      BY <2>2, FilesAreSettings DEF TuningTypeOK
    <3>3. backup' = [backup EXCEPT ![NetFiles[at]] =
                       IF now[NetFiles[at]] = Unreadable THEN NoFile ELSE now[NetFiles[at]]]
      BY <1>0, <3>1, <3>2 DEF Copy
    <3>4. \A i \in 1 .. Len(NetFiles) : i < at + 1 => BackedUp(NetFiles[i])'
      <4> SUFFICES ASSUME NEW i \in 1 .. Len(NetFiles), i < at + 1
                   PROVE  BackedUp(NetFiles[i])'
        OBVIOUS
      <4>1. CASE NetFiles[i] = NetFiles[at]
        BY <4>1, <1>0, <2>1, <3>2, <3>3 DEF BackedUp, TuningTypeOK
      <4>2. CASE NetFiles[i] # NetFiles[at]
        <5>1. i < at
          BY <4>2, FilesAreSettings DEF TuningTypeOK
        <5> QED
          BY <4>2, <5>1, <1>0, <2>1, <3>2, <3>3 DEF BackedUp, TuningTypeOK
      <4> QED
        BY <4>1, <4>2
    <3>5. \/ stage' = stage /\ at' = at + 1 /\ outcome' = outcome
          \/ stage' = "idle" /\ outcome' = "failed"
      BY <1>3, <2>2 DEF BackupNetwork, TuningTypeOK, Advance, Exit
    <3> QED
      BY <1>3, <2>1, <3>1, <3>4, <3>5 DEF BackupInv, BackupNetwork
  <2>3. CASE at > Len(NetFiles)
    <3>1. stage' = "cpus" /\ outcome' = outcome /\ backup' = backup
      BY <1>3, <2>3, FilesAreSettings DEF BackupNetwork, TuningTypeOK, Enter
    <3>2. saved'
      BY <1>3, <2>3, FilesAreSettings DEF BackupNetwork, TuningTypeOK
    <3>3. \A i \in 1 .. Len(NetFiles) : BackedUp(NetFiles[i])
      BY <2>1, <2>3, FilesAreSettings DEF TuningTypeOK
    <3>4. \A i \in 1 .. Len(NetFiles) : BackedUp(NetFiles[i])'
      BY <2>1, <3>1, <3>3 DEF BackedUp
    <3> QED
      BY <2>1, <3>1, <3>2, <3>4 DEF BackupInv
  <2> QED
    BY <2>2, <2>3, FilesAreSettings DEF TuningTypeOK
<1>4. CASE TuneCpu
  <2>1. \A t \in Setting : now[t] = Unreadable => now'[t] = Unreadable
    BY <1>4, FilesAreSettings DEF TuneCpu, Write, TuningTypeOK, Setting
  <2>2. /\ stage = "cpus" /\ UNCHANGED <<backup, base, saved>>
        /\ stage' \in {"cpus", "queues", "idle"} /\ outcome' # "reverted"
    BY <1>4 DEF TuneCpu, Advance, Enter, Exit, history, BackupInv
  <2> QED
    BY <2>1, <2>2, TuningKeepsBackup
<1>5. CASE TuneQueue
  <2>1. \A t \in Setting : now[t] = Unreadable => now'[t] = Unreadable
    BY <1>5, FilesAreSettings DEF TuneQueue, Write, TuningTypeOK, Setting
  <2>2. /\ stage = "queues" /\ UNCHANGED <<backup, base, saved>>
        /\ stage' \in {"queues", "irqs", "idle"} /\ outcome' # "reverted"
    BY <1>5 DEF TuneQueue, Advance, Enter, Exit, history, BackupInv
  <2> QED
    BY <2>1, <2>2, TuningKeepsBackup
<1>6. CASE TuneIrq
  <2>1. \A t \in Setting : now[t] = Unreadable => now'[t] = Unreadable
    BY <1>6 DEF TuneIrq, Write, TuningTypeOK
  <2>2. /\ stage = "irqs" /\ UNCHANGED <<backup, base, saved>>
        /\ stage' = "idle" /\ outcome' # "reverted"
    BY <1>6 DEF TuneIrq, Exit, history
  <2> QED
    BY <2>1, <2>2, TuningKeepsBackup
<1>7. CASE Revert
  <2>1. /\ UNCHANGED <<now, backup, base, saved>> /\ outcome' # "reverted"
        /\ stage' = "idle" \/ (stage' = "revert" /\ at' = 1)
    BY <1>7 DEF Revert, Exit, history
  <2>2. saved' => \A i \in 1 .. Len(NetFiles) : BackedUp(NetFiles[i])'
    BY <2>1 DEF BackupInv, BackedUp
  <2>3. stage' = "revert" => RestoredBelow(at)'
    BY <2>1 DEF RestoredBelow
  <2> QED
    BY <2>1, <2>2, <2>3 DEF BackupInv
<1>8. CASE RevertNetwork
  <2>1. UNCHANGED <<backup, base, saved>> /\ stage = "revert" /\ outcome # "reverted"
    BY <1>8 DEF RevertNetwork, history, BackupInv
  <2>2. CASE at <= Len(NetFiles)
    <3>1. /\ now' = IF backup[NetFiles[at]] = NoFile THEN now
                    ELSE [now EXCEPT ![NetFiles[at]] = backup[NetFiles[at]]]
          /\ stage' = "revert" /\ at' = at + 1 /\ outcome' = outcome
      BY <1>8, <2>2, FilesAreSettings DEF RevertNetwork, Advance, TuningTypeOK
    <3>2. at \in 1 .. Len(NetFiles)
      BY <2>2, FilesAreSettings DEF TuningTypeOK
    <3>3. ASSUME saved
          PROVE  /\ \A i \in 1 .. Len(NetFiles) : BackedUp(NetFiles[i])'
                 /\ RestoredBelow(at)'
      <4>1. \A i \in 1 .. Len(NetFiles) : BackedUp(NetFiles[i])
        BY <3>3 DEF BackupInv
      <4>2. base[NetFiles[at]] # NoFile
        BY <1>0, <3>2 DEF TuningTypeOK, NoFile, Default, Tuned, Unreadable
      <4>3. now'[NetFiles[at]] = base[NetFiles[at]]
        BY <1>0, <3>1, <3>2, <4>1, <4>2 DEF BackedUp, TuningTypeOK
      <4>4. \A s \in Setting : s # NetFiles[at] => now'[s] = now[s]
        BY <1>0, <3>1, <3>2 DEF TuningTypeOK
      <4>5. \A i \in 1 .. Len(NetFiles) : BackedUp(NetFiles[i])'
        BY <1>0, <2>1, <3>2, <4>1, <4>3, <4>4 DEF BackedUp
      <4>6. RestoredBelow(at)
        BY <2>1, <3>3 DEF BackupInv
      <4>7. \A i \in 1 .. Len(NetFiles) : i < at + 1 => i < at \/ i = at
        BY FilesAreSettings DEF TuningTypeOK
      <4>8. RestoredBelow(at)'
        BY <1>0, <2>1, <3>1, <4>3, <4>4, <4>6, <4>7 DEF RestoredBelow
      <4> QED
        BY <4>5, <4>8
    <3> QED
      BY <2>1, <3>1, <3>3 DEF BackupInv
  <2>3. CASE at > Len(NetFiles)
    <3>1. now' = now /\ stage' = "idle"
      BY <1>8, <2>3, FilesAreSettings DEF RevertNetwork, Exit, TuningTypeOK
    <3>2. saved => RestoredBelow(at) /\ \A i \in 1 .. Len(NetFiles) : BackedUp(NetFiles[i])
      BY <2>1 DEF BackupInv
    <3>3. saved => RestoredBelow(Len(NetFiles) + 1)'
      BY <2>1, <2>3, <3>1, <3>2, FilesAreSettings DEF RestoredBelow, TuningTypeOK
    <3>4. saved => \A i \in 1 .. Len(NetFiles) : BackedUp(NetFiles[i])'
      BY <2>1, <3>1, <3>2 DEF BackedUp
    <3> QED
      BY <2>1, <3>1, <3>3, <3>4 DEF BackupInv
  <2> QED
    BY <2>2, <2>3, FilesAreSettings DEF TuningTypeOK
<1>9. CASE Interrupt
  <2>1. /\ UNCHANGED <<now, base, saved>> /\ stage' = "idle" /\ outcome' # "reverted"
        /\ saved => backup' = backup
    BY <1>9 DEF Interrupt, Exit, history, BackupInv
  <2>2. saved => \A i \in 1 .. Len(NetFiles) : BackedUp(NetFiles[i])'
    BY <2>1 DEF BackupInv, BackedUp
  <2> QED
    BY <2>1, <2>2 DEF BackupInv
<1>10. CASE UNCHANGED tuningvars
  BY <1>10 DEF BackupInv, BackedUp, RestoredBelow, tuningvars
<1> QED
  BY <1>1, <1>2, <1>3, <1>4, <1>5, <1>6, <1>7, <1>8, <1>9, <1>10 DEF TuningNext

(* The type invariant of the script and what its backup holds, for every   *)
(* list of files.                                                          *)
THEOREM BackupCorrect == TuningSpec => [](TuningTypeOK /\ BackupInv)
<1>1. TuningTypeOK /\ BackupInv /\ [TuningNext]_tuningvars => (TuningTypeOK /\ BackupInv)'
  BY TypeStep, BackupStep
<1> QED
  BY InitBackup, <1>1, PTL DEF TuningSpec

(* Whatever apply was interrupted or ended by set -e after its backup, a   *)
(* complete revert gives all queues and IRQs their settings of before it.  *)
THEOREM RevertUndoes == TuningSpec => []RevertUndoesApply
<1>1. BackupInv => RevertUndoesApply
  <2> SUFFICES ASSUME BackupInv, outcome = "reverted", saved, NEW s \in Network
               PROVE  now[s] = base[s]
    BY DEF RevertUndoesApply
  <2>1. PICK i \in 1 .. Len(NetFiles) : s = NetFiles[i]
    BY DEF Network
  <2>2. RestoredBelow(Len(NetFiles) + 1)
    BY DEF BackupInv
  <2> QED
    BY <2>1, <2>2, FilesAreSettings DEF RestoredBelow
<1> QED
  BY BackupCorrect, <1>1, PTL
=============================================================================
