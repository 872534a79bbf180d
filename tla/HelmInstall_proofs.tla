------------------------- MODULE HelmInstall_proofs -------------------------
(***************************************************************************)
(* Proofs about HelmInstall, for any releases and any number of runs.      *)
(***************************************************************************)
EXTENDS HelmInstall, TLAPS

Before == {"supported", "desired", "installed", "mktemp", "assign", "sum",
           "package"}
Installing == {"checksum", "signatures", "unpack", "copy", "copying"}

(* What a run that succeeds leaves behind.                                 *)
Installed ==
    \/ bin = tag
    \/ tag = None /\ bin = Broken /\ did = "skipped"
    \/ ~Checked /\ package = "other" /\ bin = Broken /\ did = "installed"

(* How far the script is with the package it has fetched.                  *)
Progress ==
    /\ pc # "idle" => run >= 1
    /\ pc \in Before => package = "none"
    /\ pc \in Before \cup Installing => did = "nothing"
    /\ package = "release" => tag \in Releases
    /\ pc = "signatures" /\ env.checksum /\ ~masked => package = "release"
    /\ pc \in {"unpack", "copy", "copying"} /\ Checked => package = "release"
    /\ pc \in {"copy", "copying"} => package \in {"release", "other"}

Told ==
    /\ pc \in {"test", "cleanup"} => did # "nothing" /\ Installed
    /\ pc = "trap" /\ result = 0 /\ did # "nothing" => Installed
    /\ pc = "idle" /\ status = 0 /\ did # "nothing" => Installed

IInv == TypeOK /\ Progress /\ Told

USE DEF Exits, GoesOn, files, history

LEMMA InitInv == Init => IInv
<1> SUFFICES ASSUME Init
             PROVE  IInv
  OBVIOUS
<1>1. TypeOK
  <2>1. masked \in BOOLEAN /\ root \in BOOLEAN
    BY DEF Init
  <2>2. env \in Env
    BY DEF Init, Env, Tags
  <2> QED
    BY <2>1, <2>2, HelmAssumption DEF Init, TypeOK, Tags, Steps, Content
<1>2. Progress
  BY DEF Init, Progress, Before, Installing
<1>3. Told
  BY DEF Init, Told
<1> QED
  BY <1>1, <1>2, <1>3 DEF IInv

LEMMA StartInv ==
    ASSUME IInv, Start
    PROVE  IInv'
<1>1. TypeOK'
  <2>1. masked' \in BOOLEAN /\ root' \in BOOLEAN
    BY DEF Start
  <2> QED
    BY <2>1, HelmAssumption DEF IInv, TypeOK, Start, Tags, Steps, Content
<1>2. Progress'
  BY DEF IInv, TypeOK, Start, Progress, Before, Installing, Checked
<1>3. Told'
  BY DEF Start, Told
<1> QED
  BY <1>1, <1>2, <1>3 DEF IInv

(* The steps before there is a package.                                    *)
LEMMA BeforeInv ==
    ASSUME IInv,
           \/ VerifySupported \/ CheckDesiredVersion \/ MakeTemp
           \/ AssignRoot \/ DownloadSum
    PROVE  IInv'
<1>1. TypeOK'
  <2>1. CASE VerifySupported
    BY <2>1 DEF IInv, TypeOK, VerifySupported, Only, Steps
  <2>2. CASE CheckDesiredVersion
    <3>1. masked' \in BOOLEAN /\ env' \in Env
      BY <2>2 DEF IInv, TypeOK, CheckDesiredVersion
    <3>2. tag' \in Tags
      BY <2>2 DEF IInv, TypeOK, CheckDesiredVersion, Tags, Env
    <3> QED
      BY <2>2, <3>1, <3>2 DEF IInv, TypeOK, CheckDesiredVersion, Steps
  <2>3. CASE MakeTemp
    <3>1. masked' \in BOOLEAN /\ env' \in Env
      BY <2>3 DEF IInv, TypeOK, MakeTemp
    <3>2. run \in 1..run
      BY <2>3 DEF IInv, TypeOK, Progress, MakeTemp
    <3>3. temp' \subseteq 1..run' /\ killed' \subseteq 1..run' /\ cut' \subseteq 1..run'
      BY <2>3, <3>2 DEF IInv, TypeOK, MakeTemp
    <3> QED
      BY <2>3, <3>1, <3>3 DEF IInv, TypeOK, MakeTemp, Steps
  <2>4. CASE DownloadSum
    BY <2>4 DEF IInv, TypeOK, DownloadSum, Fetched, Steps, Content
  <2>5. CASE AssignRoot
    <3>1. masked' \in BOOLEAN /\ root' \in BOOLEAN /\ env' \in Env
      BY <2>5 DEF IInv, TypeOK, AssignRoot
    <3> QED
      BY <2>5, <3>1 DEF IInv, TypeOK, AssignRoot, Steps
  <2> QED
    BY <2>1, <2>2, <2>3, <2>4, <2>5
<1>2. Progress'
  BY DEF IInv, Progress, Before, Installing, Checked, VerifySupported,
         CheckDesiredVersion, MakeTemp, AssignRoot, DownloadSum, Only
<1>3. Told'
  BY DEF IInv, Progress, Before, Told, VerifySupported,
         CheckDesiredVersion, MakeTemp, AssignRoot, DownloadSum, Only
<1> QED
  BY <1>1, <1>2, <1>3 DEF IInv

LEMMA CheckInstalledInv ==
    ASSUME IInv, CheckInstalled
    PROVE  IInv'
<1>1. TypeOK'
  BY DEF IInv, TypeOK, CheckInstalled, Steps
<1>2. Progress'
  BY DEF IInv, Progress, Before, Installing, Checked, CheckInstalled
<1>3. Told'
  BY DEF IInv, TypeOK, Told, Installed, CheckInstalled, Version
<1> QED
  BY <1>1, <1>2, <1>3 DEF IInv

(* The steps that fetch the package and hold it against its proofs.        *)
LEMMA CheckInv ==
    ASSUME IInv,
           DownloadPackage \/ VerifyChecksum \/ VerifySignatures \/ Unpack
    PROVE  IInv'
<1>1. TypeOK'
  <2>1. CASE DownloadPackage
    BY <2>1 DEF IInv, TypeOK, DownloadPackage, Fetched, Steps, Content
  <2>2. CASE VerifyChecksum
    <3>1. masked' \in BOOLEAN
      BY <2>2 DEF IInv, TypeOK, VerifyChecksum
    <3> QED
      BY <2>2, <3>1 DEF IInv, TypeOK, VerifyChecksum, Steps
  <2>3. CASE VerifySignatures \/ Unpack
    <3>1. pc' \in Steps /\ result' \in {0, 1} /\ Only
      BY <2>3 DEF IInv, TypeOK, VerifySignatures, Unpack, Steps
    <3> QED
      BY <3>1 DEF IInv, TypeOK, Only
  <2> QED
    BY <2>1, <2>2, <2>3
<1>2. Progress'
  <2>1. CASE DownloadPackage
    BY <2>1 DEF IInv, Progress, Before, Installing, DownloadPackage, Fetched
  <2>2. CASE VerifyChecksum
    BY <2>2 DEF IInv, Progress, Before, Installing, VerifyChecksum
  <2>3. CASE VerifySignatures
    BY <2>3 DEF IInv, Progress, Before, Installing, Checked, VerifySignatures, Only
  <2>4. CASE Unpack
    BY <2>4 DEF IInv, Progress, Before, Installing, Checked, Unpack, Only
  <2> QED
    BY <2>1, <2>2, <2>3, <2>4
<1>3. Told'
  BY DEF IInv, Progress, Before, Installing, Told, DownloadPackage,
         VerifyChecksum, VerifySignatures, Unpack, Only
<1> QED
  BY <1>1, <1>2, <1>3 DEF IInv

LEMMA CopyInv ==
    ASSUME IInv, CopyBegins \/ CopyEnds
    PROVE  IInv'
<1>1. TypeOK'
  <2>1. masked' \in BOOLEAN
    BY DEF IInv, TypeOK, CopyBegins, CopyEnds
  <2>2. bin' \in Releases \cup {Absent, Broken}
    BY DEF IInv, TypeOK, Progress, CopyBegins, CopyEnds
  <2> QED
    BY <2>1, <2>2 DEF IInv, TypeOK, CopyBegins, CopyEnds, Steps
<1>2. Progress'
  BY DEF IInv, Progress, Before, Installing, Checked, CopyBegins, CopyEnds
<1>3. Told'
  <2>1. CASE CopyBegins
    BY <2>1 DEF IInv, Progress, Installing, Told, CopyBegins
  <2>2. CASE CopyEnds
    BY <2>2 DEF IInv, Progress, Installing, Told, Installed, Checked, CopyEnds
  <2> QED
    BY <2>1, <2>2
<1> QED
  BY <1>1, <1>2, <1>3 DEF IInv

LEMMA EndInv ==
    ASSUME IInv,
           \/ TestVersion \/ Cleanup \/ FailTrap
           \/ Interrupt \/ CutTrap \/ Kill
    PROVE  IInv'
<1>1. TypeOK'
  <2>1. masked' \in BOOLEAN /\ root' \in BOOLEAN
    BY DEF IInv, TypeOK, TestVersion, Cleanup, FailTrap, Interrupt, CutTrap, Kill,
           Only
  <2>2. faults' \in 0..MaxFaults
    BY HelmAssumption
       DEF IInv, TypeOK, TestVersion, Cleanup, FailTrap, Interrupt, CutTrap, Kill,
           Fault, Only
  <2>3. /\ temp' \subseteq 1..run' /\ killed' \subseteq 1..run'
        /\ cut' \subseteq 1..run' /\ run' \in 0..MaxRuns
    <3>1. run' = run /\ pc # "idle" /\ run \in 0..MaxRuns
      BY DEF IInv, TypeOK, TestVersion, Cleanup, FailTrap, Interrupt, CutTrap, Kill,
             Only
    <3>2. run \in 1..run
      BY <3>1 DEF IInv, Progress
    <3>3. /\ temp' \subseteq temp /\ killed' \subseteq killed \cup {run}
          /\ cut' \subseteq cut \cup {run}
      BY DEF TestVersion, Cleanup, FailTrap, Interrupt, CutTrap, Kill, Kept, Only
    <3> QED
      BY <3>1, <3>2, <3>3 DEF IInv, TypeOK
  <2>4. /\ pc' \in Steps /\ result' \in {0, 1} /\ status' \in {0, 1, 137}
        /\ UNCHANGED <<env, tag, sum, package, bin, did>>
    BY DEF IInv, TypeOK, TestVersion, Cleanup, FailTrap, Interrupt, CutTrap, Kill,
           Only, Steps
  <2> QED
    BY <2>1, <2>2, <2>3, <2>4 DEF IInv, TypeOK
<1>2. Progress'
  BY DEF IInv, Progress, Before, Installing, Checked, TestVersion, Cleanup,
         FailTrap, Interrupt, CutTrap, Kill, Only
<1>3. Told'
  BY DEF IInv, TypeOK, Told, Installed, Checked, TestVersion, Cleanup, FailTrap,
         Interrupt, CutTrap, Kill, Only
<1> QED
  BY <1>1, <1>2, <1>3 DEF IInv

(* Every step of every run keeps the types and the bookkeeping above.      *)
THEOREM TypeCorrect == Spec => [](TypeOK /\ Progress /\ Told)
<1>1. IInv /\ [Next]_vars => IInv'
  <2> SUFFICES ASSUME IInv, [Next]_vars
               PROVE  IInv'
    OBVIOUS
  <2>1. CASE UNCHANGED vars
    BY <2>1 DEF vars, IInv, TypeOK, Progress, Told, Installed, Checked
  <2>2. CASE Next
    BY <2>2, StartInv, BeforeInv, CheckInstalledInv, CheckInv, CopyInv, EndInv
       DEF Next
  <2> QED
    BY <2>1, <2>2
<1>2. IInv => TypeOK /\ Progress /\ Told
  BY DEF IInv
<1> QED
  BY <1>1, <1>2, InitInv, PTL DEF Spec

(* A run that ends with status 0 and was not asked for help leaves the     *)
(* release it was to install, but for the two exceptions that              *)
(* SuccessInstalls names; crashes and failures of earlier runs included.   *)
THEOREM SuccessAlwaysInstalls == Spec => []SuccessInstalls
<1>1. Told => SuccessInstalls
  BY DEF Told, SuccessInstalls, Installed
<1> QED
  BY <1>1, TypeCorrect, PTL

(* No step writes to the installed binary before the package is proved to  *)
(* be the release, unless it was not Checked: the settings ask for no      *)
(* check, or verifyChecksum accepted an empty text for the checksum.       *)
THEOREM UntouchedAlways == Spec => UntouchedUnlessProved
<1>1. Progress /\ [Next]_vars =>
         [bin' # bin => package = "release" \/ (~Checked /\ package = "other")]_vars
  <2> SUFFICES ASSUME Progress, Next, bin' # bin
               PROVE  package = "release" \/ (~Checked /\ package = "other")
    OBVIOUS
  <2>1. CopyBegins \/ CopyEnds
    BY DEF Next, Start, VerifySupported, CheckDesiredVersion, CheckInstalled,
           MakeTemp, AssignRoot, DownloadSum, DownloadPackage, VerifyChecksum,
           VerifySignatures, Unpack, TestVersion, Cleanup, FailTrap, Interrupt,
           CutTrap, Kill, Only
  <2>2. pc \in {"copy", "copying"}
    BY <2>1 DEF CopyBegins, CopyEnds
  <2> QED
    BY <2>2 DEF Progress
<1> QED
  BY <1>1, TypeCorrect, PTL DEF Spec, UntouchedUnlessProved

-----------------------------------------------------------------------------
(* NoTempLeft is not inductive: it says nothing of a name that is not      *)
(* assigned, and the trap removes no other directory.                      *)
Rooted ==
    /\ pc \in Before \ {"assign", "sum", "package"} => run \notin temp
    /\ pc \notin {"idle", "assign"} /\ ~root => run \notin temp \/ run \in cut

TempInv == temp \subseteq 1..run /\ Rooted /\ NoTempLeft

LEMMA TempKeeps ==
    ASSUME TypeOK, Progress, TempInv, [Next]_vars
    PROVE  TempInv'
<1>0. run \in Nat
  BY DEF TypeOK
<1>1. CASE UNCHANGED vars
  BY <1>1 DEF vars, TempInv, Rooted, NoTempLeft
<1>2. CASE Start
  <2>1. /\ run' = run + 1 /\ ~root' /\ pc = "idle"
        /\ UNCHANGED <<temp, killed, cut>>
    BY <1>2 DEF Start
  <2>2. run' \notin temp /\ temp \subseteq 1..run' /\ temp \subseteq killed \cup cut
    BY <1>0, <2>1 DEF TempInv, NoTempLeft
  <2> QED
    BY <2>1, <2>2 DEF TempInv, Rooted, NoTempLeft
<1>3. CASE MakeTemp
  <2>1. \/ pc' = "trap" /\ temp' = temp
        \/ pc' = "assign" /\ temp' = temp \cup {run}
    BY <1>3 DEF MakeTemp
  <2>2. /\ pc = "mktemp" /\ run \notin temp /\ run \in 1..run'
        /\ UNCHANGED <<run, root, killed, cut>>
    <3>1. run >= 1 /\ run \in 1..run
      BY <1>0, <1>3 DEF MakeTemp, Progress
    <3> QED
      BY <1>3, <3>1 DEF MakeTemp, TempInv, Rooted, Before
  <2> QED
    BY <2>1, <2>2 DEF TempInv, Rooted, Before, NoTempLeft
<1>4. CASE AssignRoot
  BY <1>4 DEF AssignRoot, TempInv, Rooted, Before, NoTempLeft
<1>5. CASE Cleanup \/ FailTrap
  <2>1. /\ temp' = Kept /\ UNCHANGED <<run, root, killed, cut>>
        /\ pc \in {"cleanup", "trap"} /\ pc' \in {"idle", "trap"}
    BY <1>5 DEF Cleanup, FailTrap
  <2> QED
    BY <2>1 DEF Kept, TempInv, Rooted, Before, NoTempLeft
<1>6. CASE Interrupt
  <2>1. /\ pc' = "trap" /\ UNCHANGED <<run, root, temp, killed>>
        /\ cut' = IF pc = "assign" THEN cut \cup {run} ELSE cut
        /\ pc # "idle"
    BY <1>6 DEF Interrupt
  <2> QED
    BY <2>1 DEF TempInv, Rooted, Before, NoTempLeft
<1>7. CASE CutTrap \/ Kill
  BY <1>7 DEF CutTrap, Kill, TempInv, Rooted, Before, NoTempLeft
<1>8. CASE VerifySupported \/ CheckDesiredVersion \/ CheckInstalled \/ DownloadSum
  BY <1>8 DEF VerifySupported, CheckDesiredVersion, CheckInstalled, DownloadSum,
              Only, TempInv, Rooted, Before, NoTempLeft
<1>9. CASE DownloadPackage \/ VerifyChecksum \/ VerifySignatures \/ Unpack
  BY <1>9 DEF DownloadPackage, VerifyChecksum, VerifySignatures, Unpack, Only,
              TempInv, Rooted, Before, NoTempLeft
<1>10. CASE CopyBegins \/ CopyEnds \/ TestVersion
  BY <1>10 DEF CopyBegins, CopyEnds, TestVersion, Only, TempInv, Rooted, Before,
               NoTempLeft
<1> QED
  BY <1>1, <1>2, <1>3, <1>4, <1>5, <1>6, <1>7, <1>8, <1>9, <1>10 DEF Next

(* A run that is over leaves no temporary directory behind, unless it was  *)
(* killed, interrupted between mktemp and the assignment of its result, or *)
(* interrupted in the trap, for any number of runs and interrupts.         *)
THEOREM TempAlwaysRemoved == Spec => []NoTempLeft
<1>1. Init => TempInv
  BY DEF Init, TempInv, Rooted, Before, NoTempLeft
<1>2. TempInv => NoTempLeft
  BY DEF TempInv
<1> QED
  BY <1>1, <1>2, TempKeeps, TypeCorrect, PTL DEF Spec
=============================================================================
