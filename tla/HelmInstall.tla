----------------------------- MODULE HelmInstall -----------------------------
(***************************************************************************)
(* src/get_helm.sh: runs of the installer, one after the other, on one     *)
(* machine.  Each step may fail, and what happens then is what `set -e`    *)
(* and the EXIT trap make of it; `local x=$(...)` and the condition of an  *)
(* `if` hide failures from both.  A run may be interrupted (the trap still *)
(* runs, unless it was running already) or killed with its children        *)
(* (nothing runs).                                                         *)
(***************************************************************************)
EXTENDS Integers

CONSTANTS
    Releases,  \* versions that were released
    NoSuch,    \* a version that was not
    None,      \* the empty text: no version given, found or printed
    Absent,    \* no file at HELM_INSTALL_DIR/BINARY_NAME
    Broken,    \* a file there that is no working release
    MaxRuns,   \* bound: runs of the script
    MaxFaults  \* bound: interrupts, kills and errors of the trap's rm

ASSUME HelmAssumption ==
    /\ NoSuch \notin Releases /\ None \notin Releases /\ NoSuch # None
    /\ Absent \notin Releases \cup {NoSuch, None}
    /\ Broken \notin Releases \cup {NoSuch, None}
    /\ Absent # Broken
    /\ MaxRuns \in Nat /\ MaxFaults \in Nat

VARIABLES
    run,      \* the number of the current or last run
    env,      \* its settings: arguments and environment
    pc,       \* the step it is at, "idle" between runs
    tag,      \* TAG
    sum,      \* the file HELM_SUM_FILE
    package,  \* the file HELM_TMP_FILE
    root,     \* is HELM_TMP_ROOT assigned?
    result,   \* $? when the EXIT trap begins
    status,   \* the exit status of the last run
    bin,      \* what is installed
    temp,     \* the runs whose temporary directory exists
    did,      \* history: what the run did
    masked,   \* history: the checksum was accepted without one computed
    killed,   \* history: the runs that were killed
    cut,      \* history: those interrupted before the directory that mktemp
              \* made was assigned, or in the trap
    faults    \* bound

vars == <<run, env, pc, tag, sum, package, root, result, status, bin, temp,
          did, masked, killed, cut, faults>>

files == <<sum, package, root, bin, temp>>
history == <<did, masked, killed, cut, faults>>

Tags == Releases \cup {NoSuch, None}

(* What a download leaves in its file: what was released under TAG, an     *)
(* empty file, or anything else: an error page, a damaged or other file.   *)
Content == {"none", "release", "empty", "other"}
Env == [checksum : BOOLEAN, signatures : BOOLEAN, tool : {"curl", "wget"},
        desired : Tags]

Steps == {"idle", "supported", "desired", "installed", "mktemp",
          "assign", "sum", "package", "checksum", "signatures", "unpack", "copy",
          "copying", "test", "cleanup", "trap"}

TypeOK ==
    /\ run \in 0..MaxRuns
    /\ env \in Env
    /\ pc \in Steps
    /\ tag \in Tags
    /\ sum \in Content /\ package \in Content
    /\ root \in BOOLEAN
    /\ result \in {0, 1}
    /\ status \in {0, 1, 137}
    /\ bin \in Releases \cup {Absent, Broken}
    /\ temp \subseteq 1..run
    /\ did \in {"nothing", "skipped", "installed"}
    /\ masked \in BOOLEAN
    /\ killed \subseteq 1..run /\ cut \subseteq 1..run
    /\ faults \in 0..MaxFaults

Init ==
    /\ run = 0
    /\ env = [checksum |-> TRUE, signatures |-> FALSE, tool |-> "curl", desired |-> None]
    /\ pc = "idle"
    /\ tag = None
    /\ sum = "none" /\ package = "none" /\ root = FALSE
    /\ result = 0 /\ status = 0
    /\ bin \in Releases \cup {Absent}
    /\ temp = {}
    /\ did = "nothing" /\ masked = FALSE /\ killed = {} /\ cut = {}
    /\ faults = 0

-----------------------------------------------------------------------------
(* The script goes on to its next step, or to its EXIT trap with a status. *)
GoesOn(s) == pc' = s /\ UNCHANGED result
Exits(code) == pc' = "trap" /\ result' = code

(* A step that has not changed anything but where the script is.           *)
Only == UNCHANGED <<run, env, tag, files, status, history>>

(* The arguments: help and a --version without a value end the run well,   *)
(* an unknown argument ends it badly.                                      *)
Start ==
    /\ pc = "idle"
    /\ run < MaxRuns
    /\ run' = run + 1
    /\ env' \in Env
    /\ GoesOn("supported") \/ Exits(0) \/ Exits(1)
    /\ tag' = None
    /\ sum' = "none" /\ package' = "none" /\ root' = FALSE
    /\ did' = "nothing" /\ masked' = FALSE
    /\ UNCHANGED <<status, bin, temp, killed, cut, faults>>

(* initArch, initOS and verifySupported: is there a binary for the system, *)
(* and the tools the settings need?                                        *)
VerifySupported ==
    /\ pc = "supported"
    /\ GoesOn("desired") \/ Exits(1)
    /\ Only

(* checkDesiredVersion: the pipeline's status is that of head, so a page   *)
(* that could not be loaded, or has no release link, gives an empty TAG.   *)
CheckDesiredVersion ==
    /\ pc = "desired"
    /\ tag' \in IF env.desired = None THEN Releases \cup {None} ELSE {env.desired}
    /\ GoesOn("installed")
    /\ UNCHANGED <<run, env, files, status, history>>

(* What the installed helm prints: a broken one nothing, and its failure   *)
(* is hidden by `local`.                                                   *)
Version == IF bin \in Releases THEN bin ELSE None

(* Bug: a file that is there is good enough.                               *)
CheckInstalledExists ==
    /\ pc = "installed"
    /\ IF bin # Absent
       THEN GoesOn("test") /\ did' = "skipped"
       ELSE GoesOn("mktemp") /\ UNCHANGED did
    /\ UNCHANGED <<run, env, tag, files, status, masked, killed, cut, faults>>

(* checkHelmInstalledVersion                                               *)
CheckInstalled ==
    /\ pc = "installed"
    /\ IF bin # Absent /\ Version = tag
       THEN GoesOn("test") /\ did' = "skipped"
       ELSE GoesOn("mktemp") /\ UNCHANGED did
    /\ UNCHANGED <<run, env, tag, files, status, masked, killed, cut, faults>>

-----------------------------------------------------------------------------
(* downloadFile *)

(* mktemp makes the directory ...                                          *)
MakeTemp ==
    /\ pc = "mktemp"
    /\ \/ Exits(1) /\ UNCHANGED temp
       \/ GoesOn("assign") /\ temp' = temp \cup {run}
    /\ UNCHANGED <<run, env, tag, sum, package, root, bin, status, history>>

(* ... and only when it has ended the shell assigns its name.              *)
AssignRoot ==
    /\ pc = "assign"
    /\ GoesOn("sum")
    /\ root' = TRUE
    /\ UNCHANGED <<run, env, tag, sum, package, bin, temp, status, history>>

(* curl has no -f: an error page is a download like any other.  wget fails *)
(* on it, and set -e ends the run.                                         *)
Fetched ==
    IF tag \in Releases THEN {"release", "empty", "other"}
    ELSE IF env.tool = "curl" THEN {"other"} ELSE {}

DownloadSum ==
    /\ pc = "sum"
    /\ \/ Exits(1) /\ UNCHANGED sum
       \/ GoesOn("package") /\ sum' \in Fetched
    /\ UNCHANGED <<run, env, tag, package, root, bin, temp, status, history>>

DownloadPackage ==
    /\ pc = "package"
    /\ \/ Exits(1) /\ UNCHANGED package
       \/ GoesOn("checksum") /\ package' \in Fetched
    /\ UNCHANGED <<run, env, tag, sum, root, bin, temp, status, history>>

-----------------------------------------------------------------------------
(* verifyFile *)

(* The sum of a file matches if both are those of the release; no sum      *)
(* matches an empty checksum file, unless openssl failed too: `local`      *)
(* hides that, and two empty texts are equal.                              *)
VerifyChecksum ==
    /\ pc = "checksum"
    /\ \/ ~env.checksum /\ GoesOn("signatures") /\ UNCHANGED masked
       \/ env.checksum /\ sum = "release" /\ package = "release"
             /\ GoesOn("signatures") /\ UNCHANGED masked
       \/ env.checksum /\ sum = "empty"
             /\ GoesOn("signatures") /\ masked' = TRUE
       \/ env.checksum /\ Exits(1) /\ UNCHANGED masked
    /\ UNCHANGED <<run, env, tag, files, status, did, killed, cut, faults>>

(* Bug: the number of good lines of the package is not looked at.          *)
VerifySignaturesSumOnly ==
    /\ pc = "signatures"
    /\ \/ ~env.signatures /\ GoesOn("unpack")
       \/ env.signatures /\ sum = "release" /\ GoesOn("unpack")
       \/ env.signatures /\ Exits(1)
    /\ Only

(* Keys and signatures may fail to load and gpg to import; the files pass  *)
(* if both are what was signed.                                            *)
VerifySignatures ==
    /\ pc = "signatures"
    /\ \/ ~env.signatures /\ GoesOn("unpack")
       \/ env.signatures /\ sum = "release" /\ package = "release" /\ GoesOn("unpack")
       \/ env.signatures /\ Exits(1)
    /\ Only

-----------------------------------------------------------------------------
(* installFile *)

(* mkdir and tar; what is no release may still be an archive.              *)
Unpack ==
    /\ pc = "unpack"
    /\ \/ package \in {"release", "other"} /\ GoesOn("copy")
       \/ Exits(1)
    /\ Only

(* cp empties the file first, if sudo and the directory let it ...         *)
CopyBegins ==
    /\ pc = "copy"
    /\ \/ GoesOn("copying") /\ bin' = Broken
       \/ Exits(1) /\ UNCHANGED bin
    /\ UNCHANGED <<run, env, tag, sum, package, root, temp, status, history>>

(* ... and then fills it, or fails.                                        *)
CopyEnds ==
    /\ pc = "copying"
    /\ \/ /\ GoesOn("test")
          /\ bin' = IF package = "release" THEN tag ELSE Broken
          /\ did' = "installed"
       \/ Exits(1) /\ UNCHANGED <<bin, did>>
    /\ UNCHANGED <<run, env, tag, sum, package, root, temp, status, masked, killed,
                   cut, faults>>

(* testVersion: whether the name is on the PATH; the client is not run.    *)
TestVersion ==
    /\ pc = "test"
    /\ GoesOn("cleanup") \/ Exits(1)
    /\ Only

-----------------------------------------------------------------------------
(* cleanup removes the directory whose name it knows.                      *)
Kept == IF root THEN temp \ {run} ELSE temp

(* The end of a run that went well.                                        *)
Cleanup ==
    /\ pc = "cleanup"
    /\ temp' = Kept
    /\ Exits(0)
    /\ UNCHANGED <<run, env, tag, sum, package, root, bin, status, history>>

(* Bug: no trap is set, and only a run that ends well cleans up.           *)
NoTrap ==
    /\ pc = "trap"
    /\ status' = result
    /\ pc' = "idle"
    /\ UNCHANGED <<run, env, tag, files, result, history>>

(* fail_trap, which cleans up again.                                       *)
FailTrap ==
    /\ pc = "trap"
    /\ temp' = Kept
    /\ status' = result
    /\ pc' = "idle"
    /\ UNCHANGED <<run, env, tag, sum, package, root, result, bin, history>>

Fault ==
    /\ faults < MaxFaults
    /\ faults' = faults + 1

(* SIGINT or SIGTERM: the running command dies, the EXIT trap runs.        *)
Interrupt ==
    /\ pc \notin {"idle", "trap"}
    /\ Fault
    /\ Exits(1)
    /\ cut' = IF pc = "assign" THEN cut \cup {run} ELSE cut
    /\ UNCHANGED <<run, env, tag, files, status, did, masked, killed>>

(* The same while the trap runs, or an error of its rm: that was all.      *)
CutTrap ==
    /\ pc = "trap"
    /\ Fault
    /\ cut' = cut \cup {run}
    /\ pc' = "idle"
    /\ status' = 1
    /\ UNCHANGED <<run, env, tag, files, result, did, masked, killed>>

(* SIGKILL, or the machine stops.                                          *)
Kill ==
    /\ pc # "idle"
    /\ Fault
    /\ killed' = killed \cup {run}
    /\ pc' = "idle"
    /\ status' = 137
    /\ UNCHANGED <<run, env, tag, files, result, did, masked, cut>>

Next ==
    \/ Start
    \/ VerifySupported
    \/ CheckDesiredVersion
    \/ CheckInstalled
    \/ MakeTemp
    \/ AssignRoot
    \/ DownloadSum
    \/ DownloadPackage
    \/ VerifyChecksum
    \/ VerifySignatures
    \/ Unpack
    \/ CopyBegins
    \/ CopyEnds
    \/ TestVersion
    \/ Cleanup
    \/ FailTrap
    \/ Interrupt
    \/ CutTrap
    \/ Kill

Spec == Init /\ [][Next]_vars

-----------------------------------------------------------------------------
(* Properties *)

(* The package was held against a checksum or against signatures.  It was  *)
(* not if the settings ask for neither, nor if verifyChecksum compared the *)
(* empty text of an openssl that failed with an empty checksum file.       *)
Checked == env.signatures \/ (env.checksum /\ ~masked)

(* Who is told that the installation succeeded has the release that was    *)
(* asked for, whatever earlier runs left behind (checkHelmInstalledVersion *)
(* and installFile).  The code leaves two exceptions: with no TAG a broken *)
(* helm passes for the latest one, since both versions are the empty text; *)
(* and a package that was not Checked.                                     *)
SuccessInstalls ==
    pc = "idle" /\ status = 0 /\ did # "nothing" =>
       \/ bin = tag
       \/ tag = None /\ bin = Broken /\ did = "skipped"
       \/ ~Checked /\ package = "other" /\ bin = Broken /\ did = "installed"

(* The installed binary is not touched before the package is proved to be  *)
(* the release by a checksum that was computed or by signatures: a run     *)
(* that fails before leaves it alone.  It says nothing of a package that   *)
(* was not Checked; one whose checksum was accepted without one computed   *)
(* is installed, although checks are on.                                   *)
UntouchedUnlessProved ==
    [][bin' # bin => package = "release" \/ (~Checked /\ package = "other")]_vars

(* "cleanup temporary files": a run that is over, well or badly, leaves    *)
(* none, unless it was killed, interrupted just when mktemp had made the   *)
(* directory, or interrupted once more in the trap.                        *)
NoTempLeft ==
    temp \subseteq killed \cup cut \cup (IF pc = "idle" THEN {} ELSE {run})
=============================================================================
