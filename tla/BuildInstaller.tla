---------------------------- MODULE BuildInstaller ----------------------------
(***************************************************************************)
(* The installer build scripts: build_scripts/build_linux_deb.sh, the rpm  *)
(* script (unnamed/part_004) and build_scripts/build_macos_m1.sh.  Each    *)
(* runs the same pipeline: install tools, pyinstaller the daemon, build    *)
(* the GUI with npm, stamp the installer version into the GUI's            *)
(* package.json (keeping a package.json.orig copy), run electron-packager, *)
(* move the copy back, then make the installer.  The Linux scripts check   *)
(* some exit codes by hand; the macOS script runs under set -euo pipefail, *)
(* so any failing command or unset variable ends it on the spot.           *)
(*                                                                         *)
(* Every command can fail.  Commands whose failure has the same effect are *)
(* grouped into one step; a step's outcome is "ok", "softFail" (a command  *)
(* whose status nobody checks failed) or "hardFail" (a checked one, or a   *)
(* `cd ... || exit`, failed).                                              *)
(***************************************************************************)
EXTENDS Naturals

CONSTANTS
    Scripts,       \* the scripts run: "deb", "rpm", "macos"
    Args,          \* values of $1 the Linux scripts may be given
    NotarizeEnv    \* values NOTARIZE may have: "unset", "empty", "set"

ASSUME Scripts \subseteq {"deb", "rpm", "macos"}
ASSUME Args \subseteq {"none", "amd64", "arm64"}
ASSUME NotarizeEnv \subseteq {"unset", "empty", "set"}

VARIABLES
    script,        \* the script being run
    arg,           \* $1
    notarize,      \* $NOTARIZE
    pc,            \* the step the script is at
    pkgJson,       \* packages/gui/package.json: "orig" or "stamped"
    origFile,      \* packages/gui/package.json.orig exists
    packCode,      \* electron-packager's exit status was zero
    failed,        \* some command failed
    installer,     \* the installer file was produced
    status         \* "running", or the script's exit: "ok" or "fail"

vars == <<script, arg, notarize, pc, pkgJson, origFile, packCode, failed, installer, status>>

Steps == {"start", "prep", "pyinstaller", "npmBuild", "stamp", "package",
          "restore", "checkPackage", "installer", "sign", "dmg", "notarize",
          "exited"}
Outcomes == {"ok", "softFail", "hardFail"}

\* set -euo pipefail (build_macos_m1.sh line 3).
ErrExit == script = "macos"

TypeOK ==
    /\ script \in Scripts
    /\ arg \in Args
    /\ notarize \in NotarizeEnv
    /\ pc \in Steps
    /\ pkgJson \in {"orig", "stamped"}
    /\ origFile \in BOOLEAN
    /\ packCode \in BOOLEAN
    /\ failed \in BOOLEAN
    /\ installer \in BOOLEAN
    /\ status \in {"running", "ok", "fail"}

Init ==
    /\ script \in Scripts
    /\ arg \in Args
    /\ notarize \in NotarizeEnv
    /\ pc = "start"
    /\ pkgJson = "orig"
    /\ origFile = FALSE
    /\ packCode = TRUE
    /\ failed = FALSE
    /\ installer = FALSE
    /\ status = "running"

-----------------------------------------------------------------------------
(* Helpers                                                                 *)

Exit(ok) ==
    /\ pc' = "exited"
    /\ status' = IF ok THEN "ok" ELSE "fail"

\* After a step with outcome o: go on to next, or end the script.
Continue(next, o) ==
    /\ failed' = (failed \/ o # "ok")
    /\ IF o = "hardFail" \/ (o = "softFail" /\ ErrExit)
       THEN Exit(FALSE)
       ELSE /\ pc' = next
            /\ UNCHANGED status

Frozen == UNCHANGED <<script, arg, notarize>>

-----------------------------------------------------------------------------
(* Steps                                                                   *)

\* if [ ! "$1" ]: the Linux scripts need an architecture.
Start ==
    /\ pc = "start"
    /\ IF script # "macos" /\ arg = "none"
       THEN Exit(FALSE)
       ELSE /\ pc' = "prep"
            /\ UNCHANGED status
    /\ UNCHANGED <<pkgJson, origFile, packCode, failed, installer>>
    /\ Frozen

\* pip install, installer-version.py, cd npm_* || exit, npm install,
\* cd .. || exit, rm -rf dist, mkdir dist, pip install pyinstaller.
Prep(o) ==
    /\ pc = "prep"
    /\ Continue("pyinstaller", o)
    /\ UNCHANGED <<pkgJson, origFile, packCode, installer>>
    /\ Frozen

\* pyinstaller; a non-zero LAST_EXIT_CODE exits.
Pyinstaller(ok) ==
    /\ pc = "pyinstaller"
    /\ Continue("npmBuild", IF ok THEN "ok" ELSE "hardFail")
    /\ UNCHANGED <<pkgJson, origFile, packCode, installer>>
    /\ Frozen

\* cp -r dist/daemon, cd || exit, lerna clean, npm install (unchecked),
\* npm run build (checked).
NpmBuild(o) ==
    /\ pc = "npmBuild"
    /\ Continue("stamp", o)
    /\ UNCHANGED <<pkgJson, origFile, packCode, installer>>
    /\ Frozen

\* Variant: jq and mv joined by ; instead of &&, so a failing jq leaves an
\* empty temp.json moved over package.json.
StampSequenced(cdOk, cpOk, jqOk) ==
    /\ pc = "stamp"
    /\ IF ~cdOk \/ (~cpOk /\ ErrExit)
       THEN /\ Continue("package", "hardFail")
            /\ UNCHANGED <<origFile, pkgJson>>
       ELSE /\ origFile' = cpOk
            /\ pkgJson' = IF jqOk THEN "stamped" ELSE "empty"
            /\ failed' = (failed \/ ~cpOk \/ ~jqOk)
            /\ pc' = "package"
            /\ UNCHANGED status
    /\ UNCHANGED <<packCode, installer>>
    /\ Frozen

\* cd packages/gui || exit; cp package.json package.json.orig; jq ... >
\* temp.json && mv temp.json package.json.  cp and jq are unchecked; jq
\* fails inside an && list, which even set -e does not stop at.
Stamp(cdOk, cpOk, jqOk) ==
    /\ pc = "stamp"
    /\ IF ~cdOk \/ (~cpOk /\ ErrExit)
       THEN /\ Continue("package", "hardFail")
            /\ UNCHANGED <<origFile, pkgJson>>
       ELSE /\ origFile' = cpOk
            /\ pkgJson' = IF jqOk THEN "stamped" ELSE pkgJson
            /\ failed' = (failed \/ ~cpOk \/ ~jqOk)
            /\ pc' = "package"
            /\ UNCHANGED status
    /\ UNCHANGED <<packCode, installer>>
    /\ Frozen

\* electron-packager; its status is kept in LAST_EXIT_CODE.  Under set -e a
\* failure ends the script here, before package.json is moved back.
Package(ok) ==
    /\ pc = "package"
    /\ packCode' = ok
    /\ Continue("restore", IF ok THEN "ok" ELSE "softFail")
    /\ UNCHANGED <<pkgJson, origFile, installer>>
    /\ Frozen

\* Variant: package.json is moved back only after the exit-code check.
RestoreAfterCheck ==
    /\ pc = "restore"
    /\ IF ~packCode
       THEN /\ Exit(FALSE)
            /\ UNCHANGED <<pkgJson, origFile>>
       ELSE /\ pkgJson' = IF origFile THEN "orig" ELSE pkgJson
            /\ origFile' = FALSE
            /\ pc' = "checkPackage"
            /\ UNCHANGED status
    /\ UNCHANGED <<packCode, failed, installer>>
    /\ Frozen

\* mv package.json.orig package.json: fails (unchecked) if there is no copy.
Restore ==
    /\ pc = "restore"
    /\ pkgJson' = IF origFile THEN "orig" ELSE pkgJson
    /\ origFile' = FALSE
    /\ Continue("checkPackage", IF origFile THEN "ok" ELSE "softFail")
    /\ UNCHANGED <<packCode, installer>>
    /\ Frozen

\* if [ "$LAST_EXIT_CODE" -ne 0 ]; then exit.  Linux goes on to the
\* installer package, macOS to signing.
CheckPackage ==
    /\ pc = "checkPackage"
    /\ IF packCode
       THEN /\ pc' = IF script = "macos" THEN "sign" ELSE "installer"
            /\ UNCHANGED status
       ELSE Exit(FALSE)
    /\ UNCHANGED <<pkgJson, origFile, packCode, failed, installer>>
    /\ Frozen

\* Variant: the electron-installer-debian exit code is not checked.
InstallerDebUnchecked(o, made) ==
    /\ pc = "installer"
    /\ script = "deb"
    /\ IF o # "hardFail"
       THEN /\ installer' = made
            /\ failed' = (failed \/ o # "ok" \/ ~made)
            /\ Exit(TRUE)
       ELSE /\ Continue("exited", o)
            /\ UNCHANGED installer
    /\ UNCHANGED <<pkgJson, origFile, packCode>>
    /\ Frozen

\* mv $DIR_NAME dist/ (unchecked), cd build_scripts || exit, rm -rf and
\* mkdir final_installer, electron-installer-debian (checked), then
\* ls final_installer/, which succeeds since the directory was made.
InstallerDeb(o, made) ==
    /\ pc = "installer"
    /\ script = "deb"
    /\ IF o # "hardFail" /\ made
       THEN /\ installer' = TRUE
            /\ failed' = (failed \/ o # "ok")
            /\ Exit(TRUE)
       ELSE /\ failed' = TRUE
            /\ Exit(FALSE)
            /\ UNCHANGED installer
    /\ UNCHANGED <<pkgJson, origFile, packCode>>
    /\ Frozen

\* Variant: the platform test compares against the architecture argument
\* instead of the value REDHAT_PLATFORM was given ("x86_64").
BuildsRpmMismatch(a) == a = "x86_64"

\* The rpm is built only where REDHAT_PLATFORM is set, that is for amd64.
BuildsRpm(a) == a = "amd64"

\* mv, cd build_scripts || exit; if REDHAT_PLATFORM is x86_64: three sed
\* patches of electron-installer-redhat (unchecked) and the installer
\* (checked).  ls final_installer/ ends the script: it fails unless the
\* installer made the directory (the runner starts without one).
InstallerRpm(o, made) ==
    /\ pc = "installer"
    /\ script = "rpm"
    /\ IF o # "hardFail" /\ BuildsRpm(arg)
       THEN /\ installer' = made
            /\ failed' = (failed \/ o # "ok" \/ ~made)
            /\ Exit(made)
       ELSE /\ failed' = (failed \/ o # "ok")
            /\ Exit(FALSE)
            /\ UNCHANGED installer
    /\ UNCHANGED <<pkgJson, origFile, packCode>>
    /\ Frozen

\* if [ "$NOTARIZE" ]; then electron-osx-sign ...; fi.  Under set -u an
\* unset NOTARIZE is an error that ends the script; an empty one skips the
\* signing.
SignMacos(ok) ==
    /\ pc = "sign"
    /\ CASE notarize = "unset" -> Exit(FALSE) /\ UNCHANGED failed
          [] notarize = "empty" -> pc' = "dmg" /\ UNCHANGED <<status, failed>>
          [] OTHER              -> Continue("dmg", IF ok THEN "ok" ELSE "hardFail")
    /\ UNCHANGED <<pkgJson, origFile, packCode, installer>>
    /\ Frozen

\* mv the app, cd build_scripts || exit, mkdir final_installer, node
\* build_dmg.js; every failure ends the script under set -e.
DmgMacos(ok) ==
    /\ pc = "dmg"
    /\ installer' = ok
    /\ Continue("notarize", IF ok THEN "ok" ELSE "hardFail")
    /\ UNCHANGED <<pkgJson, origFile, packCode>>
    /\ Frozen

\* if [ "$NOTARIZE" ]: cd final_installer || exit and notarize-cli, whose
\* failure ends the script; otherwise the skip message.  Success ends it.
NotarizeMacos(ok) ==
    /\ pc = "notarize"
    /\ IF notarize = "set" /\ ~ok
       THEN Continue("exited", "hardFail")
       ELSE /\ Exit(TRUE)
            /\ UNCHANGED failed
    /\ UNCHANGED <<pkgJson, origFile, packCode, installer>>
    /\ Frozen

Next ==
    \/ Start
    \/ \E o \in Outcomes : Prep(o) \/ NpmBuild(o)
    \/ \E ok \in BOOLEAN : Pyinstaller(ok) \/ Package(ok)
    \/ \E a, b, c \in BOOLEAN : Stamp(a, b, c)
    \/ Restore
    \/ CheckPackage
    \/ \E o \in Outcomes, made \in BOOLEAN : InstallerDeb(o, made) \/ InstallerRpm(o, made)
    \/ \E ok \in BOOLEAN : SignMacos(ok) \/ DmgMacos(ok) \/ NotarizeMacos(ok)

Spec == Init /\ [][Next]_vars

-----------------------------------------------------------------------------
(* Properties                                                              *)

\* Whenever the script ends, package.json.orig has been moved back: the
\* version stamp written for electron-packager never outlives the run in
\* the GUI's committed package.json.
PackageJsonRestored ==
    status # "running" => ~origFile

\* The deb and rpm scripts, which run without set -e, always reach the mv
\* of package.json.orig, whatever electron-packager or the copy did.
LinuxPackageJsonRestored ==
    script # "macos" => PackageJsonRestored

\* The script exits with status 0 only when it produced the installer, so
\* the CI step that runs it cannot pass without an artifact.
ExitZeroOnlyWithInstaller ==
    status = "ok" => installer

\* A run in which no command fails, on a platform the script builds for,
\* ends with status 0 and the installer.
AllSucceedYieldsInstaller ==
    (status # "running" /\ ~failed /\ (script = "macos" \/ arg # "none")
       /\ (script = "rpm" => arg = "amd64"))
      => status = "ok" /\ installer

=============================================================================
