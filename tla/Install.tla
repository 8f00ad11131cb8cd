------------------------------ MODULE Install ------------------------------
(***************************************************************************)
(* The commands that change the remote host's installation: install,       *)
(* rollback and remove of crates/cxs-cli/src/main.rs with the shell        *)
(* scripts that crates/cxs-install/src/lib.rs runs for them over ssh.  A   *)
(* step is what changes one file or link; the command, and the script it   *)
(* waits for, may stop between any two.                                    *)
(*                                                                         *)
(* One profile and its lock: one command at a time.  Transfers and the     *)
(* shell profile are left out; the bridge is the module Bridge.            *)
(***************************************************************************)
EXTENDS FiniteSets

CONSTANTS
  Versions,      \* versions of Codex
  Shims,         \* builds of the shim
  Codexes,       \* commands the remote user installs at ~/.local/bin/codex
  None,          \* no such file or link
  Managed        \* at ~/.local/bin/codex: the link to current/cxs-shim

\* A release directory is named for the Codex version and the digests of
\* package, shim and configuration.
Releases == [codex: Versions, shim: Shims]
SomeRelease == Releases \cup {None}

ASSUME NamesAssumption == None \notin Releases \cup Codexes /\ Managed \notin Codexes \cup {None}

VARIABLES
  remote,        \* the files of the remote host, see Remote
  profile,       \* profile.json: its status and remote_release
  desktop,       \* the Codex version of the desktop App
  at,            \* the step the running command is at; "idle" when none runs
  purpose,       \* what the script it runs is for
  target,        \* the release being installed, or switched to
  switched_from, \* old_current of the rollback script
  previous_profile,
  said,          \* how the last command ended
  verified,      \* history: releases that once passed verification
  taken,         \* history: the user's commands that install moved away
  purge_cut,     \* history: a purge was stopped inside a release, none has finished since
  found          \* history: current and previous when the command began

locals == <<purpose, target, switched_from, previous_profile, found>>
history == <<verified, taken, purge_cut>>
vars == <<remote, profile, desktop, at, said, history, locals>>

Remote ==
  [releases: SUBSET Releases,      \* directories under releases/
   partial: SUBSET Releases,       \* those of which only a part is left
   current: SomeRelease,
   previous: SomeRelease,
   shim_json: SomeRelease,         \* whose copy is in ~/.config/codex-shuttle
   install_json: SomeRelease,
   owner: BOOLEAN,                 \* the owner file names this profile
   token: BOOLEAN,                 \* the profile's directory with its token
   codex: Codexes \cup {Managed, None},    \* ~/.local/bin/codex
   original: Codexes \cup {None}]          \* original-codex

Profile == [status: {"absent", "prepared", "installed", "ready"}, release: SomeRelease]
InstallSteps ==
  {"stage", "token", "previous", "current", "config", "metadata", "own", "original", "link", "activated",
   "save", "verify", "ready"}
SwitchSteps == {"switch", "switch_current", "switch_previous", "switch_metadata", "switch_config", "switched"}
RemoveSteps == {"owned", "unlink", "restore", "unconfigure", "disown", "forget", "purge", "removed"}
Purposes == {"install", "rollback", "recover", "undo", "remove", "remove_purge"}

TypeOK ==
  /\ remote \in Remote
  /\ profile \in Profile
  /\ previous_profile \in Profile
  /\ desktop \in Versions
  /\ at \in {"idle"} \cup InstallSteps \cup SwitchSteps \cup RemoveSteps
  /\ purpose \in Purposes
  /\ target \in SomeRelease /\ (at \in InstallSteps \cup (SwitchSteps \ {"switch"}) => target \in Releases)
  /\ switched_from \in SomeRelease
  /\ found \in [current: SomeRelease, previous: SomeRelease]
  /\ purge_cut \in BOOLEAN
  /\ said \in {"nothing", "ready", "recovered", "restored", "prepared", "removed", "failed"}
  /\ verified \subseteq Releases
  /\ taken \subseteq Codexes

\* A profile just added, a host without Shuttle.
Init ==
  /\ \E c \in Codexes \cup {None} :
       remote = [releases |-> {}, partial |-> {}, current |-> None, previous |-> None, shim_json |-> None,
                 install_json |-> None, owner |-> FALSE, token |-> FALSE, codex |-> c, original |-> None]
  /\ profile = [status |-> "prepared", release |-> None]
  /\ previous_profile = profile
  /\ desktop \in Versions
  /\ at = "idle"
  /\ purpose = "install"
  /\ target = None
  /\ switched_from = None
  /\ found = [current |-> None, previous |-> None]
  /\ said = "nothing"
  /\ verified = {}
  /\ taken = {}
  /\ purge_cut = FALSE

-----------------------------------------------------------------------------
(* Commands *)

Begin(step, why) ==
  /\ at = "idle"
  /\ profile.status # "absent"
  /\ at' = step
  /\ purpose' = why
  /\ previous_profile' = profile
  /\ switched_from' = None
  /\ found' = [current |-> remote.current, previous |-> remote.previous]
  /\ said' = "nothing"
  /\ UNCHANGED <<remote, profile, desktop, history>>

GoesTo(step) ==
  /\ at' = step
  /\ UNCHANGED <<said, locals>>

\* The command ends and forgets what it knew.
Ends(result) ==
  /\ at' = "idle"
  /\ said' = result
  /\ target' = None
  /\ UNCHANGED <<purpose, switched_from, previous_profile, found>>

\* install: the candidate is the desktop's version with some shim.
Install(shim) ==
  /\ Begin("stage", "install")
  /\ target' = [codex |-> desktop, shim |-> shim]

Rollback == Begin("switch", "rollback") /\ target' = None

\* remove --remote, with or without --purge.
RemoveRemote(why) == Begin("owned", why) /\ target' = None

\* add after remove, and remove without --remote.
Add ==
  /\ at = "idle"
  /\ profile.status = "absent"
  /\ profile' = [status |-> "prepared", release |-> None]
  /\ said' = "nothing"
  /\ UNCHANGED <<remote, desktop, at, locals, history>>

RemoveLocal ==
  /\ at = "idle"
  /\ profile.status # "absent"
  /\ profile' = [status |-> "absent", release |-> None]
  /\ said' = "nothing"
  /\ UNCHANGED <<remote, desktop, at, locals, history>>

-----------------------------------------------------------------------------
(* Scripts *)

\* One step of a script: it turns the remote files into files.
Step(from, to, files) ==
  /\ at = from
  /\ remote' = files
  /\ GoesTo(to)
  /\ UNCHANGED <<profile, desktop, history>>

\* The installation script.  The staged and checked package becomes the
\* release directory, unless that exists: then it is thrown away, and what is
\* there, a part of a release too, stays as it is.
Stage == Step("stage", "token", [remote EXCEPT !.releases = @ \cup {target}])

WriteToken == Step("token", "previous", [remote EXCEPT !.token = TRUE])

KeepPrevious ==
  Step("previous", "current",
       IF remote.current \in {None, target} THEN remote ELSE [remote EXCEPT !.previous = remote.current])

SwitchCurrent == Step("current", "config", [remote EXCEPT !.current = target])

\* Defect: the configuration of the old release stays.
CopyConfig_Skipped == Step("config", "metadata", remote)

CopyConfig == Step("config", "metadata", [remote EXCEPT !.shim_json = target])

CopyMetadata == Step("metadata", "own", [remote EXCEPT !.install_json = target])

Own == Step("own", "original", [remote EXCEPT !.owner = TRUE])

\* Defect: a saved command is replaced.
SaveOriginal_Overwrites ==
  IF remote.codex \in Codexes
  THEN /\ at = "original"
       /\ remote' = [remote EXCEPT !.original = remote.codex, !.codex = None]
       /\ taken' = taken \cup {remote.codex}
       /\ GoesTo("link")
       /\ UNCHANGED <<profile, desktop, verified, purge_cut>>
  ELSE Step("original", "link", remote)

\* The user's own command is moved away; the script refuses to replace one
\* it moved earlier.
SaveOriginal ==
  IF remote.codex \in Codexes
  THEN /\ at = "original"
       /\ remote.original = None
       /\ remote' = [remote EXCEPT !.original = remote.codex, !.codex = None]
       /\ taken' = taken \cup {remote.codex}
       /\ GoesTo("link")
       /\ UNCHANGED <<profile, desktop, verified, purge_cut>>
  ELSE Step("original", "link", remote)

Link == Step("link", "activated", [remote EXCEPT !.codex = Managed])

\* The link may have been replaced again; the script runs what is there.
Activated == remote.codex # None /\ Step("activated", "save", remote)

\* The rollback script, which looks neither at the owner nor at the status.
SwitchCheck ==
  /\ at = "switch"
  /\ remote.previous \in remote.releases
  /\ remote.current # None
  /\ at' = "switch_current"
  /\ target' = remote.previous
  /\ switched_from' = remote.current
  /\ UNCHANGED <<remote, profile, desktop, said, history, purpose, previous_profile, found>>

SwitchBack == Step("switch_current", "switch_previous", [remote EXCEPT !.current = target])

\* Defect: previous stays.
SwitchPrevious_Skipped == Step("switch_previous", "switch_metadata", remote)

SwitchPrevious == Step("switch_previous", "switch_metadata", [remote EXCEPT !.previous = switched_from])

SwitchMetadata == Step("switch_metadata", "switch_config", [remote EXCEPT !.install_json = target])

SwitchConfig == Step("switch_config", "switched", [remote EXCEPT !.shim_json = target])

\* The removal script.
CheckOwner == remote.owner /\ Step("owned", "unlink", remote)

\* Defect: the link stays when the owner, configuration and token go.
Unlink_Skipped == Step("unlink", "restore", remote)

Unlink == Step("unlink", "restore", IF remote.codex = Managed THEN [remote EXCEPT !.codex = None] ELSE remote)

\* mv onto the link, whatever is there.
Restore ==
  Step("restore", "unconfigure",
       IF remote.original = None THEN remote ELSE [remote EXCEPT !.codex = remote.original, !.original = None])

Unconfigure == Step("unconfigure", "disown", [remote EXCEPT !.shim_json = None, !.install_json = None])

Disown == Step("disown", "forget", [remote EXCEPT !.owner = FALSE])

Forget == Step("forget", IF purpose = "remove_purge" THEN "purge" ELSE "removed", [remote EXCEPT !.token = FALSE])

Purge ==
  /\ at = "purge"
  /\ remote' = [remote EXCEPT !.releases = {}, !.partial = {}, !.current = None, !.previous = None, !.original = None]
  /\ purge_cut' = FALSE
  /\ GoesTo("removed")
  /\ UNCHANGED <<profile, desktop, verified, taken>>

\* find -depth -delete goes through the directories file by file.  It stops
\* half-way: some are gone, others stay, and the one it was at (or None) in part.
PurgeStops ==
  /\ at = "purge"
  /\ \E kept \in SUBSET remote.releases, c \in {remote.current, None}, p \in {remote.previous, None} :
     \E cut \in kept \cup {None} :
       /\ remote' = [remote EXCEPT !.releases = kept, !.partial = kept \cap (@ \cup {cut}), !.current = c, !.previous = p]
       /\ purge_cut' = (purge_cut \/ cut # None)
  /\ Ends("failed")
  /\ UNCHANGED <<profile, desktop, verified, taken>>

-----------------------------------------------------------------------------
(* What the command does when a script has ended *)

\* install saves the profile before it verifies.
SaveInstalled ==
  /\ at = "save"
  /\ profile' = [status |-> "installed", release |-> target]
  /\ GoesTo("verify")
  /\ UNCHANGED <<remote, desktop, history>>

\* up and the probe succeed; up wants the desktop's version.
VerifySucceeds ==
  /\ at = "verify"
  /\ profile.release.codex = desktop
  /\ remote.codex = Managed
  /\ verified' = verified \cup {remote.current}
  /\ GoesTo("ready")
  /\ UNCHANGED <<remote, profile, desktop, taken, purge_cut>>

SaveReady ==
  /\ at = "ready"
  /\ profile' = [profile EXCEPT !.status = "ready"]
  /\ Ends("ready")
  /\ UNCHANGED <<remote, desktop, history>>

\* recover_failed_install: a first install is removed again, any other is
\* rolled back; and the recovery of rollback.
VerifyFails ==
  /\ at = "verify"
  /\ at' = IF purpose = "install" /\ previous_profile.status = "prepared" THEN "owned" ELSE "switch"
  /\ purpose' = IF purpose = "install" THEN "recover" ELSE "undo"
  /\ UNCHANGED <<remote, profile, desktop, said, history, target, switched_from, previous_profile, found>>

\* Defect: the release that was there before counts as verified.
AfterSwitch_Ready ==
  /\ at = "switched"
  /\ remote.codex # None
  /\ CASE purpose = "rollback" ->
            profile' = [status |-> "installed", release |-> target] /\ GoesTo("verify")
       [] purpose = "recover" ->
            profile' = [status |-> "ready", release |-> target] /\ Ends("recovered")
       [] OTHER ->
            profile' = previous_profile /\ Ends("restored")
  /\ UNCHANGED <<remote, desktop, history>>

\* The rollback script ends by running ~/.local/bin/codex.  Its metadata is
\* the new profile; the undone rollback restores the old one.
AfterSwitch ==
  /\ at = "switched"
  /\ remote.codex # None
  /\ CASE purpose = "rollback" ->
            profile' = [status |-> "installed", release |-> target] /\ GoesTo("verify")
       [] purpose = "recover" ->
            profile' = [status |-> "installed", release |-> target] /\ Ends("recovered")
       [] OTHER ->
            profile' = previous_profile /\ Ends("restored")
  /\ UNCHANGED <<remote, desktop, history>>

AfterRemove ==
  /\ at = "removed"
  /\ IF purpose = "recover"
     THEN profile' = previous_profile /\ Ends("prepared")
     ELSE profile' = [status |-> "absent", release |-> None] /\ Ends("removed")
  /\ UNCHANGED <<remote, desktop, history>>

\* A step of the script fails, ssh fails, or the command is interrupted or
\* crashes.
Stop ==
  /\ at # "idle"
  /\ Ends("failed")
  /\ UNCHANGED <<remote, profile, desktop, history>>

-----------------------------------------------------------------------------
(* The rest of the world *)

\* The App updates itself, or is replaced by an older one.
DesktopChanges ==
  /\ desktop' \in Versions \ {desktop}
  /\ UNCHANGED <<remote, profile, at, locals, said, history>>

\* The remote user installs a command at ~/.local/bin/codex.
UserInstalls(c) ==
  /\ c \notin {remote.codex, remote.original}
  /\ remote' = [remote EXCEPT !.codex = c]
  /\ taken' = taken \ {remote.codex}
  /\ UNCHANGED <<profile, desktop, at, locals, said, verified, purge_cut>>

InstallScript ==
  \/ Stage \/ WriteToken \/ KeepPrevious \/ SwitchCurrent \/ CopyConfig \/ CopyMetadata \/ Own
  \/ SaveOriginal \/ Link \/ Activated

RollbackScript == SwitchCheck \/ SwitchBack \/ SwitchPrevious \/ SwitchMetadata \/ SwitchConfig

RemoveScript ==
  \/ CheckOwner \/ Unlink \/ Restore \/ Unconfigure \/ Disown \/ Forget \/ Purge \/ PurgeStops

Next ==
  \/ (\E shim \in Shims : Install(shim)) \/ Rollback \/ (\E why \in {"remove", "remove_purge"} : RemoveRemote(why))
  \/ Add \/ RemoveLocal
  \/ InstallScript \/ RollbackScript \/ RemoveScript
  \/ SaveInstalled \/ VerifySucceeds \/ SaveReady \/ VerifyFails \/ AfterSwitch \/ AfterRemove \/ Stop
  \/ DesktopChanges \/ \E c \in Codexes : UserInstalls(c)

Spec == Init /\ [][Next]_vars

-----------------------------------------------------------------------------
(* Properties *)

\* Wherever a script stopped, a link at ~/.local/bin/codex that leads to the
\* shim leads to a release, with its configuration and the token: the shim
\* never starts without what it reads.  The one exception: of the release only
\* a part may be there once a purge was stopped inside a directory and none
\* has finished since.  An install of that release keeps the part and links the
\* shim to it before it finds out.
ActiveUsable ==
  remote.codex = Managed =>
    /\ remote.current \in remote.releases
    /\ remote.current \in remote.partial => purge_cut
    /\ remote.shim_json \in remote.releases
    /\ remote.token

\* When an install or rollback ends well, or was recovered, the profile, the
\* links and both copies of the configuration speak of the same release,
\* whatever earlier commands left behind.
SuccessAgrees ==
  at = "idle" /\ said \in {"ready", "recovered"} =>
    {remote.current, remote.shim_json, remote.install_json} = {profile.release}

\* A profile is ready only with a release that passed verification, through
\* recoveries that restore what a profile was before.
ReadyVerified == profile.status = "ready" => profile.release \in verified

\* A rollback that fails its verification and is undone leaves what it found:
\* both links, so that the next rollback goes where this one went, the copies
\* of the configuration of the current release, and the profile.
RollbackUndone ==
  at = "idle" /\ said = "restored" =>
    /\ [current |-> remote.current, previous |-> remote.previous] = found
    /\ {remote.shim_json, remote.install_json} = {found.current}
    /\ profile = previous_profile

\* A command of the user that install moved away is kept or back in place, and
\* back in place once a removal, or the recovery of a first install, has ended
\* well, unless the user replaced it.
OriginalKept ==
  /\ taken \subseteq {remote.codex, remote.original}
  /\ at = "idle" /\ said \in {"removed", "prepared"} => taken \subseteq {remote.codex}
=============================================================================
