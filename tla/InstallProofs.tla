---------------------------- MODULE InstallProofs -----------------------------
(***************************************************************************)
(* Wherever the commands that change a remote installation stop, what they *)
(* leave is usable, agrees or is undone: theorems of Install for every set *)
(* of versions, shims and commands of the user.                            *)
(***************************************************************************)
EXTENDS Install, TLAPS

\* The steps of a script after one of them.
AfterStage == InstallSteps \ {"stage"}
AfterToken == AfterStage \ {"token"}
AfterCurrent == AfterToken \ {"previous", "current"}
AfterConfig == AfterCurrent \ {"config"}
AfterMetadata == AfterConfig \ {"metadata"}
AfterCheck == SwitchSteps \ {"switch"}
AfterSwitchCurrent == AfterCheck \ {"switch_current"}
AfterSwitchPrevious == AfterSwitchCurrent \ {"switch_previous"}
AfterSwitchMetadata == AfterSwitchPrevious \ {"switch_metadata"}
AfterUnlink == RemoveSteps \ {"owned", "unlink"}
AfterRestore == AfterUnlink \ {"restore"}
Verifying == {"verify", "ready"}

\* Which script runs for which command.
PurposeInv ==
  /\ at \in InstallSteps \ Verifying => purpose = "install"
  /\ at \in Verifying => purpose \in {"install", "rollback"}
  /\ at \in SwitchSteps => purpose \in {"rollback", "recover", "undo"}

\* What the steps so far have made of the links and files.
ScriptInv ==
  /\ at \in (AfterStage \ Verifying) \cup AfterCheck => target \in remote.releases
  /\ at \in AfterToken \ Verifying => remote.token
  /\ at \in AfterCurrent \cup AfterSwitchCurrent => remote.current = target
  /\ at \in AfterConfig \cup {"switched"} => remote.shim_json = target
  /\ at \in AfterMetadata \cup AfterSwitchMetadata => remote.install_json = target
  /\ at \in AfterUnlink => remote.codex # Managed
  /\ at \in AfterRestore => remote.original = None

\* What the profile is, and was before.
ProfileInv ==
  /\ at \in Verifying => profile.release = target
  /\ at = "ready" => target \in verified
  /\ previous_profile.status = "ready" => previous_profile.release \in verified

\* A rollback exchanges the two links it found, and undoing it exchanges them
\* again.
FoundInv ==
  /\ purpose = "rollback" =>
       /\ at \in {"switch", "switch_current"} => remote.current = found.current
       /\ at \in {"switch", "switch_current", "switch_previous"} => remote.previous = found.previous
       /\ at \in AfterCheck => switched_from = found.current
       /\ at \in AfterCheck \cup {"verify"} => target = found.previous
       /\ at \in AfterSwitchPrevious \cup {"verify"} => remote.previous = found.current
  /\ purpose = "undo" =>
       /\ at = "switch" => remote.current = found.previous /\ remote.previous = found.current
       /\ at \in AfterCheck => switched_from = found.previous /\ target = found.current
       /\ at \in AfterSwitchPrevious => remote.previous = found.previous

\* There are parts of releases only where a purge was cut off.
PartInv ==
  /\ remote.partial \subseteq remote.releases
  /\ remote.partial # {} => purge_cut

\* A command of the user is in one place, and none is where a link is made.
OriginalInv ==
  /\ remote.codex \in taken => remote.original = None
  /\ at = "link" => remote.codex \notin taken

InstallInv ==
  /\ TypeOK
  /\ PurposeInv /\ ScriptInv /\ ProfileInv /\ FoundInv /\ PartInv /\ OriginalInv
  /\ ActiveUsable /\ SuccessAgrees /\ ReadyVerified /\ RollbackUndone /\ OriginalKept

-----------------------------------------------------------------------------
(* Types *)

LEMMA RemoteType ==
  ASSUME remote \in Remote
  PROVE  /\ remote.releases \subseteq Releases /\ remote.partial \subseteq Releases
         /\ remote.current \in SomeRelease /\ remote.previous \in SomeRelease
         /\ remote.shim_json \in SomeRelease /\ remote.install_json \in SomeRelease
         /\ remote.owner \in BOOLEAN /\ remote.token \in BOOLEAN
         /\ remote.codex \in Codexes \cup {Managed, None}
         /\ remote.original \in Codexes \cup {None}
  BY DEF Remote

LEMMA InitTypeOK == Init => TypeOK
  <1> SUFFICES ASSUME Init PROVE TypeOK
    OBVIOUS
  <1>1. remote \in Remote
    BY DEF Init, Remote, SomeRelease
  <1>2. profile \in Profile /\ previous_profile \in Profile
    BY DEF Init, Profile, SomeRelease
  <1>3. found \in [current: SomeRelease, previous: SomeRelease]
    BY DEF Init, SomeRelease
  <1>4. at \notin InstallSteps \cup (SwitchSteps \ {"switch"})
    BY DEF Init, InstallSteps, SwitchSteps
  <1>5. QED
    BY <1>1, <1>2, <1>3, <1>4 DEF Init, TypeOK, SomeRelease, Purposes

LEMMA CommandTypeStep ==
  ASSUME TypeOK,
         \/ \E shim \in Shims : Install(shim)
         \/ Rollback \/ Add \/ RemoveLocal
         \/ \E why \in {"remove", "remove_purge"} : RemoveRemote(why)
  PROVE  TypeOK'
  <1>1. ASSUME NEW shim \in Shims, Install(shim)
        PROVE  TypeOK'
    <2>1. [codex |-> desktop, shim |-> shim] \in Releases
      BY DEF TypeOK, Releases
    <2>2. QED
      BY <1>1, <2>1 DEF TypeOK, Install, Begin, Remote, InstallSteps, Purposes, SomeRelease, history
  <1>2. CASE Rollback
    BY <1>2 DEF TypeOK, Rollback, Begin, Remote, InstallSteps, SwitchSteps, Purposes, SomeRelease, history
  <1>3. ASSUME NEW why \in {"remove", "remove_purge"}, RemoveRemote(why)
        PROVE  TypeOK'
    BY <1>3 DEF TypeOK, RemoveRemote, Begin, Remote, InstallSteps, SwitchSteps, RemoveSteps, Purposes, SomeRelease, history
  <1>4. CASE Add \/ RemoveLocal
    BY <1>4 DEF TypeOK, Add, RemoveLocal, Profile, SomeRelease, history, locals
  <1>5. QED
    BY <1>1, <1>2, <1>3, <1>4

LEMMA StepType ==
  ASSUME TypeOK, NEW from, NEW to, NEW files \in Remote, Step(from, to, files),
         to \in InstallSteps \cup SwitchSteps \cup RemoveSteps,
         to \in InstallSteps \cup AfterCheck => target \in Releases
  PROVE  TypeOK'
  BY DEF TypeOK, Step, GoesTo, history, locals, AfterCheck

LEMMA ScriptTypeStep ==
  ASSUME TypeOK, InstallScript \/ RollbackScript \/ RemoveScript
  PROVE  TypeOK'
  <1>1. CASE Stage \/ WriteToken \/ KeepPrevious \/ SwitchCurrent \/ CopyConfig \/ CopyMetadata \/ Own \/ Link \/ Activated
    <2>1. at \in InstallSteps /\ target \in Releases
      BY <1>1 DEF TypeOK, Stage, WriteToken, KeepPrevious, SwitchCurrent, CopyConfig, CopyMetadata, Own, Link, Activated,
                  Step, InstallSteps
    <2>2. remote \in Remote
      BY DEF TypeOK
    <2>3. /\ [remote EXCEPT !.releases = @ \cup {target}] \in Remote
          /\ [remote EXCEPT !.token = TRUE] \in Remote
          /\ [remote EXCEPT !.previous = remote.current] \in Remote
          /\ [remote EXCEPT !.current = target] \in Remote
      BY <2>1, <2>2 DEF Remote, SomeRelease
    <2>4. /\ [remote EXCEPT !.shim_json = target] \in Remote
          /\ [remote EXCEPT !.install_json = target] \in Remote
          /\ [remote EXCEPT !.owner = TRUE] \in Remote
          /\ [remote EXCEPT !.codex = Managed] \in Remote
      BY <2>1, <2>2 DEF Remote, SomeRelease
    <2>5. CASE Stage \/ WriteToken \/ KeepPrevious
      BY <2>1, <2>2, <2>3, <2>5, StepType DEF Stage, WriteToken, KeepPrevious, InstallSteps
    <2>6. CASE SwitchCurrent \/ CopyConfig \/ CopyMetadata
      BY <2>1, <2>3, <2>4, <2>6, StepType DEF SwitchCurrent, CopyConfig, CopyMetadata, InstallSteps
    <2>7. CASE Own \/ Link \/ Activated
      BY <2>1, <2>2, <2>4, <2>7, StepType DEF Own, Link, Activated, InstallSteps
    <2>8. QED
      BY <1>1, <2>5, <2>6, <2>7
  <1>2. CASE SaveOriginal
    <2>1. remote' \in Remote
      <3>1. CASE remote.codex \in Codexes
        <4>1. remote' = [remote EXCEPT !.original = remote.codex, !.codex = None]
          BY <1>2, <3>1 DEF SaveOriginal
        <4>2. remote \in Remote
          BY DEF TypeOK
        <4>3. QED
          BY <3>1, <4>1, <4>2 DEF Remote
      <3>2. CASE remote.codex \notin Codexes
        BY <1>2, <3>2 DEF SaveOriginal, Step, TypeOK
      <3>3. QED
        BY <3>1, <3>2
    <2>2. taken' \subseteq Codexes
      BY <1>2 DEF TypeOK, SaveOriginal, Step, history
    <2>3. at = "original" /\ at' = "link" /\ UNCHANGED <<profile, desktop, said, verified, purge_cut, locals>>
      BY <1>2 DEF SaveOriginal, Step, GoesTo, history
    <2>4. QED
      BY <2>1, <2>2, <2>3 DEF TypeOK, locals, InstallSteps, SwitchSteps
  <1>3. CASE SwitchCheck
    BY <1>3 DEF TypeOK, SwitchCheck, Remote, InstallSteps, SwitchSteps, SomeRelease, history
  <1>4. CASE SwitchBack \/ SwitchPrevious \/ SwitchMetadata \/ SwitchConfig
    BY <1>4 DEF TypeOK, SwitchBack, SwitchPrevious, SwitchMetadata, SwitchConfig, Step, GoesTo, history, locals, Remote,
                InstallSteps, SwitchSteps, SomeRelease
  <1>5. CASE CheckOwner \/ Unlink \/ Restore \/ Unconfigure \/ Disown \/ Forget \/ Purge
    <2>1. remote \in Remote
      BY DEF TypeOK
    <2>2. /\ [remote EXCEPT !.codex = None] \in Remote
          /\ [remote EXCEPT !.codex = remote.original, !.original = None] \in Remote
          /\ [remote EXCEPT !.shim_json = None, !.install_json = None] \in Remote
      BY <2>1 DEF Remote, SomeRelease
    <2>3. /\ [remote EXCEPT !.owner = FALSE] \in Remote
          /\ [remote EXCEPT !.token = FALSE] \in Remote
          /\ [remote EXCEPT !.releases = {}, !.partial = {}, !.current = None, !.previous = None, !.original = None] \in Remote
      BY <2>1 DEF Remote, SomeRelease
    <2>4. \A step \in RemoveSteps : step \notin InstallSteps \cup AfterCheck
      BY DEF RemoveSteps, InstallSteps, AfterCheck, SwitchSteps
    <2>5. CASE CheckOwner \/ Unlink \/ Restore
      BY <2>1, <2>2, <2>4, <2>5, StepType DEF CheckOwner, Unlink, Restore, RemoveSteps
    <2>6. CASE Unconfigure \/ Disown \/ Forget
      BY <2>1, <2>2, <2>3, <2>4, <2>6, StepType DEF Unconfigure, Disown, Forget, RemoveSteps
    <2>7. CASE Purge
      <3>1. at' = "removed" /\ remote' \in Remote /\ purge_cut' \in BOOLEAN
        BY <2>3, <2>7 DEF Purge, GoesTo
      <3>2. at' \in RemoveSteps /\ at' \notin InstallSteps \cup (SwitchSteps \ {"switch"})
        BY <3>1 DEF RemoveSteps, InstallSteps, SwitchSteps
      <3>3. QED
        BY <2>7, <3>1, <3>2 DEF Purge, TypeOK, GoesTo, locals
    <2>8. QED
      BY <1>5, <2>5, <2>6, <2>7
  <1>6. CASE PurgeStops
    <2>1. PICK kept \in SUBSET remote.releases, c \in {remote.current, None}, p \in {remote.previous, None} :
          \E cut \in kept \cup {None} :
            /\ remote' = [remote EXCEPT !.releases = kept, !.partial = kept \cap (@ \cup {cut}),
                                        !.current = c, !.previous = p]
            /\ purge_cut' = (purge_cut \/ cut # None)
      BY <1>6 DEF PurgeStops
    <2>2. remote \in Remote
      BY DEF TypeOK
    <2>3. kept \subseteq Releases /\ c \in SomeRelease /\ p \in SomeRelease
      BY <2>2, RemoteType DEF SomeRelease
    <2>4. PICK cut \in kept \cup {None} :
            /\ remote' = [remote EXCEPT !.releases = kept, !.partial = kept \cap (@ \cup {cut}),
                                        !.current = c, !.previous = p]
            /\ purge_cut' = (purge_cut \/ cut # None)
      BY <2>1
    <2>5. kept \cap (remote.partial \cup {cut}) \subseteq Releases
      BY <2>3
    <2>6. remote' \in Remote
      BY <2>2, <2>3, <2>4, <2>5 DEF Remote
    <2>7. purge_cut' \in BOOLEAN
      BY <2>4 DEF TypeOK
    <2>8. QED
      BY <1>6, <2>6, <2>7 DEF TypeOK, PurgeStops, Ends, InstallSteps, SwitchSteps, SomeRelease
  <1>7. QED
    BY <1>1, <1>2, <1>3, <1>4, <1>5, <1>6 DEF InstallScript, RollbackScript, RemoveScript

LEMMA ResultTypeStep ==
  ASSUME TypeOK, ScriptInv,
         \/ SaveInstalled \/ VerifySucceeds \/ SaveReady \/ VerifyFails \/ AfterSwitch \/ AfterRemove \/ Stop
         \/ DesktopChanges \/ \E c \in Codexes : UserInstalls(c)
  PROVE  TypeOK'
  <1>1. CASE SaveInstalled \/ SaveReady \/ AfterSwitch \/ AfterRemove
    BY <1>1 DEF TypeOK, SaveInstalled, SaveReady, AfterSwitch, AfterRemove, GoesTo, Ends, history, locals, Profile,
                InstallSteps, SwitchSteps, RemoveSteps, SomeRelease
  <1>2. CASE VerifySucceeds
    <2>1. remote.current = target /\ target \in Releases
      BY <1>2 DEF VerifySucceeds, TypeOK, ScriptInv, AfterCurrent, AfterToken, AfterStage, InstallSteps
    <2>2. QED
      BY <1>2, <2>1 DEF TypeOK, VerifySucceeds, GoesTo, locals, InstallSteps, SwitchSteps
  <1>3. CASE VerifyFails \/ Stop \/ DesktopChanges
    BY <1>3 DEF TypeOK, VerifyFails, Stop, DesktopChanges, Ends, history, locals, InstallSteps, SwitchSteps, RemoveSteps,
                Purposes, SomeRelease
  <1>4. ASSUME NEW c \in Codexes, UserInstalls(c)
        PROVE  TypeOK'
    BY <1>4 DEF TypeOK, UserInstalls, Remote, locals
  <1>5. QED
    BY <1>1, <1>2, <1>3, <1>4

LEMMA TypeStep == InstallInv /\ [Next]_vars => TypeOK'
  <1> SUFFICES ASSUME InstallInv, [Next]_vars PROVE TypeOK'
    OBVIOUS
  <1>1. TypeOK /\ ScriptInv
    BY DEF InstallInv
  <1>2. CASE UNCHANGED vars
    BY <1>1, <1>2 DEF TypeOK, vars, history, locals
  <1>3. QED
    BY <1>1, <1>2, CommandTypeStep, ScriptTypeStep, ResultTypeStep DEF Next

-----------------------------------------------------------------------------
(* The script that runs, and what its steps so far have done *)

USE DEF AfterStage, AfterToken, AfterCurrent, AfterConfig, AfterMetadata, AfterCheck, AfterSwitchCurrent,
        AfterSwitchPrevious, AfterSwitchMetadata, AfterUnlink, AfterRestore, Verifying,
        InstallSteps, SwitchSteps, RemoveSteps

LEMMA PurposeStep == InstallInv /\ [Next]_vars => PurposeInv'
  <1> SUFFICES ASSUME InstallInv, [Next]_vars PROVE PurposeInv'
    OBVIOUS
  <1>1. PurposeInv /\ TypeOK
    BY DEF InstallInv
  <1>2. CASE UNCHANGED vars
    BY <1>1, <1>2 DEF PurposeInv, vars, history, locals
  <1>3. CASE \/ \E shim \in Shims : Install(shim)
             \/ Rollback \/ Add \/ RemoveLocal
             \/ \E why \in {"remove", "remove_purge"} : RemoveRemote(why)
    BY <1>1, <1>3 DEF PurposeInv, Install, Rollback, RemoveRemote, Begin, Add, RemoveLocal, locals
  <1>4. CASE InstallScript
    <2>1. purpose' = purpose /\ at \in InstallSteps \ Verifying /\ at' \in InstallSteps \ Verifying
      BY <1>4 DEF InstallScript, Stage, WriteToken, KeepPrevious, SwitchCurrent, CopyConfig, CopyMetadata, Own,
                  SaveOriginal, Link, Activated, Step, GoesTo, locals
    <2>2. QED
      BY <1>1, <2>1 DEF PurposeInv
  <1>5. CASE RollbackScript
    <2>1. purpose' = purpose /\ at \in SwitchSteps /\ at' \in SwitchSteps
      BY <1>5 DEF RollbackScript, SwitchCheck, SwitchBack, SwitchPrevious, SwitchMetadata, SwitchConfig, Step, GoesTo, locals
    <2>2. QED
      BY <1>1, <2>1 DEF PurposeInv
  <1>6. CASE RemoveScript
    <2>1. at' \in RemoveSteps \cup {"idle"}
      BY <1>6 DEF RemoveScript, CheckOwner, Unlink, Restore, Unconfigure, Disown, Forget, Purge, PurgeStops, Ends, Step, GoesTo
    <2>2. QED
      BY <2>1 DEF PurposeInv
  <1>7. CASE SaveInstalled \/ VerifySucceeds \/ SaveReady \/ VerifyFails \/ AfterSwitch \/ AfterRemove \/ Stop
    BY <1>1, <1>7 DEF PurposeInv, SaveInstalled, VerifySucceeds, SaveReady, VerifyFails, AfterSwitch, AfterRemove, Stop,
                      Ends, GoesTo, locals
  <1>8. CASE DesktopChanges \/ \E c \in Codexes : UserInstalls(c)
    BY <1>1, <1>8 DEF PurposeInv, DesktopChanges, UserInstalls, locals
  <1>9. QED
    BY <1>2, <1>3, <1>4, <1>5, <1>6, <1>7, <1>8 DEF Next

LEMMA ScriptStep == InstallInv /\ [Next]_vars => ScriptInv'
  <1> SUFFICES ASSUME InstallInv, [Next]_vars PROVE ScriptInv'
    OBVIOUS
  <1>1. PurposeInv /\ TypeOK /\ ScriptInv /\ remote \in Remote
    BY DEF InstallInv, TypeOK
  <1>2. CASE UNCHANGED vars
    BY <1>1, <1>2 DEF ScriptInv, vars, history, locals
  <1>3. CASE \/ \E shim \in Shims : Install(shim)
             \/ Rollback \/ Add \/ RemoveLocal
             \/ \E why \in {"remove", "remove_purge"} : RemoveRemote(why)
    BY <1>1, <1>3 DEF ScriptInv, Install, Rollback, RemoveRemote, Begin, Add, RemoveLocal, locals
  <1>4. CASE Stage \/ WriteToken \/ KeepPrevious
    BY <1>1, <1>4 DEF ScriptInv, Remote, Stage, WriteToken, KeepPrevious, Step, GoesTo, locals
  <1>5. CASE SwitchCurrent \/ CopyConfig \/ CopyMetadata
    BY <1>1, <1>5 DEF ScriptInv, Remote, SwitchCurrent, CopyConfig, CopyMetadata, Step, GoesTo, locals
  <1>6. CASE Own \/ SaveOriginal \/ Link \/ Activated
    <2>1. CASE Own
      BY <1>1, <2>1 DEF ScriptInv, Remote, Own, Step, GoesTo, locals
    <2>2. CASE SaveOriginal
      <3>1. at = "original" /\ at' = "link" /\ target' = target
        BY <2>2 DEF SaveOriginal, Step, GoesTo, locals
      <3>2. /\ remote'.releases = remote.releases /\ remote'.token = remote.token
            /\ remote'.current = remote.current
            /\ remote'.shim_json = remote.shim_json /\ remote'.install_json = remote.install_json
        BY <1>1, <2>2 DEF SaveOriginal, Step, Remote
      <3>3. QED
        BY <1>1, <3>1, <3>2 DEF ScriptInv
    <2>3. CASE Link
      BY <1>1, <2>3 DEF ScriptInv, Remote, Link, Step, GoesTo, locals
    <2>4. CASE Activated
      BY <1>1, <2>4 DEF ScriptInv, Activated, Step, GoesTo, locals
    <2>5. QED
      BY <1>6, <2>1, <2>2, <2>3, <2>4
  <1>7. CASE RollbackScript
    BY <1>1, <1>7 DEF ScriptInv, Remote, RollbackScript, SwitchCheck, SwitchBack, SwitchPrevious, SwitchMetadata, SwitchConfig,
                      Step, GoesTo, locals
  <1>8. CASE CheckOwner \/ Unlink \/ Restore \/ Unconfigure
    BY <1>1, <1>8, NamesAssumption, RemoteType DEF ScriptInv, Remote, CheckOwner, Unlink, Restore, Unconfigure, Step, GoesTo, locals
  <1>9. CASE Disown \/ Forget \/ Purge \/ PurgeStops
    BY <1>1, <1>9 DEF ScriptInv, Remote, Disown, Forget, Purge, PurgeStops, Ends, Step, GoesTo, locals
  <1>10. CASE SaveInstalled \/ VerifySucceeds \/ SaveReady \/ VerifyFails \/ AfterSwitch \/ AfterRemove \/ Stop
    BY <1>1, <1>10 DEF ScriptInv, SaveInstalled, VerifySucceeds, SaveReady, VerifyFails, AfterSwitch, AfterRemove, Stop,
                       Ends, GoesTo, locals
  <1>11. CASE DesktopChanges \/ \E c \in Codexes : UserInstalls(c)
    BY <1>1, <1>11, NamesAssumption DEF ScriptInv, Remote, DesktopChanges, UserInstalls, locals
  <1>12. QED
    BY <1>2, <1>3, <1>4, <1>5, <1>6, <1>7, <1>8, <1>9, <1>10, <1>11 DEF Next, InstallScript, RemoveScript

-----------------------------------------------------------------------------
(* The profile and what the command found *)

LEMMA ProfileStep == InstallInv /\ [Next]_vars => ProfileInv'
  <1> SUFFICES ASSUME InstallInv, [Next]_vars PROVE ProfileInv'
    OBVIOUS
  <1>1. PurposeInv /\ TypeOK /\ ScriptInv /\ ProfileInv /\ ReadyVerified /\ profile \in Profile
    BY DEF InstallInv, TypeOK
  <1>2. CASE UNCHANGED vars
    BY <1>1, <1>2 DEF ProfileInv, vars, history, locals
  <1>3. CASE \/ \E shim \in Shims : Install(shim)
             \/ Rollback \/ Add \/ RemoveLocal
             \/ \E why \in {"remove", "remove_purge"} : RemoveRemote(why)
    BY <1>1, <1>3 DEF ProfileInv, ReadyVerified, Install, Rollback, RemoveRemote, Begin, Add, RemoveLocal, history, locals
  <1>4. CASE InstallScript \/ RollbackScript \/ RemoveScript
    <2>1. at' \notin Verifying /\ UNCHANGED <<previous_profile, verified>>
      BY <1>4 DEF InstallScript, Stage, WriteToken, KeepPrevious, SwitchCurrent, CopyConfig, CopyMetadata, Own,
                  SaveOriginal, Link, Activated, RollbackScript, SwitchCheck, SwitchBack, SwitchPrevious, SwitchMetadata,
                  SwitchConfig, RemoveScript, CheckOwner, Unlink, Restore, Unconfigure, Disown, Forget, Purge, PurgeStops,
                  Ends, Step, GoesTo, history, locals
    <2>2. QED
      BY <1>1, <2>1 DEF ProfileInv
  <1>5. CASE SaveInstalled \/ SaveReady \/ AfterSwitch \/ AfterRemove
    BY <1>1, <1>5 DEF ProfileInv, Profile, SaveInstalled, SaveReady, AfterSwitch, AfterRemove, Ends, GoesTo, history, locals
  <1>6. CASE VerifySucceeds \/ VerifyFails \/ Stop
    BY <1>1, <1>6 DEF ProfileInv, ScriptInv, VerifySucceeds, VerifyFails, Stop, Ends, GoesTo, history, locals
  <1>7. CASE DesktopChanges \/ \E c \in Codexes : UserInstalls(c)
    BY <1>1, <1>7 DEF ProfileInv, DesktopChanges, UserInstalls, history, locals
  <1>8. QED
    BY <1>2, <1>3, <1>4, <1>5, <1>6, <1>7 DEF Next

LEMMA FoundStep == InstallInv /\ [Next]_vars => FoundInv'
  <1> SUFFICES ASSUME InstallInv, [Next]_vars PROVE FoundInv'
    OBVIOUS
  <1>1. PurposeInv /\ TypeOK /\ ScriptInv /\ FoundInv /\ remote \in Remote
    BY DEF InstallInv, TypeOK
  <1>2. CASE UNCHANGED vars
    BY <1>1, <1>2 DEF FoundInv, vars, history, locals
  <1>3. CASE \/ \E shim \in Shims : Install(shim)
             \/ Rollback \/ Add \/ RemoveLocal
             \/ \E why \in {"remove", "remove_purge"} : RemoveRemote(why)
    BY <1>1, <1>3 DEF FoundInv, Install, Rollback, RemoveRemote, Begin, Add, RemoveLocal, locals
  <1>4. CASE InstallScript \/ SaveInstalled
    <2>1. purpose = "install" /\ purpose' = purpose
      BY <1>1, <1>4 DEF PurposeInv, InstallScript, Stage, WriteToken, KeepPrevious, SwitchCurrent, CopyConfig, CopyMetadata, Own,
                        SaveOriginal, Link, Activated, SaveInstalled, Step, GoesTo, locals
    <2>2. QED
      BY <2>1 DEF FoundInv
  <1>5. CASE RollbackScript
    BY <1>1, <1>5 DEF FoundInv, Remote, RollbackScript, SwitchCheck, SwitchBack, SwitchPrevious, SwitchMetadata, SwitchConfig,
                      Step, GoesTo, locals
  <1>6. CASE RemoveScript \/ SaveReady \/ AfterRemove \/ Stop
    <2>1. at' \in RemoveSteps \cup {"idle"}
      BY <1>6 DEF RemoveScript, CheckOwner, Unlink, Restore, Unconfigure, Disown, Forget, Purge, PurgeStops, SaveReady, AfterRemove,
                  Stop, Ends, Step, GoesTo
    <2>2. QED
      BY <2>1 DEF FoundInv
  <1>7. CASE VerifySucceeds \/ VerifyFails \/ AfterSwitch
    <2>1. at \in {"verify", "switched"} => remote.current = target
      BY <1>1 DEF ScriptInv
    <2>2. CASE VerifySucceeds
      BY <2>2 DEF FoundInv, VerifySucceeds, GoesTo
    <2>3. CASE VerifyFails
      <3>1. /\ at = "verify" /\ at' \in {"owned", "switch"} /\ purpose' \in {"recover", "undo"}
            /\ purpose' = "undo" => purpose = "rollback"
            /\ UNCHANGED <<remote, found>>
        BY <1>1, <2>3 DEF PurposeInv, VerifyFails, locals
      <3>2. purpose' = "undo" => remote.current = found.previous /\ remote.previous = found.current
        BY <1>1, <2>1, <3>1 DEF FoundInv
      <3>3. QED
        BY <3>1, <3>2 DEF FoundInv
    <2>4. CASE AfterSwitch
      <3>1. CASE purpose = "rollback"
        <4>1. at = "switched" /\ at' = "verify" /\ UNCHANGED <<remote, target, purpose, found>>
          BY <2>4, <3>1 DEF AfterSwitch, GoesTo, locals
        <4>2. QED
          BY <1>1, <3>1, <4>1 DEF FoundInv
      <3>2. CASE purpose # "rollback"
        <4>1. at' = "idle"
          BY <2>4, <3>2 DEF AfterSwitch, Ends
        <4>2. QED
          BY <4>1 DEF FoundInv
      <3>3. QED
        BY <3>1, <3>2
    <2>5. QED
      BY <1>7, <2>2, <2>3, <2>4
  <1>8. CASE DesktopChanges \/ \E c \in Codexes : UserInstalls(c)
    BY <1>1, <1>8 DEF FoundInv, Remote, DesktopChanges, UserInstalls, locals
  <1>9. QED
    BY <1>2, <1>3, <1>4, <1>5, <1>6, <1>7, <1>8 DEF Next

-----------------------------------------------------------------------------
(* The user's commands *)

LEMMA OriginalStep == InstallInv /\ [Next]_vars => (OriginalInv /\ OriginalKept)'
  <1> SUFFICES ASSUME InstallInv, [Next]_vars PROVE OriginalInv' /\ OriginalKept'
    OBVIOUS
  <1>1. TypeOK /\ ScriptInv /\ OriginalInv /\ OriginalKept /\ remote \in Remote /\ taken \subseteq Codexes
    BY DEF InstallInv, TypeOK
  <1>2. Managed \notin taken /\ None \notin taken
    BY <1>1, NamesAssumption
  <1>3. CASE UNCHANGED vars
    BY <1>1, <1>3 DEF OriginalInv, OriginalKept, vars, history
  <1>4. ASSUME UNCHANGED <<remote.codex, remote.original, taken>>, at' # "link",
               at' # "idle" \/ said' \notin {"removed", "prepared"}
        PROVE  OriginalInv' /\ OriginalKept'
    BY <1>1, <1>4 DEF OriginalInv, OriginalKept
  <1>5. CASE \/ \E shim \in Shims : Install(shim)
             \/ Rollback \/ Add \/ RemoveLocal
             \/ \E why \in {"remove", "remove_purge"} : RemoveRemote(why)
    BY <1>4, <1>5 DEF Install, Rollback, RemoveRemote, Begin, Add, RemoveLocal, history
  <1>6. CASE Stage \/ WriteToken \/ KeepPrevious \/ SwitchCurrent \/ CopyConfig \/ CopyMetadata \/ Own \/ Activated
    BY <1>1, <1>4, <1>6 DEF Remote, Stage, WriteToken, KeepPrevious, SwitchCurrent, CopyConfig, CopyMetadata, Own, Activated,
                            Step, GoesTo, history
  <1>7. CASE SaveOriginal
    <2>1. CASE remote.codex \in Codexes
      <3>1. /\ remote.original = None /\ at' = "link" /\ taken' = taken \cup {remote.codex}
            /\ remote' = [remote EXCEPT !.original = remote.codex, !.codex = None]
        BY <1>7, <2>1 DEF SaveOriginal, GoesTo
      <3>2. remote'.original = remote.codex /\ remote'.codex = None
        BY <1>1, <3>1 DEF Remote
      <3>3. taken \subseteq {remote.codex}
        BY <1>1, <1>2, <3>1 DEF OriginalKept
      <3>4. QED
        BY <1>2, <2>1, <3>1, <3>2, <3>3, NamesAssumption DEF OriginalInv, OriginalKept
    <2>2. CASE remote.codex \notin Codexes
      <3>1. UNCHANGED <<remote, taken>> /\ at' = "link"
        BY <1>7, <2>2 DEF SaveOriginal, Step, GoesTo, history
      <3>2. QED
        BY <1>1, <2>2, <3>1 DEF OriginalInv, OriginalKept
    <2>3. QED
      BY <2>1, <2>2
  <1>8. CASE Link
    BY <1>1, <1>2, <1>8 DEF OriginalInv, OriginalKept, Link, Remote, Step, GoesTo, history
  <1>9. CASE RollbackScript
    BY <1>1, <1>4, <1>9 DEF Remote, RollbackScript, SwitchCheck, SwitchBack, SwitchPrevious, SwitchMetadata, SwitchConfig,
                            Step, GoesTo, history
  <1>10. CASE CheckOwner \/ Unconfigure \/ Disown \/ Forget
    BY <1>1, <1>4, <1>10 DEF Remote, CheckOwner, Unconfigure, Disown, Forget, Step, GoesTo, history
  <1>11. CASE Unlink \/ Restore
    BY <1>1, <1>2, <1>11 DEF OriginalInv, OriginalKept, Unlink, Restore, Remote, Step, GoesTo, history
  <1>12. CASE Purge \/ PurgeStops
    <2>1. remote.original = None
      BY <1>1, <1>12 DEF ScriptInv, Purge, PurgeStops
    <2>2. /\ remote'.codex = remote.codex /\ remote'.original = None /\ taken' = taken
          /\ at' # "link" /\ (at' = "idle" => said' = "failed")
      BY <1>1, <1>12, <2>1 DEF Purge, PurgeStops, Remote, Ends, GoesTo
    <2>3. QED
      BY <1>4, <2>1, <2>2
  <1>13. CASE SaveInstalled \/ VerifySucceeds \/ SaveReady \/ VerifyFails \/ AfterSwitch \/ AfterRemove \/ Stop \/ DesktopChanges
    <2>1. CASE SaveInstalled \/ VerifySucceeds \/ SaveReady \/ VerifyFails \/ Stop
      BY <1>4, <2>1 DEF SaveInstalled, VerifySucceeds, SaveReady, VerifyFails, Stop, Ends, GoesTo, history
    <2>2. CASE AfterSwitch
      BY <1>4, <2>2 DEF AfterSwitch, Ends, GoesTo, history
    <2>3. CASE AfterRemove
      <3>1. remote.original = None /\ at' = "idle" /\ UNCHANGED <<remote, taken>>
        BY <1>1, <2>3 DEF ScriptInv, AfterRemove, Ends, history
      <3>2. QED
        BY <1>1, <1>2, <3>1 DEF OriginalInv, OriginalKept
    <2>4. CASE DesktopChanges
      BY <1>1, <2>4 DEF OriginalInv, OriginalKept, DesktopChanges, history
    <2>5. QED
      BY <1>13, <2>1, <2>2, <2>3, <2>4
  <1>14. ASSUME NEW c \in Codexes, UserInstalls(c)
         PROVE  OriginalInv' /\ OriginalKept'
    BY <1>1, <1>14 DEF OriginalInv, OriginalKept, UserInstalls, Remote
  <1>15. QED
    BY <1>3, <1>5, <1>6, <1>7, <1>8, <1>9, <1>10, <1>11, <1>12, <1>13, <1>14 DEF Next, InstallScript, RemoveScript

-----------------------------------------------------------------------------
(* What the commands leave *)

LEMMA PartStep == InstallInv /\ [Next]_vars => PartInv'
  <1> SUFFICES ASSUME InstallInv, [Next]_vars PROVE PartInv'
    OBVIOUS
  <1>1. PartInv /\ remote \in Remote
    BY DEF InstallInv, TypeOK
  <1>2. CASE UNCHANGED vars
    BY <1>1, <1>2 DEF PartInv, vars, history
  <1>3. ASSUME remote'.partial = remote.partial, remote.releases \subseteq remote'.releases, purge_cut' = purge_cut
        PROVE  PartInv'
    BY <1>1, <1>3 DEF PartInv
  <1>4. CASE \/ \E shim \in Shims : Install(shim)
             \/ Rollback \/ Add \/ RemoveLocal
             \/ \E why \in {"remove", "remove_purge"} : RemoveRemote(why)
    BY <1>3, <1>4 DEF Install, Rollback, RemoveRemote, Begin, Add, RemoveLocal, history
  <1>5. CASE InstallScript \/ RollbackScript
    BY <1>1, <1>3, <1>5 DEF InstallScript, Stage, WriteToken, KeepPrevious, SwitchCurrent, CopyConfig, CopyMetadata, Own,
                            SaveOriginal, Link, Activated, RollbackScript, SwitchCheck, SwitchBack, SwitchPrevious,
                            SwitchMetadata, SwitchConfig, Remote, Step, GoesTo, history
  <1>6. CASE CheckOwner \/ Unlink \/ Restore \/ Unconfigure \/ Disown \/ Forget
    BY <1>1, <1>3, <1>6 DEF CheckOwner, Unlink, Restore, Unconfigure, Disown, Forget, Remote, Step, history
  <1>7. CASE Purge
    BY <1>1, <1>7 DEF PartInv, Purge, Remote
  <1>8. CASE PurgeStops
    <2>1. PICK kept \in SUBSET remote.releases, c \in {remote.current, None}, p \in {remote.previous, None} :
          \E cut \in kept \cup {None} :
            /\ remote' = [remote EXCEPT !.releases = kept, !.partial = kept \cap (@ \cup {cut}),
                                        !.current = c, !.previous = p]
            /\ purge_cut' = (purge_cut \/ cut # None)
      BY <1>8 DEF PurgeStops
    <2>2. PICK cut \in kept \cup {None} :
            /\ remote' = [remote EXCEPT !.releases = kept, !.partial = kept \cap (@ \cup {cut}),
                                        !.current = c, !.previous = p]
            /\ purge_cut' = (purge_cut \/ cut # None)
      BY <2>1
    <2>3. remote'.releases = kept /\ remote'.partial = kept \cap (remote.partial \cup {cut})
      BY <1>1, <2>2 DEF Remote
    <2>4. None \notin kept
      BY <1>1, RemoteType, NamesAssumption
    <2>5. QED
      BY <1>1, <2>2, <2>3, <2>4 DEF PartInv
  <1>9. CASE SaveInstalled \/ VerifySucceeds \/ SaveReady \/ VerifyFails \/ AfterSwitch \/ AfterRemove \/ Stop \/ DesktopChanges
    BY <1>3, <1>9 DEF SaveInstalled, VerifySucceeds, SaveReady, VerifyFails, AfterSwitch, AfterRemove, Stop, DesktopChanges, history
  <1>10. ASSUME NEW c \in Codexes, UserInstalls(c)
         PROVE  PartInv'
    BY <1>1, <1>3, <1>10 DEF UserInstalls, Remote
  <1>11. QED
    BY <1>2, <1>4, <1>5, <1>6, <1>7, <1>8, <1>9, <1>10 DEF Next, RemoveScript

LEMMA UsableStep == InstallInv /\ [Next]_vars => ActiveUsable'
  <1> SUFFICES ASSUME InstallInv, [Next]_vars PROVE ActiveUsable'
    OBVIOUS
  <1>1. TypeOK /\ ScriptInv /\ PartInv /\ ActiveUsable /\ remote \in Remote
    BY DEF InstallInv, TypeOK
  <1>2. CASE UNCHANGED vars
    BY <1>1, <1>2 DEF ActiveUsable, vars, history
  <1>3. ASSUME UNCHANGED <<remote, purge_cut>>
        PROVE  ActiveUsable'
    BY <1>1, <1>3 DEF ActiveUsable
  <1>4. CASE \/ \E shim \in Shims : Install(shim)
             \/ Rollback \/ Add \/ RemoveLocal
             \/ \E why \in {"remove", "remove_purge"} : RemoveRemote(why)
    BY <1>3, <1>4 DEF Install, Rollback, RemoveRemote, Begin, Add, RemoveLocal, history
  <1>5. CASE InstallScript \/ RollbackScript
    <2>1. remote'.partial = remote.partial /\ purge_cut' = purge_cut
      BY <1>1, <1>5 DEF InstallScript, Stage, WriteToken, KeepPrevious, SwitchCurrent, CopyConfig, CopyMetadata, Own,
                        SaveOriginal, Link, Activated, RollbackScript, SwitchCheck, SwitchBack, SwitchPrevious,
                        SwitchMetadata, SwitchConfig, Remote, Step, GoesTo, history
    <2>2. remote'.current \in remote'.partial => purge_cut'
      BY <1>1, <2>1 DEF PartInv
    <2>3. CASE Stage \/ WriteToken \/ KeepPrevious \/ SwitchCurrent \/ CopyConfig
      BY <1>1, <2>2, <2>3 DEF ActiveUsable, ScriptInv, Remote, Stage, WriteToken, KeepPrevious, SwitchCurrent, CopyConfig, Step
    <2>4. CASE CopyMetadata \/ Own
      BY <1>1, <2>2, <2>4 DEF ActiveUsable, Remote, CopyMetadata, Own, Step
    <2>5. CASE SaveOriginal
      BY <1>1, <2>2, <2>5, NamesAssumption DEF ActiveUsable, Remote, SaveOriginal, Step
    <2>6. CASE Link
      BY <1>1, <2>2, <2>6 DEF ActiveUsable, ScriptInv, Remote, Link, Step
    <2>7. CASE Activated
      BY <1>3, <2>7 DEF Activated, Step, history
    <2>8. CASE RollbackScript
      BY <1>1, <2>2, <2>8 DEF ActiveUsable, ScriptInv, Remote, RollbackScript, SwitchCheck, SwitchBack, SwitchPrevious,
                              SwitchMetadata, SwitchConfig, Step
    <2>9. QED
      BY <1>5, <2>3, <2>4, <2>5, <2>6, <2>7, <2>8 DEF InstallScript
  <1>6. CASE CheckOwner \/ Unlink
    <2>1. CASE CheckOwner
      BY <1>3, <2>1 DEF CheckOwner, Step, history
    <2>2. CASE Unlink
      <3>1. remote'.codex # Managed
        BY <1>1, <2>2, NamesAssumption DEF Unlink, Remote, Step
      <3>2. QED
        BY <3>1 DEF ActiveUsable
    <2>3. QED
      BY <1>6, <2>1, <2>2
  <1>7. CASE Restore \/ Unconfigure \/ Disown \/ Forget \/ Purge \/ PurgeStops
    <2>1. remote.codex # Managed
      BY <1>1, <1>7 DEF ScriptInv, Restore, Unconfigure, Disown, Forget, Purge, PurgeStops, Step
    <2>2. remote'.codex \in {remote.codex, remote.original} \ {Managed}
      BY <1>1, <1>7, <2>1, RemoteType, NamesAssumption
         DEF Restore, Unconfigure, Disown, Forget, Purge, PurgeStops, Remote, Step
    <2>3. QED
      BY <2>2 DEF ActiveUsable
  <1>8. CASE SaveInstalled \/ VerifySucceeds \/ SaveReady \/ VerifyFails \/ AfterSwitch \/ AfterRemove \/ Stop \/ DesktopChanges
    BY <1>3, <1>8 DEF SaveInstalled, VerifySucceeds, SaveReady, VerifyFails, AfterSwitch, AfterRemove, Stop, DesktopChanges, history
  <1>9. ASSUME NEW c \in Codexes, UserInstalls(c)
        PROVE  ActiveUsable'
    BY <1>1, <1>9, NamesAssumption DEF ActiveUsable, UserInstalls, Remote
  <1>10. QED
    BY <1>2, <1>4, <1>5, <1>6, <1>7, <1>8, <1>9 DEF Next, RemoveScript

LEMMA ReadyStep == InstallInv /\ [Next]_vars => ReadyVerified'
  <1> SUFFICES ASSUME InstallInv, [Next]_vars PROVE ReadyVerified'
    OBVIOUS
  <1>1. TypeOK /\ PurposeInv /\ ProfileInv /\ ReadyVerified /\ profile \in Profile
    BY DEF InstallInv, TypeOK
  <1>2. CASE UNCHANGED vars
    BY <1>1, <1>2 DEF ReadyVerified, vars, history
  <1>3. ASSUME UNCHANGED profile, verified \subseteq verified'
        PROVE  ReadyVerified'
    BY <1>1, <1>3 DEF ReadyVerified
  <1>4. CASE \/ \E shim \in Shims : Install(shim)
             \/ Rollback \/ \E why \in {"remove", "remove_purge"} : RemoveRemote(why)
    BY <1>3, <1>4 DEF Install, Rollback, RemoveRemote, Begin, history
  <1>5. CASE InstallScript \/ RollbackScript \/ RemoveScript
    BY <1>3, <1>5 DEF InstallScript, Stage, WriteToken, KeepPrevious, SwitchCurrent, CopyConfig, CopyMetadata, Own,
                  SaveOriginal, Link, Activated, RollbackScript, SwitchCheck, SwitchBack, SwitchPrevious, SwitchMetadata,
                  SwitchConfig, RemoveScript, CheckOwner, Unlink, Restore, Unconfigure, Disown, Forget, Purge, PurgeStops, Step, history
  <1>6. CASE Add \/ RemoveLocal \/ SaveInstalled \/ SaveReady \/ AfterSwitch \/ AfterRemove
    BY <1>1, <1>6 DEF ReadyVerified, ProfileInv, Profile, Add, RemoveLocal, SaveInstalled, SaveReady, AfterSwitch, AfterRemove, history
  <1>7. CASE VerifySucceeds \/ VerifyFails \/ Stop \/ DesktopChanges \/ \E c \in Codexes : UserInstalls(c)
    BY <1>3, <1>7 DEF VerifySucceeds, VerifyFails, Stop, DesktopChanges, UserInstalls, history
  <1>8. QED
    BY <1>2, <1>4, <1>5, <1>6, <1>7 DEF Next

LEMMA ResultStep == InstallInv /\ [Next]_vars => (SuccessAgrees /\ RollbackUndone)'
  <1> SUFFICES ASSUME InstallInv, [Next]_vars PROVE SuccessAgrees' /\ RollbackUndone'
    OBVIOUS
  <1>1. /\ TypeOK /\ PurposeInv /\ ScriptInv /\ ProfileInv /\ FoundInv /\ SuccessAgrees /\ RollbackUndone
        /\ profile \in Profile /\ remote \in Remote
    BY DEF InstallInv, TypeOK
  <1>2. CASE UNCHANGED vars
    BY <1>1, <1>2 DEF SuccessAgrees, RollbackUndone, vars, history, locals
  <1>3. ASSUME at' # "idle" \/ said' \notin {"ready", "recovered", "restored"}
        PROVE  SuccessAgrees' /\ RollbackUndone'
    BY <1>3 DEF SuccessAgrees, RollbackUndone
  <1>4. CASE \/ \E shim \in Shims : Install(shim)
             \/ Rollback \/ Add \/ RemoveLocal
             \/ \E why \in {"remove", "remove_purge"} : RemoveRemote(why)
    BY <1>3, <1>4 DEF Install, Rollback, RemoveRemote, Begin, Add, RemoveLocal
  <1>5. CASE InstallScript \/ RollbackScript \/ RemoveScript
    BY <1>3, <1>5 DEF InstallScript, Stage, WriteToken, KeepPrevious, SwitchCurrent, CopyConfig, CopyMetadata, Own,
                  SaveOriginal, Link, Activated, RollbackScript, SwitchCheck, SwitchBack, SwitchPrevious, SwitchMetadata,
                  SwitchConfig, RemoveScript, CheckOwner, Unlink, Restore, Unconfigure, Disown, Forget, Purge, PurgeStops, Ends, Step, GoesTo
  <1>6. CASE SaveInstalled \/ VerifySucceeds \/ VerifyFails \/ AfterRemove \/ Stop
    BY <1>3, <1>6 DEF SaveInstalled, VerifySucceeds, VerifyFails, AfterRemove, Stop, Ends, GoesTo
  <1>7. CASE SaveReady
    BY <1>1, <1>7 DEF SuccessAgrees, RollbackUndone, ScriptInv, ProfileInv, Profile, SaveReady, Ends
  <1>8. CASE AfterSwitch
    <2>1. remote.current = target /\ remote.shim_json = target /\ remote.install_json = target
      BY <1>1, <1>8 DEF AfterSwitch, ScriptInv
    <2>2. purpose \in {"rollback", "recover", "undo"}
      BY <1>1, <1>8 DEF AfterSwitch, PurposeInv
    <2>3. purpose = "undo" => target = found.current /\ remote.previous = found.previous
      BY <1>1, <1>8 DEF AfterSwitch, FoundInv
    <2>4. CASE purpose = "rollback"
      <3>1. at' = "verify"
        BY <1>8, <2>4 DEF AfterSwitch, GoesTo
      <3>2. QED
        BY <1>3, <3>1
    <2>5. CASE purpose = "recover"
      <3>1. /\ said' = "recovered" /\ remote' = remote
            /\ profile' = [status |-> "installed", release |-> target]
        BY <1>8, <2>5 DEF AfterSwitch, Ends
      <3>2. QED
        BY <2>1, <3>1 DEF SuccessAgrees, RollbackUndone
    <2>6. CASE purpose = "undo"
      <3>1. /\ said' = "restored" /\ profile' = previous_profile
            /\ UNCHANGED <<remote, found, previous_profile>>
        BY <1>8, <2>6 DEF AfterSwitch, Ends
      <3>2. found = [current |-> found.current, previous |-> found.previous]
        BY <1>1 DEF TypeOK
      <3>3. QED
        BY <2>1, <2>3, <2>6, <3>1, <3>2 DEF SuccessAgrees, RollbackUndone
    <2>7. QED
      BY <2>2, <2>4, <2>5, <2>6
  <1>9. CASE DesktopChanges \/ \E c \in Codexes : UserInstalls(c)
    BY <1>1, <1>9 DEF SuccessAgrees, RollbackUndone, Remote, DesktopChanges, UserInstalls, locals
  <1>10. QED
    BY <1>2, <1>4, <1>5, <1>6, <1>7, <1>8, <1>9 DEF Next

-----------------------------------------------------------------------------
(* Theorems *)

LEMMA InitInstallInv == Init => InstallInv
  <1> SUFFICES ASSUME Init PROVE InstallInv
    OBVIOUS
  <1>1. PurposeInv /\ ScriptInv /\ ProfileInv /\ FoundInv /\ PartInv /\ OriginalInv
    BY DEF Init, PurposeInv, ScriptInv, ProfileInv, FoundInv, PartInv, OriginalInv
  <1>2. ActiveUsable
    BY NamesAssumption DEF Init, ActiveUsable
  <1>3. SuccessAgrees /\ ReadyVerified /\ RollbackUndone /\ OriginalKept
    BY DEF Init, SuccessAgrees, ReadyVerified, RollbackUndone, OriginalKept
  <1>4. QED
    BY <1>1, <1>2, <1>3, InitTypeOK DEF InstallInv

\* The inductive invariant: what the steps of the running script have done, and
\* what the command knows of the profile and the release it found.
THEOREM InstallInvariant == Spec => []InstallInv
  <1>1. InstallInv /\ [Next]_vars => InstallInv'
    BY TypeStep, PurposeStep, ScriptStep, ProfileStep, FoundStep, PartStep, OriginalStep, UsableStep, ReadyStep, ResultStep
       DEF InstallInv
  <1>2. QED
    BY <1>1, InitInstallInv, PTL DEF Spec

\* Every variable keeps its type, in particular the files of the remote host.
THEOREM InstallTypeOK == Spec => []TypeOK
  <1>1. InstallInv => TypeOK
    BY DEF InstallInv
  <1>2. QED
    BY <1>1, InstallInvariant, PTL

\* Wherever a script stops, an active shim has its release directory,
\* configuration and token, and the directory is whole unless a purge was cut
\* off inside one and none has finished since (the scripts of cxs-install).
THEOREM InstallActiveUsable == Spec => []ActiveUsable
  <1>1. InstallInv => ActiveUsable
    BY DEF InstallInv
  <1>2. QED
    BY <1>1, InstallInvariant, PTL

\* An install or rollback that ends well or was recovered leaves profile, links
\* and configuration with the same release (install, rollback of cxs-cli).
THEOREM InstallSuccessAgrees == Spec => []SuccessAgrees
  <1>1. InstallInv => SuccessAgrees
    BY DEF InstallInv
  <1>2. QED
    BY <1>1, InstallInvariant, PTL

\* A profile is ready only with a release that was verified (install, rollback
\* and recover_failed_install of cxs-cli).
THEOREM InstallReadyVerified == Spec => []ReadyVerified
  <1>1. InstallInv => ReadyVerified
    BY DEF InstallInv
  <1>2. QED
    BY <1>1, InstallInvariant, PTL

\* A rollback that fails its verification and is undone leaves the links
\* current and previous it found, both copies of the configuration those of the
\* current release, and the profile it found: the script exchanges the links,
\* and exchanging them twice changes nothing.
THEOREM InstallRollbackUndone == Spec => []RollbackUndone
  <1>1. InstallInv => RollbackUndone
    BY DEF InstallInv
  <1>2. QED
    BY <1>1, InstallInvariant, PTL

\* A command of the user that install moved away is kept or back in place, and
\* back in place when a removal, or the recovery of a first install, has ended
\* well (original-codex of the installation and removal scripts).
THEOREM InstallOriginalKept == Spec => []OriginalKept
  <1>1. InstallInv => OriginalKept
    BY DEF InstallInv
  <1>2. QED
    BY <1>1, InstallInvariant, PTL
=============================================================================
