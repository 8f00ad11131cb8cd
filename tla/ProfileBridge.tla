---------------------------- MODULE ProfileBridge ----------------------------
(***************************************************************************)
(* What the commands of a profile promise about its bridge and its session *)
(* scope, without saying how: at most one bridge runs; a command starts    *)
(* one at most, and reports what is so; the scope is one register that     *)
(* each writer updates and none overwrites, unless a session records with  *)
(* the copy of a connection that was lost.                                 *)
(***************************************************************************)
CONSTANTS Bridges, Threads

VARIABLES
  life,       \* per bridge, "unborn", "running" or "ended"
  serving,    \* the bridges clients can reach and the remote host answers
  command,    \* the command that runs, or "none"
  ran,        \* this session-scope is to bring a bridge back
  launched,   \* this command has started a bridge
  said,       \* what the last command reported
  scope,      \* the session scope
  leftover,   \* a session of a lost connection goes on
  stale       \* the connection's copy lacks what such a session recorded

commandVars == <<command, ran, launched, said>>
copyVars == <<leftover, stale>>
vars == <<life, serving, commandVars, scope, copyVars>>

Running == {p \in Bridges : life[p] = "running"}

Init ==
  /\ life = [p \in Bridges |-> "unborn"]
  /\ serving = {}
  /\ command = "none" /\ ran = FALSE /\ launched = FALSE /\ said = "nothing"
  /\ scope = [enabled |-> TRUE, thread_ids |-> {}]
  /\ leftover = FALSE /\ stale = FALSE

-----------------------------------------------------------------------------
(* The bridge *)

Serve(p) ==
  /\ p \in Running /\ serving = {}
  /\ serving' = {p}
  /\ UNCHANGED <<life, commandVars, scope, copyVars>>

\* The connection is lost, with its copy of the scope; a session may go on.
Lose(p) ==
  /\ p \in serving
  /\ serving' = serving \ {p}
  /\ leftover' \in BOOLEAN /\ (stale' => stale)
  /\ UNCHANGED <<life, commandVars, scope>>

\* A copy goes, or is read again.
Forget ==
  /\ (leftover' => leftover) /\ (stale' => stale)
  /\ UNCHANGED <<life, serving, commandVars, scope>>

End(p) ==
  /\ p \in Running
  /\ life' = [life EXCEPT ![p] = "ended"]
  /\ serving' = serving \ {p}
  /\ leftover' = FALSE /\ stale' = FALSE
  /\ UNCHANGED <<commandVars, scope>>

\* Threads that sessions of the running bridge have started.
Record(threads) ==
  /\ Running # {} /\ scope.enabled /\ ~stale
  /\ scope' = [scope EXCEPT !.thread_ids = @ \cup threads]
  /\ UNCHANGED <<life, serving, commandVars, copyVars>>

\* Of two copies one may overwrite the threads of the other, but not what the
\* user chose.
RecordStale(threads) ==
  /\ Running # {} /\ scope.enabled /\ (leftover \/ stale)
  /\ scope' \in {scope, [scope EXCEPT !.thread_ids = threads]}
  /\ stale' \in BOOLEAN
  /\ UNCHANGED <<life, serving, commandVars, leftover>>

-----------------------------------------------------------------------------
(* The commands *)

Begin(c) ==
  /\ command = "none"
  /\ command' = c
  /\ ran' = (c = "session-scope" /\ Running # {})
  /\ said' = "nothing"
  /\ UNCHANGED <<life, serving, launched, scope, copyVars>>

\* session-scope brings back what it stopped and starts nothing else.
Launches == command = "up" \/ (command = "session-scope" /\ ran)

Launch(p) ==
  /\ Launches /\ ~launched
  /\ Running = {} /\ life[p] = "unborn"
  /\ life' = [life EXCEPT ![p] = "running"]
  /\ launched' = TRUE
  /\ UNCHANGED <<serving, command, ran, said, scope, copyVars>>

Honest(report) ==
  CASE report \in {"stopped", "already stopped"} -> command = "down" /\ Running = {}
    [] report = "running" -> Launches /\ Running # {}
    [] report = "started" -> launched
    [] report = "nothing" -> command = "session-scope"
    [] report = "failed" -> TRUE

Reports(report) ==
  /\ command # "none" /\ Honest(report)
  /\ command' = "none" /\ ran' = FALSE /\ launched' = FALSE
  /\ said' = report

Report(report) ==
  /\ Reports(report)
  /\ UNCHANGED <<life, serving, scope, copyVars>>

\* The choice of the user replaces the old one at a moment when no bridge runs
\* that could record a thread.
Edit(enabled) ==
  /\ command = "session-scope" /\ ~launched /\ Running = {}
  /\ scope' = [scope EXCEPT !.enabled = enabled]
  /\ IF ran THEN UNCHANGED commandVars ELSE Reports("nothing")
  /\ UNCHANGED <<life, serving, copyVars>>

Next ==
  \/ \E p \in Bridges : Serve(p) \/ Lose(p) \/ End(p) \/ Launch(p)
  \/ Forget
  \/ \E threads \in SUBSET Threads : Record(threads) \/ RecordStale(threads)
  \/ \E c \in {"up", "down", "session-scope"} : Begin(c)
  \/ \E report \in {"nothing", "started", "running", "stopped", "already stopped", "failed"} : Report(report)
  \/ \E enabled \in BOOLEAN : Edit(enabled)

Spec == Init /\ [][Next]_vars
=============================================================================
