--------------------------- MODULE GatedForwarder ---------------------------
(***************************************************************************)
(* What a relay promises the desktop client, without saying how: the       *)
(* client's requests reach the two App Servers in the order it sent them,  *)
(* none is lost or repeated, none passes between the client's initialize   *)
(* and the moment the session is usable (the gate), every request is       *)
(* answered at most once and only after it was forwarded, and the client   *)
(* gets no answer to a request that is not its own.                        *)
(***************************************************************************)
EXTENDS Naturals, Sequences, Functions

CONSTANT Requests          \* the client's requests other than initialize

VARIABLES
  sent,        \* the requests taken from the client, in its order
  forwarded,   \* those handed on to an App Server, in the order of hand-over
  answers,     \* how many responses the client has to each request
  unasked,     \* the responses it has to requests of others
  gate,        \* "unrequested", "closed" (initialize under way) or "open"
  over         \* the session has ended

vars == <<sent, forwarded, answers, unasked, gate, over>>

Init ==
  /\ sent = <<>>
  /\ forwarded = <<>>
  /\ answers = [r \in Requests |-> 0]
  /\ unasked = {}
  /\ gate = "unrequested"
  /\ over = FALSE

Initialize ==
  /\ gate = "unrequested"
  /\ gate' = "closed"
  /\ UNCHANGED <<sent, forwarded, answers, unasked, over>>

\* A closed gate holds the request; otherwise it goes straight through.
Receive(r) ==
  /\ r \notin Range(sent)
  /\ sent' = Append(sent, r)
  /\ forwarded' = IF gate = "closed" THEN forwarded ELSE sent'
  /\ UNCHANGED <<answers, unasked, gate, over>>

\* Opening the gate lets everything that was held through at once.
Open ==
  /\ gate = "closed"
  /\ gate' = "open"
  /\ forwarded' = sent
  /\ UNCHANGED <<sent, answers, unasked, over>>

Answer(r) ==
  /\ r \in Range(forwarded)
  /\ answers[r] = 0
  /\ answers' = [answers EXCEPT ![r] = 1]
  /\ UNCHANGED <<sent, forwarded, unasked, gate, over>>

End ==
  /\ over' = TRUE
  /\ UNCHANGED <<sent, forwarded, answers, unasked, gate>>

Next ==
  /\ ~over
  /\ \/ Initialize
     \/ Open
     \/ End
     \/ \E r \in Requests : Receive(r) \/ Answer(r)

Spec == Init /\ [][Next]_vars
=============================================================================
