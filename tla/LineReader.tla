----------------------------- MODULE LineReader -----------------------------
(***************************************************************************)
(* read_bounded_line as a branch of the relay's select! loop               *)
(* (crates/cxs-bridge/src/lib.rs): the Host App Server writes whole JSONL  *)
(* lines, the stream delivers each in pieces (a BufReader fills 8 KiB at a *)
(* time), and the line read so far is a local of the future that select!   *)
(* drops whenever another branch is taken.                                 *)
(***************************************************************************)
EXTENDS Integers, Sequences

CONSTANTS
  Lines,         \* lines the host writes
  Pieces         \* pieces each arrives in

VARIABLES
  arrived,       \* pieces the stream has delivered
  consumed,      \* pieces taken out of the buffer
  line,          \* the local of the pending read_bounded_line call
  lines          \* the lines it returned to the relay

vars == <<arrived, consumed, line, lines>>

\* Piece n of the stream is part <<line, place in the line>>.
Piece(n) == <<((n - 1) \div Pieces) + 1, ((n - 1) % Pieces) + 1>>
WholeLine(k) == [i \in 1..Pieces |-> <<k, i>>]

TypeOK ==
  /\ arrived \in 0..(Lines * Pieces)
  /\ consumed \in 0..arrived
  /\ line \in Seq((1..Lines) \X (1..Pieces))
  /\ lines \in Seq(Seq((1..Lines) \X (1..Pieces)))

Init ==
  /\ arrived = 0
  /\ consumed = 0
  /\ line = <<>>
  /\ lines = <<>>

Arrive ==
  /\ arrived < Lines * Pieces
  /\ arrived' = arrived + 1
  /\ UNCHANGED <<consumed, line, lines>>

\* One turn of the loop: extend_from_slice and consume, and at a newline the
\* line is returned.
fill_buf ==
  /\ consumed < arrived
  /\ consumed' = consumed + 1
  /\ LET extended == Append(line, Piece(consumed')) IN
     IF Piece(consumed')[2] = Pieces
     THEN lines' = Append(lines, extended) /\ line' = <<>>
     ELSE lines' = lines /\ line' = extended
  /\ UNCHANGED arrived

\* A message from the client or the local App Server, or the 50 ms timer that
\* runs while a thread/start waits, wins the select!; the next iteration
\* starts a new call with an empty line.
OtherBranch ==
  /\ line' = <<>>
  /\ UNCHANGED <<arrived, consumed, lines>>

Next == Arrive \/ fill_buf \/ OtherBranch

Spec == Init /\ [][Next]_vars

\* The relay parses only lines the host wrote: what it rejects as "remote Host
\* App Server emitted invalid JSONL" is the host's doing.
LinesAreWhole == \A k \in DOMAIN lines : lines[k] = WholeLine(k)
=============================================================================
