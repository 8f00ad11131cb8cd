--------------------------- MODULE ChannelService ---------------------------
(***************************************************************************)
(* What a multiplexed connection promises of its channels, without saying  *)
(* how: who opens a channel is answered once; the accepting loop of the    *)
(* other end is offered it at most once, only after the opener was given   *)
(* a stream, and never if its open was refused; what is taken stays taken. *)
(***************************************************************************)
CONSTANT Channels

VARIABLES
  near,   \* per channel, what its opener knows: "given" a stream, "open",
          \* "refused" before anything was said, or "broken" after
  far     \* per channel, what the accepting end has done with it

vars == <<near, far>>

Init ==
  /\ near = [c \in Channels |-> "none"]
  /\ far = [c \in Channels |-> "no"]

Goes(c, from, to) ==
  /\ near[c] \in from
  /\ near' = [near EXCEPT ![c] = to]
  /\ UNCHANGED far

Ask(c) == Goes(c, {"none"}, "asked")

Give(c) == Goes(c, {"asked"}, "given")

Open(c) == Goes(c, {"given"}, "open")

Refuse(c) == Goes(c, {"asked", "given"}, "refused")

Break(c) == Goes(c, {"given"}, "broken")

\* The opener has said something.
Known(c) == near[c] \in {"given", "open", "broken"}

Offer(c) ==
  /\ far[c] = "no" /\ Known(c)
  /\ far' = [far EXCEPT ![c] = "offered"]
  /\ UNCHANGED near

Take(c) ==
  /\ far[c] = "offered"
  /\ far' = [far EXCEPT ![c] = "taken"]
  /\ UNCHANGED near

\* One that cannot be identified, or all that the loop leaves behind.
Reject(cs) ==
  /\ \A c \in cs : far[c] \in {"no", "offered"} /\ Known(c)
  /\ far' = [c \in Channels |-> IF c \in cs THEN "rejected" ELSE far[c]]
  /\ UNCHANGED near

Next ==
  \/ \E c \in Channels : Ask(c) \/ Give(c) \/ Open(c) \/ Refuse(c) \/ Break(c) \/ Offer(c) \/ Take(c)
  \/ \E cs \in SUBSET Channels : Reject(cs)

Spec == Init /\ [][Next]_vars
=============================================================================
