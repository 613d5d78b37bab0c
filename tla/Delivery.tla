------------------------------- MODULE Delivery -------------------------------
(***************************************************************************)
(* What a durable consumer promises of the messages of its stream, whoever *)
(* consumes and whatever fails: at least once, or on the dead letter queue *)
(* where an operator sees it.  A message is settled only after that, and   *)
(* one that is neither is lost, for which its last delivery must have come *)
(* to nothing outside the consumer's rules.                                *)
(***************************************************************************)
CONSTANT Msgs

VARIABLES
  fate,       \* what has become of each message
  settled,    \* those the broker has been told to forget
  abandoned   \* messages whose last delivery came to nothing

Fates == {"unpublished", "open", "accounted", "lost"}

Init ==
  /\ fate = [m \in Msgs |-> "unpublished"]
  /\ settled = {}
  /\ abandoned = {}

\* What an open message becomes stays so.
MayBecome(from) ==
  CASE from = "unpublished" -> {"open"}
    [] from = "open" -> {"accounted", "lost"}
    [] OTHER -> {}

\* One step may move several messages: a batch, a kill.
Move ==
  /\ fate' \in [Msgs -> Fates] /\ settled' \subseteq Msgs /\ abandoned' \subseteq Msgs
  /\ abandoned \subseteq abandoned'
  /\ \A m \in Msgs :
       LET old == fate[m]
           new == fate'[m]
       IN  /\ new = old \/ new \in MayBecome(old)
           /\ old = "open" /\ new = "lost" => m \in abandoned'
           /\ m \in settled => m \in settled'
           /\ m \in settled' => old = "accounted"

vars == <<fate, settled, abandoned>>

Spec == Init /\ [][Move]_vars
=============================================================================
