---------------------------- MODULE Conversation ----------------------------
(***************************************************************************)
(* What the user is promised of a conversation: turns run one at a time,   *)
(* every turn ends once, with one status, and the log keeps what happened  *)
(* in the order the turns were started.                                    *)
(***************************************************************************)
EXTENDS Naturals, Sequences

CONSTANT Status   \* how a turn can end

VARIABLES current,   \* a turn is running
          log        \* the statuses of the turns that ended

Init == current = FALSE /\ log = <<>>

Begin == ~current /\ current' = TRUE /\ UNCHANGED log

End(s) == current /\ current' = FALSE /\ log' = Append(log, s)

Next == Begin \/ \E s \in Status : End(s)

Spec == Init /\ [][Next]_<<current, log>>
=============================================================================
