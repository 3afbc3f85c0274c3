------------------------------ MODULE Framing ------------------------------
(***************************************************************************)
(* What a connection promises its client: the commands it sent are         *)
(* executed in the order it sent them, each one whole and at most once,    *)
(* and none after the session ended.                                       *)
(***************************************************************************)
EXTENDS Naturals, Sequences

CONSTANT Command

VARIABLES
  sent,      \* the commands the client sent to their last byte
  executed,  \* the commands the server executed
  open       \* the session goes on

vars == <<sent, executed, open>>

Init ==
  /\ sent = <<>>
  /\ executed = <<>>
  /\ open = TRUE

Send(c) ==
  /\ sent' = Append(sent, c)
  /\ UNCHANGED <<executed, open>>

Execute ==
  /\ open
  /\ Len(executed) < Len(sent)
  /\ executed' = Append(executed, sent[Len(executed) + 1])
  /\ open' \in BOOLEAN
  /\ UNCHANGED sent

End ==
  /\ open
  /\ open' = FALSE
  /\ UNCHANGED <<sent, executed>>

Next ==
  \/ \E c \in Command : Send(c)
  \/ Execute
  \/ End

Spec == Init /\ [][Next]_vars
=============================================================================
