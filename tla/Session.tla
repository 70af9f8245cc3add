------------------------------ MODULE Session -------------------------------
(***************************************************************************)
(* What the MQTT client promises its caller, the main task: publishes one  *)
(* at a time over a session.  A publish that succeeds has been received; a *)
(* publish that fails ends the session; and a publish arrives at most      *)
(* once, and not any more when a new session stands or another publish has *)
(* been begun.                                                             *)
(***************************************************************************)
EXTENDS Naturals

VARIABLES
  conn,      \* there is a session
  waiting,   \* a publish waits for its result
  sent,      \* how many publishes were begun: the number of the last one
  offered,   \* the publish that may still arrive, or 0
  received,  \* the publishes the server has received
  acked      \* the publishes that succeeded

vars == <<conn, waiting, sent, offered, received, acked>>

Init ==
  /\ conn = FALSE /\ waiting = FALSE
  /\ sent = 0 /\ offered = 0
  /\ received = {} /\ acked = {}

Connect ==
  /\ ~conn /\ ~waiting /\ offered = 0
  /\ conn' = TRUE
  /\ UNCHANGED <<waiting, sent, offered, received, acked>>

Begin ==
  /\ conn /\ ~waiting /\ offered = 0
  /\ waiting' = TRUE
  /\ sent' = sent + 1 /\ offered' = sent + 1
  /\ UNCHANGED <<conn, received, acked>>

\* It may arrive after it has failed.
Arrive ==
  /\ offered # 0
  /\ offered' = 0
  /\ received' = received \cup {offered}
  /\ UNCHANGED <<conn, waiting, sent, acked>>

Succeed ==
  /\ conn /\ waiting /\ sent \in received
  /\ waiting' = FALSE
  /\ acked' = acked \cup {sent}
  /\ UNCHANGED <<conn, sent, offered, received>>

\* The session ends, with or without a publish that waits.
End ==
  /\ conn' = FALSE /\ waiting' = FALSE
  /\ offered' \in {offered, 0}
  /\ UNCHANGED <<sent, received, acked>>

Next == Connect \/ Begin \/ Arrive \/ Succeed \/ End

Spec == Init /\ [][Next]_vars
=============================================================================
