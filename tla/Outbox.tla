------------------------------ MODULE Outbox --------------------------------
(***************************************************************************)
(* What the main task promises the tasks that report through it: an outbox *)
(* served in order.  A message is sent again until the cloud has confirmed *)
(* it (so the cloud may get it more than once); only a volatile message    *)
(* may be given up after one attempt, and only when the main task is       *)
(* leaving may a message be given up at all.                               *)
(***************************************************************************)
EXTENDS Sequences

CONSTANTS
  Messages,  \* what may be put
  Volatile   \* the messages that get one attempt

VARIABLES
  box,      \* the messages put and not yet sent or given up, oldest first
  cloud,    \* what has reached the cloud, in the order of arrival
  leaving   \* the main task is on its way to sleep, or not running

vars == <<box, cloud, leaving>>

\* Nobody serves the box before the main task has started.
Init == box = <<>> /\ cloud = <<>> /\ leaving = TRUE

Put ==
  /\ \E m \in Messages : box' = Append(box, m)
  /\ UNCHANGED <<cloud, leaving>>

\* The oldest message reached the cloud and was confirmed.
Sent ==
  /\ box # <<>>
  /\ cloud' = Append(cloud, Head(box))
  /\ box' = Tail(box)
  /\ UNCHANGED leaving

\* It may have reached the cloud, but was not confirmed.
Unsure ==
  /\ box # <<>>
  /\ cloud' = cloud \/ cloud' = Append(cloud, Head(box))
  /\ \/ box' = box
     \/ (Head(box) \in Volatile \/ leaving) /\ box' = Tail(box)
  /\ UNCHANGED leaving

Leave == ~leaving /\ leaving' = TRUE /\ UNCHANGED <<box, cloud>>

\* What was put too late is lost.
Wipe == leaving /\ box' = <<>> /\ UNCHANGED <<cloud, leaving>>

Return == leaving /\ box = <<>> /\ leaving' = FALSE /\ UNCHANGED <<box, cloud>>

Next == Put \/ Sent \/ Unsure \/ Leave \/ Wipe \/ Return

Spec == Init /\ [][Next]_vars
=============================================================================
