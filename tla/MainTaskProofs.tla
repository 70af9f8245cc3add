--------------------------- MODULE MainTaskProofs ---------------------------
(***************************************************************************)
(* Proofs about MainTask for any messages, queue size, error count and     *)
(* bounds: types, the one socket, the bound on unanswered reports, and     *)
(* that the main task implements Outbox.                                   *)
(***************************************************************************)
EXTENDS MainTask, SequenceTheorems, TLAPS

\* A sequence of at most one element.
LEMMA AtMostOne ==
  ASSUME NEW S, NEW s \in Seq(S), Len(s) <= 1, s # <<>>
  PROVE  s = <<s[1]>> /\ s[1] \in S
<1>1. Len(s) = 1
  <2>1. Len(s) \in Nat \ {0}
    BY EmptySeq, Zenon
  <2> QED BY <2>1
<1>2. s[1] \in S
  BY <1>1, ElementOfSeq
<1> QED BY <1>1, <1>2, SeqEqual

\* Head and Tail of a queue, and what Append makes of it.
LEMMA QueueFacts ==
  ASSUME NEW S, NEW q \in Seq(S)
  PROVE  /\ Len(q) \in Nat
         /\ q # <<>> => Head(q) \in S /\ Tail(q) \in Seq(S) /\ Len(Tail(q)) = Len(q) - 1
         /\ \A e \in S : Append(q, e) \in Seq(S) /\ Len(Append(q, e)) = Len(q) + 1
  BY HeadTailProperties, AppendProperties, LenProperties

\* A queue, or the cache, with one message.
LEMMA OneElement ==
  ASSUME NEW S, NEW e \in S
  PROVE  <<e>> \in Seq(S) /\ Len(<<e>>) = 1 /\ <<e>> # <<>> /\ <<e>>[1] = e
  OBVIOUS

\* An empty queue.
LEMMA NoElement == ASSUME NEW S PROVE <<>> \in Seq(S) /\ Len(<<>>) = 0
  OBVIOUS
-----------------------------------------------------------------------------
\* The types hold at power-up.
LEMMA TypeInit == Init => TypeOK
<1> SUFFICES ASSUME Init PROVE TypeOK
  OBVIOUS
<1>1. queue \in Seq(Msgs) /\ cache \in Seq(Msgs) /\ got \in Seq(Msgs)
  BY NoElement DEF Init
<1>2. Len(queue) <= QSize /\ Len(cache) <= 1
  BY NoElement, MainAssumption DEF Init
<1>3. unput \subseteq Msgs /\ putting \in Msgs \cup {NoMsg} /\ status \in Statuses
  BY DEF Init, Statuses
<1>4. faults \in 0..MaxFaults /\ fotas \in 0..MaxFotas /\ sleeps \in 0..MaxSleeps
  BY MainAssumption DEF Init
<1>5. sockets \in Nat /\ owed \in Nat /\ errcnt \in Nat
  BY DEF Init
<1> QED BY <1>1, <1>2, <1>3, <1>4, <1>5, Zenon DEF Init, TypeOK

\* A counted failure, and one that need not be counted, keep the bounds.
LEMMA FaultType ==
  ASSUME TypeOK, Fault \/ FailsNow
  PROVE  faults' \in 0..MaxFaults /\ fotas' \in 0..MaxFotas /\ sleeps' \in 0..MaxSleeps
  BY MainAssumption DEF TypeOK, Fault, FailsNow, bounds

\* Every step keeps the types and the queue within its size.
LEMMA TypeStep == TypeOK /\ OneSocket /\ [Next]_vars => TypeOK'
<1> SUFFICES ASSUME TypeOK, OneSocket, [Next]_vars PROVE TypeOK'
  OBVIOUS
<1> USE MainAssumption DEF TypeOK, Statuses, Move, session, flags, putter, bounds
<1>0. sockets \in Nat /\ (handle => sockets - 1 \in Nat)
  BY DEF OneSocket
<1>a. <<>> \in Seq(Msgs) /\ Len(<<>>) = 0
  BY NoElement
<1>1. CASE Start
  <2>1. queue' \in Seq(Msgs) /\ Len(queue') <= QSize /\ cache' \in Seq(Msgs) /\ Len(cache') <= 1
    BY <1>1, <1>a DEF Start
  <2> QED BY <1>1, <2>1 DEF Start
<1>2. CASE Advance BY <1>2 DEF Advance
<1>3. CASE InitFails BY <1>3, FaultType DEF InitFails
<1>4. CASE Connect BY <1>0, <1>4 DEF Connect, ConnectWith
<1>5. CASE ConnectFails BY <1>0, <1>5, FaultType DEF ConnectFails, ty_mqtt_close
<1>6. CASE Subscribed BY <1>6 DEF Subscribed
<1>7. CASE SubscribeFails BY <1>0, <1>7, FaultType DEF SubscribeFails, ty_mqtt_close
<1>8. CASE ReportUp BY <1>8 DEF ReportUp
<1>9. CASE ReportUpFails BY <1>0, <1>9, FaultType DEF ReportUpFails, ty_mqtt_close
<1>10. CASE ReplySeen BY <1>10 DEF ReplySeen
<1>11. CASE NoReply
  <2>1. faults' \in 0..MaxFaults /\ fotas' \in 0..MaxFotas /\ sleeps' \in 0..MaxSleeps
    BY <1>11, FaultType DEF NoReply, NoReplyIf
  <2>2. status' \in Statuses /\ sockets' \in Nat /\ conn' \in BOOLEAN /\ handle' \in BOOLEAN
    BY <1>0, <1>11 DEF NoReply, NoReplyIf, ty_mqtt_close
  <2> QED BY <1>11, <2>1, <2>2 DEF NoReply, NoReplyIf
<1>12. CASE TakeMsg
  <2>1. Head(queue) \in Msgs /\ Tail(queue) \in Seq(Msgs) /\ Len(Tail(queue)) <= QSize
    BY <1>12, QueueFacts DEF TakeMsg
  <2>2. cache' \in Seq(Msgs) /\ Len(cache') <= 1
    BY <1>12, <2>1, OneElement DEF TakeMsg
  <2> QED BY <1>12, <2>1, <2>2 DEF TakeMsg
<1>13. CASE Publish
  <2>1. cache[1] \in Msgs
    BY <1>13, AtMostOne DEF Publish
  <2>2. got' \in Seq(Msgs)
    BY <1>13, <2>1, QueueFacts DEF Publish
  <2>3. cache' \in Seq(Msgs) /\ Len(cache') <= 1
    BY <1>13, NoElement DEF Publish
  <2> QED BY <1>13, <2>2, <2>3 DEF Publish
<1>14. CASE PublishFails
  <2>1. cache[1] \in Msgs
    BY <1>14, AtMostOne DEF PublishFails, PublishFailsWith
  <2>a. Append(got, cache[1]) \in Seq(Msgs)
    BY <2>1, QueueFacts
  <2>b. got' = got \/ got' = Append(got, cache[1])
    BY <1>14, Zenon DEF PublishFails, PublishFailsWith
  <2>2. got' \in Seq(Msgs)
    BY <2>a, <2>b
  <2>3. cache' \in Seq(Msgs) /\ Len(cache') <= 1
    BY <1>14, NoElement DEF PublishFails, PublishFailsWith
  <2>4. status' \in Statuses /\ conn' \in BOOLEAN
    BY <1>14 DEF PublishFails, PublishFailsWith, AfterFailure
  <2> QED BY <1>14, <2>2, <2>3, <2>4, FaultType DEF PublishFails, PublishFailsWith
<1>15. CASE TaskUpDone BY <1>15 DEF TaskUpDone
<1>16. CASE WaitTaskDown BY <1>0, <1>16 DEF WaitTaskDown, ty_mqtt_close
<1>17. CASE FotaOver BY <1>17 DEF FotaOver
<1>18. CASE SleepWait BY <1>18 DEF SleepWait
<1>19. CASE GoneOffline BY <1>0, <1>19 DEF GoneOffline, ty_mqtt_close
<1>20. CASE DeleteQueue
  <2>1. queue' \in Seq(Msgs) /\ Len(queue') <= QSize
    BY <1>20, <1>a DEF DeleteQueue
  <2> QED BY <1>20, <2>1 DEF DeleteQueue
<1>21. CASE Exit BY <1>21 DEF Exit
<1>22. ASSUME NEW m \in Msgs, PutCheck(m) PROVE TypeOK' BY <1>22 DEF PutCheck
<1>23. CASE PutMsg
  <2>1. putting \in Msgs
    BY <1>23 DEF PutMsg, PutIf
  <2>2. queue' \in Seq(Msgs) /\ Len(queue') <= QSize
    BY <1>23, <2>1, QueueFacts DEF PutMsg, PutIf
  <2> QED BY <1>23, <2>2 DEF PutMsg, PutIf
<1>24. CASE FotaStart BY <1>24 DEF FotaStart
<1>25. CASE FotaEnd BY <1>25 DEF FotaEnd
<1>26. CASE ty_at_mqtt_offline BY <1>26 DEF ty_at_mqtt_offline
<1>27. CASE ty_at_mqtt_resume BY <1>27 DEF ty_at_mqtt_resume
<1>28. CASE CloudReply
  <2>1. owed' \in Nat
    BY <1>28 DEF CloudReply
  <2> QED BY <1>28, <2>1 DEF CloudReply
<1>29. CASE CloudTask BY <1>29 DEF CloudTask
<1>30. CASE SessionLost BY <1>30, FaultType DEF SessionLost
<1>31. CASE UNCHANGED vars BY <1>31 DEF vars
<1> QED
  BY <1>1, <1>2, <1>3, <1>4, <1>5, <1>6, <1>7, <1>8, <1>9, <1>10, <1>11,
     <1>12, <1>13, <1>14, <1>15, <1>16, <1>17, <1>18, <1>19, <1>20, <1>21,
     <1>22, <1>23, <1>24, <1>25, <1>26, <1>27, <1>28, <1>29, <1>30, <1>31
     DEF Next, MainStep
-----------------------------------------------------------------------------
\* Before the first reply of a session there is a report for each count of
\* connect_err_cnt, unless the count stems from earlier sessions.
Counted ==
  conn =>
    /\ subscribing \/ status = "Connected" => owed = 0
    /\ status = "ReportUp" =>
         owed = 0 \/ (owed <= errcnt /\ errcnt <= ErrCnt + 1)
    /\ status = "WaitReportDown" =>
         owed <= 1 \/ (owed <= errcnt + 1 /\ errcnt <= ErrCnt + 1)

\* The session is used only between the connection and the next failure, and
\* nothing is left for a task that has exited.
Placed ==
  /\ subscribing => status = "Disconnect" /\ conn
  /\ conn => status \notin {"Created", "Init", "Unlock", "Exit"}
  /\ conn /\ status = "Disconnect" /\ ~subscribing => handle
  /\ status \in {"Unlock", "Exit", "Created"} => cache = <<>>
  /\ qstate # "live" => queue = <<>>
  /\ status \in {"Exit", "Created"} => qstate = "null"

IInv == TypeOK /\ OneSocket /\ Placed

\* Every step keeps the one socket and what depends on it.
LEMMA SocketStep == IInv /\ [Next]_vars => OneSocket' /\ Placed'
<1> SUFFICES ASSUME IInv, [Next]_vars PROVE OneSocket' /\ Placed'
  OBVIOUS
<1> USE DEF IInv, TypeOK, OneSocket, Placed, Move, session, flags, putter, bounds
<1>1. CASE Start BY <1>1 DEF Start
<1>2. CASE Advance BY <1>2 DEF Advance
<1>3. CASE InitFails BY <1>3 DEF InitFails, Fault
<1>4. CASE Connect BY <1>4 DEF Connect, ConnectWith
<1>5. CASE ConnectFails BY <1>5 DEF ConnectFails, Fault, ty_mqtt_close
<1>6. CASE Subscribed BY <1>6 DEF Subscribed
<1>7. CASE SubscribeFails BY <1>7 DEF SubscribeFails, Fault, ty_mqtt_close
<1>8. CASE ReportUp BY <1>8 DEF ReportUp
<1>9. CASE ReportUpFails BY <1>9 DEF ReportUpFails, ty_mqtt_close
<1>10. CASE ReplySeen BY <1>10 DEF ReplySeen
<1>11. CASE NoReply BY <1>11 DEF NoReply, NoReplyIf, ty_mqtt_close
<1>12. CASE TakeMsg BY <1>12 DEF TakeMsg, Publishing
<1>13. CASE Publish BY <1>13 DEF Publish, Publishing
<1>14. CASE PublishFails BY <1>14 DEF PublishFails, PublishFailsWith, AfterFailure, Publishing
<1>15. CASE TaskUpDone BY <1>15 DEF TaskUpDone
<1>16. CASE WaitTaskDown BY <1>16 DEF WaitTaskDown, ty_mqtt_close
<1>17. CASE FotaOver BY <1>17 DEF FotaOver
<1>18. CASE SleepWait BY <1>18 DEF SleepWait
<1>19. CASE GoneOffline BY <1>19 DEF GoneOffline, NothingLeft, ty_mqtt_close
<1>20. CASE DeleteQueue BY <1>20 DEF DeleteQueue
<1>21. CASE Exit BY <1>21 DEF Exit
<1>22. ASSUME NEW m \in Msgs, PutCheck(m) PROVE OneSocket' /\ Placed' BY <1>22 DEF PutCheck
<1>23. CASE PutMsg BY <1>23 DEF PutMsg, PutIf
<1>24. CASE FotaStart BY <1>24 DEF FotaStart
<1>25. CASE FotaEnd BY <1>25 DEF FotaEnd
<1>26. CASE ty_at_mqtt_offline BY <1>26 DEF ty_at_mqtt_offline
<1>27. CASE ty_at_mqtt_resume BY <1>27 DEF ty_at_mqtt_resume
<1>28. CASE CloudReply BY <1>28 DEF CloudReply, Reading, Publishing
<1>29. CASE CloudTask BY <1>29 DEF CloudTask
<1>30. CASE SessionLost BY <1>30 DEF SessionLost, Fault
<1>31. CASE UNCHANGED vars BY <1>31 DEF vars
<1> QED
  BY <1>1, <1>2, <1>3, <1>4, <1>5, <1>6, <1>7, <1>8, <1>9, <1>10, <1>11,
     <1>12, <1>13, <1>14, <1>15, <1>16, <1>17, <1>18, <1>19, <1>20, <1>21, <1>22,
     <1>23, <1>24, <1>25, <1>26, <1>27, <1>28, <1>29, <1>30, <1>31
     DEF Next, MainStep

\* Every step keeps the count of unanswered reports.
LEMMA CountStep == IInv /\ Counted /\ [Next]_vars => Counted'
<1> SUFFICES ASSUME IInv, Counted, [Next]_vars PROVE Counted'
  OBVIOUS
<1> USE MainAssumption DEF IInv, TypeOK, OneSocket, Placed, Counted, Move, session, flags, putter, bounds
<1>1. CASE Start BY <1>1 DEF Start
<1>2. CASE Advance BY <1>2 DEF Advance
<1>3. CASE InitFails BY <1>3 DEF InitFails, Fault
<1>4. CASE Connect BY <1>4 DEF Connect, ConnectWith
<1>5. CASE ConnectFails BY <1>5 DEF ConnectFails, Fault, ty_mqtt_close
<1>6. CASE Subscribed BY <1>6 DEF Subscribed
<1>7. CASE SubscribeFails BY <1>7 DEF SubscribeFails, Fault, ty_mqtt_close
<1>8. CASE ReportUp BY <1>8 DEF ReportUp
<1>9. CASE ReportUpFails BY <1>9 DEF ReportUpFails, ty_mqtt_close
<1>10. CASE ReplySeen BY <1>10 DEF ReplySeen
<1>11. CASE NoReply
  <2>1. CASE errcnt > ErrCnt
    BY <1>11, <2>1 DEF NoReply, NoReplyIf, ty_mqtt_close
  <2>2. CASE ~(errcnt > ErrCnt)
    <3>1. /\ status = "WaitReportDown" /\ status' = "ReportUp"
          /\ errcnt' = errcnt + 1 /\ owed' = owed /\ conn' = conn
          /\ subscribing' = subscribing
      BY <1>11, <2>2, Zenon DEF NoReply, NoReplyIf
    <3>2. conn => owed <= errcnt + 1 /\ errcnt + 1 <= ErrCnt + 1
      BY <2>2, <3>1
    <3> QED BY <3>1, <3>2
  <2> QED BY <2>1, <2>2
<1>12. CASE TakeMsg BY <1>12 DEF TakeMsg, Publishing
<1>13. CASE Publish BY <1>13 DEF Publish, Publishing
<1>14. CASE PublishFails BY <1>14 DEF PublishFails, PublishFailsWith, AfterFailure, Publishing
<1>15. CASE TaskUpDone BY <1>15 DEF TaskUpDone
<1>16. CASE WaitTaskDown BY <1>16 DEF WaitTaskDown, ty_mqtt_close
<1>17. CASE FotaOver BY <1>17 DEF FotaOver
<1>18. CASE SleepWait BY <1>18 DEF SleepWait
<1>19. CASE GoneOffline BY <1>19 DEF GoneOffline, NothingLeft, ty_mqtt_close
<1>20. CASE DeleteQueue BY <1>20 DEF DeleteQueue
<1>21. CASE Exit BY <1>21 DEF Exit
<1>22. ASSUME NEW m \in Msgs, PutCheck(m) PROVE Counted' BY <1>22 DEF PutCheck
<1>23. CASE PutMsg BY <1>23 DEF PutMsg, PutIf
<1>24. CASE FotaStart BY <1>24 DEF FotaStart
<1>25. CASE FotaEnd BY <1>25 DEF FotaEnd
<1>26. CASE ty_at_mqtt_offline BY <1>26 DEF ty_at_mqtt_offline
<1>27. CASE ty_at_mqtt_resume BY <1>27 DEF ty_at_mqtt_resume
<1>28. CASE CloudReply BY <1>28 DEF CloudReply, Reading, Publishing
<1>29. CASE CloudTask BY <1>29 DEF CloudTask
<1>30. CASE SessionLost BY <1>30 DEF SessionLost, Fault
<1>31. CASE UNCHANGED vars BY <1>31 DEF vars
<1> QED
  BY <1>1, <1>2, <1>3, <1>4, <1>5, <1>6, <1>7, <1>8, <1>9, <1>10, <1>11,
     <1>12, <1>13, <1>14, <1>15, <1>16, <1>17, <1>18, <1>19, <1>20, <1>21, <1>22,
     <1>23, <1>24, <1>25, <1>26, <1>27, <1>28, <1>29, <1>30, <1>31
     DEF Next, MainStep

\* The inductive invariant holds in every reachable state.
LEMMA Invariance == Spec => []IInv /\ []Counted
<1>1. Init => IInv
  <2>1. Init => OneSocket /\ Placed
    BY DEF Init, OneSocket, Placed
  <2> QED BY <2>1, TypeInit DEF IInv
<1>2. Init => Counted
  BY DEF Init, Counted
<1>3. IInv /\ [Next]_vars => IInv'
  BY TypeStep, SocketStep DEF IInv
<1> QED BY <1>1, <1>2, <1>3, CountStep, PTL DEF Spec

\* Types and bounds, in particular of the main task's queue.
THEOREM TypeCorrect == Spec => []TypeOK
<1>1. IInv => TypeOK
  BY DEF IInv
<1> QED BY <1>1, Invariance, PTL

\* However calls fail and however often the task sleeps and resumes, at most one
\* socket is open, and none once the task has exited.
THEOREM OneSocketHolds == Spec => []OneSocket
<1>1. IInv => OneSocket
  BY DEF IInv
<1> QED BY <1>1, Invariance, PTL

\* No session sees more than MQTT_REPORT_DOWN_ERR_CNT + 2 reports before the
\* first reply.
THEOREM UnansweredBoundedHolds == Spec => []UnansweredBounded
<1>1. IInv /\ Counted => UnansweredBounded
  BY MainAssumption DEF IInv, TypeOK, Counted, UnansweredBounded
<1> QED BY <1>1, Invariance, PTL
-----------------------------------------------------------------------------
(* The main task implements Outbox.                                        *)

\* A message before a queue is the head of the two together.
LEMMA HeadOfBox ==
  ASSUME NEW S, NEW e \in S, NEW q \in Seq(S)
  PROVE  /\ <<e>> \o q # <<>>
         /\ Head(<<e>> \o q) = e
         /\ Tail(<<e>> \o q) = q
<1>1. <<e>> \o q \in Seq(S) /\ Len(<<e>> \o q) = 1 + Len(q)
  BY OneElement, ConcatProperties
<1>2. <<e>> \o q # <<>>
  BY <1>1, LenProperties, EmptySeq
<1>3. Head(<<e>> \o q) = e
  BY <1>1, <1>2, OneElement, ConcatProperties, LenProperties, HeadTailProperties
<1>4. Tail(<<e>> \o q) \in Seq(S) /\ Len(Tail(<<e>> \o q)) = Len(q)
  BY <1>1, <1>2, HeadTailProperties, LenProperties
<1>5. \A i \in 1..Len(q) : Tail(<<e>> \o q)[i] = q[i]
  <2> TAKE i \in 1..Len(q)
  <2>1. Tail(<<e>> \o q)[i] = (<<e>> \o q)[i + 1]
    BY <1>1, <1>2, <1>4, HeadTailProperties, LenProperties
  <2>2. (<<e>> \o q)[i + 1] = q[i]
    BY OneElement, ConcatProperties, LenProperties
  <2> QED BY <2>1, <2>2
<1> QED BY <1>2, <1>3, <1>4, <1>5, SeqEqual

\* Taking the head of the queue into the cache changes nothing of the two.
LEMMA TakeKeepsBox ==
  ASSUME NEW S, NEW q \in Seq(S), q # <<>>
  PROVE  <<Head(q)>> \o Tail(q) = q
<1>1. Head(q) \in S /\ Tail(q) \in Seq(S) /\ Len(Tail(q)) = Len(q) - 1
  BY QueueFacts
<1>2. <<Head(q)>> \o Tail(q) \in Seq(S) /\ Len(<<Head(q)>> \o Tail(q)) = Len(q)
  BY <1>1, OneElement, ConcatProperties, LenProperties
<1>3. \A i \in 1..Len(q) : (<<Head(q)>> \o Tail(q))[i] = q[i]
  <2> TAKE i \in 1..Len(q)
  <2>1. CASE i = 1
    BY <1>1, <1>2, <2>1, OneElement, ConcatProperties, HeadTailProperties
  <2>2. CASE i # 1
    <3>1. (<<Head(q)>> \o Tail(q))[i] = Tail(q)[i - 1]
      BY <1>1, <2>2, OneElement, ConcatProperties, LenProperties
    <3>2. Tail(q)[i - 1] = q[i]
      BY <1>1, <2>2, HeadTailProperties, LenProperties
    <3> QED BY <3>1, <3>2
  <2> QED BY <2>1, <2>2
<1> QED BY <1>2, <1>3, SeqEqual

\* A message put behind the queue is put behind the two together.
LEMMA PutBehind ==
  ASSUME NEW S, NEW c \in Seq(S), NEW q \in Seq(S), NEW e \in S
  PROVE  c \o Append(q, e) = Append(c \o q, e)
<1>1. Append(q, e) = q \o <<e>> /\ Append(c \o q, e) = (c \o q) \o <<e>>
  BY ConcatProperties, AppendIsConcat
<1> QED BY <1>1, OneElement, ConcatAssociative

\* Steps that touch neither the messages nor the way to sleep.
Quiet == UNCHANGED <<cache, queue, got, Leaving>>

\* Every other step leaves messages and sleep alone.
LEMMA QuietStep ==
  IInv /\ [Next]_vars =>
    \/ Quiet \/ Start \/ TakeMsg \/ Publish \/ PublishFails
    \/ SleepWait \/ DeleteQueue \/ PutMsg
<1> SUFFICES ASSUME [Next]_vars,
                    ~(Start \/ TakeMsg \/ Publish \/ PublishFails
                        \/ SleepWait \/ DeleteQueue \/ PutMsg)
             PROVE  Quiet
  OBVIOUS
<1> USE DEF Quiet, Leaving, Move
<1>1. CASE Advance BY <1>1 DEF Advance
<1>2. CASE InitFails \/ ConnectFails \/ SubscribeFails \/ SessionLost
  BY <1>2 DEF InitFails, ConnectFails, SubscribeFails, SessionLost
<1>3. CASE Connect \/ Subscribed BY <1>3 DEF Connect, ConnectWith, Subscribed
<1>4. CASE ReportUp \/ ReportUpFails \/ ReplySeen
  BY <1>4 DEF ReportUp, ReportUpFails, ReplySeen
<1>5. CASE NoReply BY <1>5 DEF NoReply, NoReplyIf
<1>6. CASE TaskUpDone \/ FotaOver \/ GoneOffline
  BY <1>6 DEF TaskUpDone, FotaOver, GoneOffline
<1>7. CASE WaitTaskDown BY <1>7 DEF WaitTaskDown
<1>8. CASE Exit BY <1>8 DEF Exit
<1>9. ASSUME NEW m \in Msgs, PutCheck(m) PROVE Quiet BY <1>9 DEF PutCheck
<1>10. CASE FotaStart \/ FotaEnd \/ ty_at_mqtt_offline \/ ty_at_mqtt_resume
  BY <1>10 DEF FotaStart, FotaEnd, ty_at_mqtt_offline, ty_at_mqtt_resume
<1>11. CASE CloudReply \/ CloudTask BY <1>11 DEF CloudReply, CloudTask
<1>12. CASE UNCHANGED vars BY <1>12 DEF vars
<1> QED
  BY <1>1, <1>2, <1>3, <1>4, <1>5, <1>6, <1>7, <1>8, <1>9, <1>10, <1>11, <1>12
     DEF Next, MainStep

\* Every step of the main task is a step of the outbox, or none.
LEMMA BoxStep == IInv /\ [Next]_vars => [Box!Next]_(Box!vars)
<1> SUFFICES ASSUME IInv, [Next]_vars PROVE [Box!Next]_(Box!vars)
  OBVIOUS
<1>0. /\ cache \in Seq(Msgs) /\ Len(cache) <= 1 /\ queue \in Seq(Msgs)
      /\ got \in Seq(Msgs) /\ putting \in Msgs \cup {NoMsg}
  BY DEF IInv, TypeOK
<1>a. cache # <<>> =>
        /\ cache[1] \in Msgs
        /\ cache \o queue # <<>>
        /\ Head(cache \o queue) = cache[1]
        /\ Tail(cache \o queue) = queue
  BY <1>0, AtMostOne, HeadOfBox
<1>b. <<>> \o queue = queue
  BY <1>0, ConcatEmptySeq
<1>1. CASE Quiet
  BY <1>1 DEF Quiet, Box!vars
<1>2. CASE Start
  <2>1. cache = <<>> /\ queue = <<>> /\ cache' = <<>> /\ queue' = <<>> /\ got' = got
    BY <1>2 DEF Start, IInv, Placed
  <2>2. <<>> \o <<>> = <<>>
    BY <1>b, <2>1
  <2>3. Leaving /\ ~Leaving'
    BY <1>2 DEF Start, Leaving
  <2> QED BY <2>1, <2>2, <2>3 DEF Box!Next, Box!Return
<1>3. CASE TakeMsg
  <2>1. cache' \o queue' = cache \o queue
    BY <1>0, <1>b, <1>3, TakeKeepsBox DEF TakeMsg
  <2>2. got' = got /\ Leaving' = Leaving
    BY <1>3 DEF TakeMsg, Leaving
  <2> QED BY <2>1, <2>2 DEF Box!vars
<1>4. CASE Publish
  <2>1. cache # <<>> /\ got' = Append(got, cache[1]) /\ cache' = <<>> /\ queue' = queue
    BY <1>4 DEF Publish
  <2>2. Leaving' = Leaving
    BY <1>4 DEF Publish, Leaving
  <2> QED BY <1>a, <1>b, <2>1, <2>2 DEF Box!Next, Box!Sent
<1>5. CASE PublishFails
  <2>1. cache # <<>> /\ queue' = queue
    BY <1>5 DEF PublishFails, PublishFailsWith
  <2>2. got' = got \/ got' = Append(got, cache[1])
    BY <1>5, Zenon DEF PublishFails, PublishFailsWith
  <2>3. Leaving' = Leaving
    BY <1>5 DEF PublishFails, PublishFailsWith, AfterFailure, Publishing, Leaving
  <2>4. CASE cache' = cache
    BY <1>a, <2>1, <2>2, <2>3, <2>4 DEF Box!Next, Box!Unsure
  <2>5. CASE cache' # cache
    <3>1. cache' = <<>> /\ Cleared
      BY <1>5, <2>5 DEF PublishFails, PublishFailsWith
    <3>2. cache[1] \in {m \in Msgs : Kind[m] \in {"fota", "test"}} \/ Leaving
      BY <1>a, <2>1, <3>1 DEF Cleared, ClearedOnFailure, Leaving
    <3> QED BY <1>a, <1>b, <2>1, <2>2, <2>3, <3>1, <3>2 DEF Box!Next, Box!Unsure
  <2> QED BY <2>4, <2>5
<1>6. CASE SleepWait
  BY <1>6 DEF SleepWait, Move, Leaving, Box!Next, Box!Leave
<1>7. CASE DeleteQueue
  <2>1. cache = <<>> /\ cache' = <<>> /\ queue' = <<>> /\ got' = got
    BY <1>7 DEF DeleteQueue, IInv, Placed
  <2>2. Leaving /\ Leaving'
    BY <1>7 DEF DeleteQueue, Leaving
  <2>3. cache' \o queue' = <<>>
    BY <2>1, NoElement, ConcatEmptySeq
  <2> QED BY <2>1, <2>2, <2>3 DEF Box!Next, Box!Wipe
<1>8. CASE PutMsg
  <2>1. putting \in Msgs /\ cache' = cache /\ got' = got
    BY <1>0, <1>8 DEF PutMsg, PutIf
  <2>2. Leaving' = Leaving
    BY <1>8 DEF PutMsg, PutIf, Leaving
  <2>3. CASE queue' = queue
    BY <2>1, <2>2, <2>3 DEF Box!vars
  <2>4. CASE queue' = Append(queue, putting)
    <3>1. cache' \o queue' = Append(cache \o queue, putting)
      BY <1>0, <2>1, <2>4, PutBehind
    <3> QED BY <2>1, <2>2, <3>1 DEF Box!Next, Box!Put
  <2> QED BY <1>8, <2>3, <2>4 DEF PutMsg, PutIf
<1> QED BY <1>1, <1>2, <1>3, <1>4, <1>5, <1>6, <1>7, <1>8, QuietStep

\* The main task is the outbox it promises to be: through failed publishes, lost
\* sessions, FOTA runs, sleep and resume, for any messages and queue size.
THEOREM OutboxRefined == Spec => IsOutbox
<1>1. Init => Box!Init
  <2>1. Init => cache \o queue = <<>>
    BY NoElement, ConcatEmptySeq DEF Init
  <2> QED BY <2>1 DEF Init, Leaving, Box!Init
<1> QED BY <1>1, BoxStep, Invariance, PTL DEF Spec, IsOutbox, Box!Spec
=============================================================================
