-------------------------- MODULE FotaRecordProofs --------------------------
(***************************************************************************)
(* Proofs about FotaRecord, for every set of tasks and versions, every     *)
(* queue size and every number of faults.                                  *)
(***************************************************************************)
EXTENDS FotaRecord, TLAPS

USE DEF stored

(***************************************************************************)
(* Where a task can be.  The cloud sends a task once and the queue task    *)
(* takes it once, so a task the queue task has taken, and one the record   *)
(* names, is in no queue any more.                                         *)
(***************************************************************************)
Waits(t) == \E i \in 1..Len(qtq) : qtq[i] = t
Taken(t) == t \in arrived /\ ~Waits(t)

SentOnce ==
  /\ \A i, j \in 1..Len(qtq) : qtq[i] \in Tasks /\ qtq[i] = qtq[j] => i = j
  /\ \A i \in 1..Len(qtq) : qtq[i] \in Tasks => qtq[i] \in arrived

Placed ==
  /\ SentOnce
  /\ nv.task \in Tasks => Taken(nv.task)
  /\ cur \in Tasks => Taken(cur)

\* What the queue task has in hand in each of its states.
InHand ==
  /\ qpc \in {"save", "mark", "run", "fail", "report"} => cur \in Tasks
  /\ qpc = "save" => ~cached

(***************************************************************************)
(* A task that was run from the record cannot be run from it again: the    *)
(* record names it, if at all, as invalid, and the queue task is not about *)
(* to save it or to run it.                                                *)
(***************************************************************************)
Spent(t) ==
  /\ Taken(t)
  /\ ~(nv.task = t /\ nv.valid)
  /\ cur = t => qpc # "save" /\ ~(qpc = "mark" /\ cached)

RunOnce == \A t \in Tasks : again[t] = 0 \/ (again[t] = 1 /\ Spent(t))

(***************************************************************************)
(* A task that was installed is done with: as long as the record names it  *)
(* its target runs, so that the record is reported and not run.            *)
(***************************************************************************)
Fresh ==
  /\ qpc \in {"save", "mark", "run"} => version = From[cur] /\ cur \notin upgraded
  /\ qpc \in {"mark", "run"} => nv.task \in {cur, NoTask}
  /\ \A t \in upgraded : Taken(t) /\ (nv.task = t => version = To[t])

\* A good result is of the task in hand, and true; the record still names
\* that task, or has been erased.
GoodInHand ==
  /\ qpc \in {"save", "mark", "run", "fail"} => ~ok
  /\ qpc = "report" /\ ok =>
       /\ version = To[cur]
       /\ cached => nv.task \in {cur, NoTask}

\* When no save is given up, the record in RAM is the one in flash.
InSync == flash = nv
-----------------------------------------------------------------------------
(* The types.                                                              *)

\* Head, Tail and Append of a queue.
LEMMA QueueFacts ==
  ASSUME NEW S, NEW q \in Seq(S)
  PROVE  /\ Len(q) \in Nat
         /\ q # <<>> => /\ Len(q) >= 1 /\ Head(q) \in S /\ Head(q) = q[1]
                        /\ Tail(q) \in Seq(S) /\ Len(Tail(q)) = Len(q) - 1
                        /\ \A i \in 1..(Len(q) - 1) : Tail(q)[i] = q[i + 1]
         /\ \A e \in S : /\ Append(q, e) \in Seq(S)
                         /\ Len(Append(q, e)) = Len(q) + 1
                         /\ Append(q, e)[Len(q) + 1] = e
                         /\ \A i \in 1..Len(q) : Append(q, e)[i] = q[i]
OBVIOUS

\* The empty queue.
LEMMA EmptyQueue == ASSUME NEW S PROVE <<>> \in Seq(S) /\ Len(<<>>) = 0
OBVIOUS

\* The cache with its one report.
LEMMA OneReport ==
  ASSUME NEW r \in Reports PROVE <<r>> \in Seq(Reports) /\ Len(<<r>>) = 1
OBVIOUS

QueueType == qtq \in Seq(Tasks \cup {"check"}) /\ Len(qtq) <= QSize
HandType == /\ qpc \in QueueLabels /\ cur \in Tasks \cup {NoTask}
            /\ cached \in BOOLEAN /\ ok \in BOOLEAN
ReportsType == mqueue \in Seq(Reports) /\ Len(mqueue) <= QSize
CacheType == cache \in Seq(Reports) /\ Len(cache) <= 1

\* Putting a message to, and taking one from, the queue task's queue.
LEMMA PutType ==
  ASSUME TypeOK, NEW m \in Tasks \cup {"check"}, ty_queue_task_put_msg(m)
  PROVE  QueueType'
  BY QueueFacts, RecordAssumption DEF TypeOK, ty_queue_task_put_msg, QueueType

\* Taking one leaves the rest.
LEMMA TakeType == ASSUME TypeOK, NEW m, Take(m) PROVE QueueType'
  BY QueueFacts, RecordAssumption DEF TypeOK, Take, QueueType

\* Putting a report to the main task's queue.
LEMMA PutReportType ==
  ASSUME TypeOK, NEW r \in Reports, PutReport(r) PROVE ReportsType'
  BY QueueFacts, RecordAssumption DEF TypeOK, PutReport, ReportsType

\* The history counters stay within 2.
LEMMA SaturateType == \A n \in 0..2 : Saturate(n) \in 0..2
  BY DEF Saturate

\* Marking the record invalid keeps its task.
LEMMA MarkedType == ASSUME TypeOK PROVE
  /\ Marked(TRUE) \in Records
  /\ Marked(TRUE).task = nv.task /\ ~Marked(TRUE).valid
  BY DEF TypeOK, Marked, Records

\* A save stores a record or leaves the old one, and counts its failure.
LEMMA SaveType ==
  ASSUME TypeOK, NEW rec \in Records, ty_flash_save(rec)
  PROVE  nv' \in Records /\ flash' \in Records /\ faults' \in 0..MaxFaults
  BY RecordAssumption DEF TypeOK, ty_flash_save

\* The types hold at the first power-up.
LEMMA TypeInit == Init => TypeOK /\ InHand
<1> SUFFICES ASSUME Init PROVE TypeOK /\ InHand OBVIOUS
<1>1. nv \in Records /\ flash \in Records BY DEF Init, Records
<1>2. /\ qtq \in Seq(Tasks \cup {"check"}) /\ Len(qtq) <= QSize
      /\ mqueue \in Seq(Reports) /\ Len(mqueue) <= QSize
      /\ cache \in Seq(Reports) /\ Len(cache) <= 1
  BY EmptyQueue, RecordAssumption DEF Init
<1>3. pub \in [Tasks -> 0..2] /\ again \in [Tasks -> 0..2]
  BY DEF Init
<1>4. faults \in 0..MaxFaults BY RecordAssumption DEF Init
<1> QED BY <1>1, <1>2, <1>3, <1>4 DEF Init, TypeOK, InHand, QueueLabels, MainLabels

\* After a reboot RAM is as at power-up.
LEMMA PowerUpType ==
  ASSUME TypeOK, PowerUp
  PROVE  /\ nv' \in Records /\ flash' \in Records
         /\ QueueType' /\ HandType' /\ ReportsType' /\ CacheType'
         /\ main' \in MainLabels /\ link' \in BOOLEAN
         /\ pubd' \in BOOLEAN /\ fota' \in BOOLEAN /\ InHand'
<1>1. QueueType' /\ ReportsType' /\ CacheType'
  BY EmptyQueue, RecordAssumption DEF PowerUp, QueueType, ReportsType, CacheType
<1> QED BY <1>1 DEF PowerUp, HandType, InHand, QueueLabels, MainLabels, TypeOK

\* The queue task keeps the types.
LEMMA TypeQueueTask == ASSUME TypeOK, InHand, QueueTask PROVE TypeOK' /\ InHand'
<1> USE DEF TypeOK, QueueLabels, InHand, QueueType, ReportsType, mainVars,
            history, QueueGo
<1>1. CASE CheckNothing BY <1>1, TakeType DEF CheckNothing
<1>2. ASSUME NEW good \in BOOLEAN, NEW l \in {"report", "mark"}, Check(good, l)
      PROVE  TypeOK' /\ InHand'
  BY <1>2, TakeType DEF Check, Pending, Records
<1>3. CASE CheckUpgraded BY <1>2, <1>3 DEF CheckUpgraded
<1>4. CASE CheckFailed BY <1>2, <1>4 DEF CheckFailed
<1>5. CASE CheckRetry BY <1>2, <1>5 DEF CheckRetry
<1>6. ASSUME NEW t \in Tasks, ty_MgrModuleFota(t) PROVE TypeOK' /\ InHand'
  <2>1. ok' \in BOOLEAN BY <1>6, Zenon DEF ty_MgrModuleFota
  <2>2. QueueType' BY <1>6, TakeType DEF ty_MgrModuleFota
  <2> QED BY <1>6, <2>1, <2>2 DEF ty_MgrModuleFota
<1>7. CASE ty_SaveFOTAInfo
  <2>1. [task |-> cur, valid |-> TRUE, uploaded |-> FALSE] \in Records
    BY DEF Records
  <2> QED BY <1>7, <2>1, SaveType DEF ty_SaveFOTAInfo
<1>8. CASE MarkInvalid
  <2>1. again' \in [Tasks -> 0..2]
    BY <1>8, SaturateType DEF MarkInvalid, StartRun
  <2>2. nv' \in Records /\ flash' \in Records /\ faults' \in 0..MaxFaults
    BY <1>8, MarkedType, SaveType DEF MarkInvalid, StartRun
  <2> QED BY <1>8, <2>1, <2>2 DEF MarkInvalid, StartRun
<1>9. CASE RunFails BY <1>9 DEF RunFails
<1>10. CASE ty_UpdateFOTAInfo BY <1>10, MarkedType, SaveType DEF ty_UpdateFOTAInfo
<1>11. CASE put_fota_task_up_msg
  <2>1. Report(IF cached THEN nv.task ELSE cur, ok) \in Reports
    BY DEF Report, Reports, Records
  <2>2. ReportsType' BY <1>11, <2>1, PutReportType DEF put_fota_task_up_msg
  <2> QED BY <1>11, <2>2 DEF put_fota_task_up_msg
<1>12. CASE MgrDone BY <1>12 DEF MgrDone
<1> QED BY <1>1, <1>3, <1>4, <1>5, <1>6, <1>7, <1>8, <1>9, <1>10, <1>11, <1>12
        DEF QueueTask, ty_CheckFota

\* So do the main task and its commands.
LEMMA TypeMainTask ==
  ASSUME TypeOK, InHand, MainTask \/ GoSleep \/ ty_at_mqtt_resume
  PROVE  TypeOK' /\ InHand'
<1> USE DEF TypeOK, MainLabels, InHand, QueueType, queueVars, history, MainGo
<1>1. CASE Connect BY <1>1 DEF Connect
<1>2. CASE Connected BY <1>2, PutType DEF Connected
<1>3. CASE ReportUp BY <1>3 DEF ReportUp
<1>4. CASE TakeReport
  <2>1. /\ Head(mqueue) \in Reports /\ Tail(mqueue) \in Seq(Reports)
        /\ Len(Tail(mqueue)) <= QSize
    BY <1>4, QueueFacts, RecordAssumption DEF TakeReport
  <2>2. CacheType' BY <1>4, <2>1, OneReport DEF TakeReport, CacheType
  <2> QED BY <1>4, <2>1, <2>2 DEF TakeReport, CacheType
<1>5. CASE PublishOk
  <2>1. pub' \in [Tasks -> 0..2] BY <1>5, SaturateType DEF PublishOk
  <2> QED BY <1>5, <2>1 DEF PublishOk
<1>6. CASE ty_EraseFOTAInfo
  <2>1. CacheType' BY <1>6, EmptyQueue DEF ty_EraseFOTAInfo, CacheType
  <2>2. [task |-> NoTask, valid |-> FALSE, uploaded |-> TRUE] \in Records
    BY DEF Records
  <2>3. nv' \in Records /\ flash' \in Records /\ faults' \in 0..MaxFaults
    BY <1>6, <2>2, SaveType DEF ty_EraseFOTAInfo
  <2> QED BY <1>6, <2>1, <2>3 DEF ty_EraseFOTAInfo, CacheType
<1>7. CASE PublishFails
  <2>1. CacheType' BY <1>7, EmptyQueue DEF PublishFails, CacheType
  <2>2. faults' \in 0..MaxFaults BY <1>7, RecordAssumption DEF PublishFails
  <2> QED BY <1>7, <2>1, <2>2 DEF PublishFails, CacheType
<1>8. CASE TaskUpDone BY <1>8 DEF TaskUpDone
<1>9. CASE TaskDown BY <1>9 DEF TaskDown
<1>10. CASE FotaOver BY <1>10 DEF FotaOver
<1>11. CASE GoSleep BY <1>11 DEF GoSleep
<1>12. CASE SleepDrain BY <1>12 DEF SleepDrain
<1>13. CASE Asleep BY <1>13 DEF Asleep
<1>14. CASE ty_at_mqtt_resume
  <2>1. CacheType' /\ ReportsType'
    BY <1>14, EmptyQueue, RecordAssumption DEF ty_at_mqtt_resume, CacheType, ReportsType
  <2> QED BY <1>14, <2>1 DEF ty_at_mqtt_resume, CacheType, ReportsType
<1> QED BY <1>1, <1>2, <1>3, <1>4, <1>5, <1>6, <1>7, <1>8, <1>9, <1>10, <1>11,
           <1>12, <1>13, <1>14 DEF MainTask

\* Every step keeps the types, and the task in hand.
LEMMA TypeStep == TypeOK /\ InHand /\ [Next]_vars => TypeOK' /\ InHand'
<1> SUFFICES ASSUME TypeOK, InHand, [Next]_vars PROVE TypeOK' /\ InHand'
  OBVIOUS
<1>1. ASSUME NEW t \in Tasks, CloudTask(t) PROVE TypeOK' /\ InHand'
  BY <1>1, PutType DEF CloudTask, TypeOK, InHand, QueueType, mainVars
<1>2. CASE LinkLoss
  <2>1. faults' \in 0..MaxFaults BY <1>2, RecordAssumption DEF LinkLoss, TypeOK
  <2> QED BY <1>2, <2>1 DEF LinkLoss, TypeOK, InHand, queueVars, history
<1>3. CASE PowerLoss
  BY <1>3, PowerUpType, RecordAssumption
     DEF PowerLoss, TypeOK, QueueType, HandType, ReportsType, CacheType, history
<1>4. CASE RunReboots
  <2>1. version' \in Versions /\ upgraded' \subseteq Tasks
    BY <1>4, RecordAssumption DEF RunReboots, TypeOK, InHand
  <2> QED BY <1>4, <2>1, PowerUpType
      DEF RunReboots, TypeOK, QueueType, HandType, ReportsType, CacheType
<1>5. CASE UNCHANGED vars
  BY <1>5 DEF vars, queueVars, mainVars, history, TypeOK, InHand
<1> QED BY <1>1, <1>2, <1>3, <1>4, <1>5, TypeQueueTask, TypeMainTask DEF Next

\* Types hold in every reachable state: neither queue passes its size, the
\* cache holds one report, and a task runs only with its record in hand.
THEOREM TypeCorrect == Spec => []TypeOK
  BY TypeInit, TypeStep, PTL DEF Spec
-----------------------------------------------------------------------------
(* Where the tasks are.                                                    *)

\* What a put adds to the queue task's queue: the message alone, and a task
\* from the cloud only if it was not sent before.
LEMMA PutPlaces ==
  ASSUME TypeOK, SentOnce, NEW m \in Tasks \cup {"check"},
         ty_queue_task_put_msg(m), arrived \subseteq arrived',
         m \in Tasks => m \in arrived' /\ m \notin arrived
  PROVE  SentOnce' /\ \A t \in Tasks : Waits(t)' => Waits(t) \/ t = m
<1>1. CASE qtq' = qtq BY <1>1 DEF SentOnce, Waits
<1>2. CASE qtq' = Append(qtq, m)
  <2>1. /\ Len(qtq) \in Nat /\ Len(qtq') = Len(qtq) + 1
        /\ qtq'[Len(qtq) + 1] = m
        /\ \A i \in 1..Len(qtq) : qtq'[i] = qtq[i]
    BY <1>2, QueueFacts DEF TypeOK
  <2>2. \A i \in 1..Len(qtq') : i \in 1..Len(qtq) \/ i = Len(qtq) + 1
    BY <2>1
  <2>3. \A t \in Tasks : Waits(t)' => Waits(t) \/ t = m
    BY <2>1, <2>2 DEF Waits
  <2>4. \A i \in 1..Len(qtq') : qtq'[i] \in Tasks => qtq'[i] \in arrived'
    BY <2>1, <2>2 DEF SentOnce
  <2>5. ASSUME NEW i \in 1..Len(qtq'), NEW j \in 1..Len(qtq'),
               qtq'[i] \in Tasks, qtq'[i] = qtq'[j]
        PROVE  i = j
    BY <2>1, <2>2, <2>5 DEF SentOnce
  <2> QED BY <2>3, <2>4, <2>5 DEF SentOnce
<1> QED BY <1>1, <1>2 DEF ty_queue_task_put_msg

\* A task that is taken is in the queue no more.
LEMMA TakePlaces ==
  ASSUME TypeOK, SentOnce, NEW m \in Tasks \cup {"check"}, Take(m),
         UNCHANGED arrived
  PROVE  /\ SentOnce' /\ \A t \in Tasks : Waits(t)' => Waits(t)
         /\ m \in Tasks => Taken(m)' /\ Waits(m)
<1>1. /\ Len(qtq) \in Nat /\ Len(qtq) >= 1 /\ Len(qtq') = Len(qtq) - 1
      /\ qtq[1] = m
      /\ \A i \in 1..(Len(qtq) - 1) : qtq'[i] = qtq[i + 1]
  BY QueueFacts DEF TypeOK, Take
<1>2. \A i \in 1..Len(qtq') : i + 1 \in 1..Len(qtq) /\ qtq'[i] = qtq[i + 1] /\ i + 1 # 1
  BY <1>1
<1>3. \A t \in Tasks : Waits(t)' => Waits(t) BY <1>2 DEF Waits
<1>4. m \in Tasks => Taken(m)' /\ Waits(m)
  BY <1>1, <1>2 DEF Waits, Taken, SentOnce
<1>5. \A i \in 1..Len(qtq') : qtq'[i] \in Tasks => qtq'[i] \in arrived'
  BY <1>2 DEF SentOnce
<1>6. ASSUME NEW i \in 1..Len(qtq'), NEW j \in 1..Len(qtq'),
             qtq'[i] \in Tasks, qtq'[i] = qtq'[j]
      PROVE  i = j
  <2>1. i + 1 = j + 1 BY <1>2, <1>6 DEF SentOnce
  <2> QED BY <2>1
<1> QED BY <1>3, <1>4, <1>5, <1>6 DEF SentOnce

\* The main task leaves the queue task alone; it may erase the record, and put
\* a check to the queue.
Aside ==
  /\ UNCHANGED <<version, qpc, cur, cached, ok, arrived, upgraded, again>>
  /\ UNCHANGED qtq \/ ty_queue_task_put_msg("check")
  /\ nv' = nv \/ (nv'.task = NoTask /\ ~nv'.valid)

\* So does every step of the main task, and the loss of the link.
LEMMA MainAside ==
  ASSUME MainTask \/ GoSleep \/ ty_at_mqtt_resume \/ LinkLoss PROVE Aside
  BY DEF Aside, MainTask, Connect, Connected, ReportUp, TakeReport, PublishOk,
         ty_EraseFOTAInfo, ty_flash_save, PublishFails, TaskUpDone, TaskDown,
         FotaOver, GoSleep, SleepDrain, Asleep, ty_at_mqtt_resume, LinkLoss, MainGo, queueVars,
         history

\* Such a step takes no task out of the queue and adds none.
LEMMA AsidePlaces ==
  ASSUME TypeOK, SentOnce, Aside
  PROVE  SentOnce' /\ \A t \in Tasks : Taken(t) => Taken(t)'
<1>1. CASE UNCHANGED qtq BY <1>1 DEF Aside, SentOnce, Taken, Waits
<1>2. CASE ty_queue_task_put_msg("check")
  BY <1>2, PutPlaces, RecordAssumption DEF Aside, Taken
<1> QED BY <1>1, <1>2 DEF Aside

\* After a reboot no task waits.
LEMMA PowerUpPlaces ==
  ASSUME PowerUp, UNCHANGED arrived
  PROVE  /\ SentOnce' /\ \A t \in Tasks : Taken(t) => Taken(t)'
         /\ cur' \notin Tasks /\ qpc' = "idle" /\ ~ok'
<1>1. Len(qtq') = 0 BY EmptyQueue DEF PowerUp
<1> QED BY <1>1, RecordAssumption DEF PowerUp, SentOnce, Taken, Waits

\* Every step keeps the tasks where they are placed, and lets none run from
\* the record a second time.
LEMMA PlacedStep ==
  /\ TypeOK /\ InHand /\ InSync /\ Placed /\ RunOnce /\ [Next]_vars
  => Placed' /\ RunOnce'
<1> SUFFICES ASSUME TypeOK, InHand, InSync, Placed, RunOnce, [Next]_vars
             PROVE  Placed' /\ RunOnce'
  OBVIOUS
<1>a. SentOnce BY DEF Placed
<1>1. CASE Aside
  <2>1. SentOnce' /\ \A t \in Tasks : Taken(t) => Taken(t)'
    BY <1>a, <1>1, AsidePlaces
  <2>2. UNCHANGED <<cur, qpc, cached, again>> BY <1>1 DEF Aside
  <2>3. nv' = nv \/ (nv'.task \notin Tasks /\ ~nv'.valid)
    BY <1>1, RecordAssumption DEF Aside
  <2> QED BY <2>1, <2>2, <2>3 DEF Placed, RunOnce, Spent
<1>2. ASSUME NEW t \in Tasks, CloudTask(t) PROVE Placed' /\ RunOnce'
  <2>1. UNCHANGED <<cur, qpc, cached, again, nv>> /\ arrived' = arrived \cup {t}
    BY <1>2 DEF CloudTask
  <2>2. SentOnce' /\ \A u \in Tasks : Waits(u)' => Waits(u) \/ u = t
    BY <1>a, <1>2, <2>1, PutPlaces DEF CloudTask
  <2>3. \A u \in Tasks : Taken(u) => Taken(u)'
    BY <1>2, <2>1, <2>2 DEF Taken, CloudTask
  <2> QED BY <2>1, <2>2, <2>3 DEF Placed, RunOnce, Spent
<1>3. CASE PowerLoss \/ RunReboots
  <2>1. PowerUp /\ UNCHANGED <<arrived, nv, again>>
    BY <1>3 DEF PowerLoss, RunReboots, PowerUp, InSync, history
  <2> QED BY <2>1, PowerUpPlaces DEF Placed, RunOnce, Spent
<1>4. CASE CheckNothing
  <2>1. Take("check") /\ UNCHANGED <<arrived, nv, again, cur, qpc, cached>>
    BY <1>4 DEF CheckNothing, history
  <2>2. SentOnce' /\ \A t \in Tasks : Taken(t) => Taken(t)'
    BY <1>a, <2>1, TakePlaces DEF Taken
  <2> QED BY <2>1, <2>2 DEF Placed, RunOnce, Spent
<1>5. CASE CheckUpgraded \/ CheckFailed \/ CheckRetry
  <2>1. /\ Take("check") /\ UNCHANGED <<arrived, nv, again>>
        /\ cur' = nv.task /\ nv.task \in Tasks
        /\ qpc' = "report" \/ (qpc' = "mark" /\ nv.valid)
    BY <1>5 DEF CheckUpgraded, CheckFailed, CheckRetry, Check, Pending, history,
                QueueGo, TypeOK, Records
  <2>2. SentOnce' /\ \A t \in Tasks : Taken(t) => Taken(t)'
    BY <1>a, <2>1, TakePlaces DEF Taken
  <2> QED BY <2>1, <2>2 DEF Placed, RunOnce, Spent
<1>6. ASSUME NEW t \in Tasks, ty_MgrModuleFota(t) PROVE Placed' /\ RunOnce'
  <2>1. Take(t) /\ UNCHANGED <<arrived, nv, again>> /\ cur' = t
    BY <1>6 DEF ty_MgrModuleFota, history
  <2>2. SentOnce' /\ Taken(t)' /\ Waits(t) /\ \A u \in Tasks : Taken(u) => Taken(u)'
    BY <1>a, <2>1, TakePlaces DEF Taken
  <2>3. Placed' BY <2>1, <2>2 DEF Placed
  <2>4. again[t] = 0 BY <2>2 DEF RunOnce, Spent, Taken
  <2> QED BY <2>1, <2>2, <2>3, <2>4 DEF RunOnce, Spent
<1>7. CASE ty_SaveFOTAInfo
  <2>1. /\ UNCHANGED <<qtq, cur, cached, arrived, again>> /\ qpc = "save"
        /\ nv'.task = cur /\ qpc' \in {"mark", "run"}
    BY <1>7 DEF ty_SaveFOTAInfo, ty_flash_save, history
  <2>2. cur \in Tasks /\ ~cached /\ again[cur] = 0
    BY <2>1 DEF InHand, RunOnce, Spent
  <2> QED BY <2>1, <2>2 DEF Placed, SentOnce, Taken, Waits, RunOnce, Spent
<1>8. CASE MarkInvalid
  <2>1. /\ UNCHANGED <<qtq, cur, cached, arrived>> /\ qpc = "mark" /\ qpc' = "run"
        /\ nv'.task = nv.task /\ ~nv'.valid
        /\ again' = IF cached THEN [again EXCEPT ![cur] = Saturate(@)] ELSE again
    BY <1>8, MarkedType DEF MarkInvalid, StartRun, ty_flash_save, QueueGo
  <2>2. Placed' BY <2>1 DEF Placed, SentOnce, Taken, Waits
  <2>3. \A t \in Tasks : Taken(t)' <=> Taken(t) BY <2>1 DEF Taken, Waits
  <2>4. cur \in Tasks /\ Taken(cur) /\ (cached => again[cur] = 0)
    BY <2>1 DEF InHand, RunOnce, Spent, Placed
  <2>5. \A t \in Tasks : again'[t] = again[t] \/ (t = cur /\ again'[t] = 1)
    BY <2>1, <2>4 DEF Saturate, TypeOK
  <2>6. \A t \in Tasks : Spent(t) => Spent(t)' BY <2>1, <2>3 DEF Spent
  <2>7. Spent(cur)' BY <2>1, <2>3, <2>4 DEF Spent
  <2> QED BY <2>1, <2>2, <2>5, <2>6, <2>7 DEF RunOnce
<1>9. CASE RunFails \/ ty_UpdateFOTAInfo \/ put_fota_task_up_msg \/ MgrDone
  <2>1. /\ UNCHANGED <<qtq, cur, cached, arrived, again>> /\ nv'.task = nv.task
        /\ nv'.valid => nv.valid
        /\ qpc' \notin {"save", "mark"}
    BY <1>9, MarkedType DEF RunFails, ty_UpdateFOTAInfo, ty_flash_save,
                            put_fota_task_up_msg, MgrDone, QueueGo, history
  <2> QED BY <2>1 DEF Placed, SentOnce, Taken, Waits, RunOnce, Spent
<1>10. CASE UNCHANGED vars
  BY <1>10 DEF vars, queueVars, history, Placed, SentOnce, Taken, Waits,
               RunOnce, Spent
<1> QED BY <1>1, <1>2, <1>3, <1>4, <1>5, <1>6, <1>7, <1>8, <1>9, <1>10, MainAside
        DEF Next, QueueTask, ty_CheckFota

\* At the first power-up no task has been sent.
LEMMA PlacedInit == Init => Placed /\ RunOnce
<1> SUFFICES ASSUME Init PROVE Placed /\ RunOnce OBVIOUS
<1>1. Len(qtq) = 0 BY EmptyQueue DEF Init
<1> QED BY <1>1, RecordAssumption DEF Init, Placed, SentOnce, RunOnce

\* Saves that succeed keep flash and RAM in step.
LEMMA SyncStep ==
  ASSUME ~SaveFails PROVE InSync /\ [Next]_vars => InSync'
<1> SUFFICES ASSUME InSync, [Next]_vars PROVE InSync' OBVIOUS
<1> USE DEF InSync
<1>1. CASE UNCHANGED stored BY <1>1
<1>2. ASSUME NEW rec, ty_flash_save(rec) PROVE InSync' BY <1>2 DEF ty_flash_save
<1>3. CASE QueueTask
  BY <1>1, <1>2, <1>3 DEF QueueTask, ty_CheckFota, CheckNothing, CheckUpgraded,
     CheckFailed, CheckRetry, Check, ty_MgrModuleFota, ty_SaveFOTAInfo,
     MarkInvalid, StartRun, RunFails, ty_UpdateFOTAInfo, put_fota_task_up_msg,
     MgrDone
<1>4. CASE MainTask \/ GoSleep \/ ty_at_mqtt_resume \/ LinkLoss
  BY <1>1, <1>2, <1>4 DEF MainTask, Connect, Connected, ReportUp, TakeReport,
     PublishOk, ty_EraseFOTAInfo, PublishFails, TaskUpDone, TaskDown, FotaOver,
     GoSleep, SleepDrain, Asleep, ty_at_mqtt_resume, LinkLoss, MainGo
<1>5. CASE PowerLoss \/ RunReboots BY <1>5 DEF PowerLoss, RunReboots, PowerUp
<1>6. ASSUME NEW t \in Tasks, CloudTask(t) PROVE InSync'
  BY <1>1, <1>6 DEF CloudTask
<1>7. CASE UNCHANGED vars BY <1>1, <1>7 DEF vars
<1> QED BY <1>3, <1>4, <1>5, <1>6, <1>7 DEF Next

\* As long as no save is given up, no task is run from the record twice,
\* whatever power losses, failed installations and reconnections come and
\* whatever tasks the cloud sends in between: the record is marked invalid
\* before the run.
THEOREM CachedOnceHolds ==
  ASSUME ~SaveFails PROVE Spec => []CachedOnce
<1>0. Init => InSync BY DEF Init, InSync
<1>1. ASSUME RunOnce, NEW t \in Tasks PROVE again[t] <= 1
  <2>1. again[t] = 0 \/ again[t] = 1 BY <1>1, Zenon DEF RunOnce
  <2> QED BY <2>1
<1>2. RunOnce => CachedOnce BY <1>1 DEF CachedOnce
<1> QED BY <1>0, <1>2, TypeInit, PlacedInit, TypeStep, SyncStep, PlacedStep, PTL
        DEF Spec
-----------------------------------------------------------------------------
(* What is installed.                                                      *)

\* Every step keeps an installed task from being run again.
LEMMA FreshStep ==
  TypeOK /\ InHand /\ InSync /\ Placed /\ Fresh /\ [Next]_vars => Fresh'
<1> SUFFICES ASSUME TypeOK, InHand, InSync, Placed, Fresh, [Next]_vars PROVE Fresh'
  OBVIOUS
<1>a. SentOnce /\ upgraded \subseteq Tasks BY DEF Placed, TypeOK
<1>1. CASE Aside
  <2>1. \A t \in Tasks : Taken(t) => Taken(t)' BY <1>a, <1>1, AsidePlaces
  <2>2. UNCHANGED <<cur, qpc, version, upgraded>> BY <1>1 DEF Aside
  <2>3. nv' = nv \/ (nv'.task = NoTask /\ nv'.task \notin Tasks)
    BY <1>1, RecordAssumption DEF Aside
  <2> QED BY <1>a, <2>1, <2>2, <2>3 DEF Fresh
<1>2. ASSUME NEW t \in Tasks, CloudTask(t) PROVE Fresh'
  <2>1. UNCHANGED <<cur, qpc, version, upgraded, nv>> /\ arrived' = arrived \cup {t}
    BY <1>2 DEF CloudTask
  <2>2. \A u \in Tasks : Waits(u)' => Waits(u) \/ u = t
    BY <1>a, <1>2, <2>1, PutPlaces DEF CloudTask
  <2>3. \A u \in Tasks : Taken(u) => Taken(u)'
    BY <1>2, <2>1, <2>2 DEF Taken, CloudTask
  <2> QED BY <1>a, <2>1, <2>3 DEF Fresh
<1>3. CASE PowerLoss
  <2>1. PowerUp /\ UNCHANGED <<arrived, nv, version, upgraded>>
    BY <1>3 DEF PowerLoss, PowerUp, InSync, history
  <2> QED BY <1>a, <2>1, PowerUpPlaces DEF Fresh
<1>4. CASE RunReboots
  <2>1. PowerUp /\ UNCHANGED <<arrived, nv>> /\ qpc = "run"
    BY <1>4 DEF RunReboots, PowerUp, InSync
  <2>2. /\ qpc' = "idle" /\ \A t \in Tasks : Taken(t) => Taken(t)'
    BY <2>1, PowerUpPlaces
  <2>3. cur \in Tasks /\ Taken(cur) BY <2>1 DEF InHand, Placed
  <2>4. CASE UNCHANGED <<version, upgraded>> BY <1>a, <2>1, <2>2, <2>4 DEF Fresh
  <2>5. CASE version' = To[cur] /\ upgraded' = upgraded \cup {cur}
    <3>1. ASSUME NEW t \in upgraded' PROVE Taken(t)' /\ (nv'.task = t => version' = To[t])
      <4>1. CASE t = cur BY <2>2, <2>3, <2>5, <4>1
      <4>2. CASE t # cur
        <5>1. t \in upgraded /\ t \in Tasks BY <1>a, <2>5, <4>2
        <5>2. nv.task # t BY <2>1, <4>2, <5>1, RecordAssumption DEF Fresh
        <5> QED BY <2>1, <2>2, <5>1, <5>2 DEF Fresh
      <4> QED BY <4>1, <4>2
    <3> QED BY <2>2, <3>1 DEF Fresh
  <2> QED BY <1>4, <2>4, <2>5 DEF RunReboots
<1>5. CASE CheckNothing \/ CheckUpgraded \/ CheckFailed \/ CheckRetry
  <2>1. /\ Take("check") /\ UNCHANGED <<arrived, nv, version, upgraded>> /\ qpc = "idle"
        /\ \/ qpc' \in {"idle", "report"}
           \/ /\ qpc' = "mark" /\ cur' = nv.task /\ nv.task \in Tasks
              /\ version = From[nv.task]
    BY <1>5 DEF CheckNothing, CheckUpgraded, CheckFailed, CheckRetry, Check, Take,
                Pending, history, QueueGo, TypeOK, Records
  <2>2. \A t \in Tasks : Taken(t) => Taken(t)' BY <1>a, <2>1, TakePlaces DEF Taken
  <2>3. \A t \in Tasks : From[t] # To[t] BY RecordAssumption
  <2> QED BY <1>a, <2>1, <2>2, <2>3 DEF Fresh
<1>6. ASSUME NEW t \in Tasks, ty_MgrModuleFota(t) PROVE Fresh'
  <2>1. /\ Take(t) /\ UNCHANGED <<arrived, nv, version, upgraded>> /\ cur' = t
        /\ qpc' = IF version = From[t] THEN "save" ELSE "report"
    BY <1>6 DEF ty_MgrModuleFota, history, QueueGo
  <2>2. Waits(t) /\ \A u \in Tasks : Taken(u) => Taken(u)'
    BY <1>a, <2>1, TakePlaces DEF Taken
  <2>3. t \notin upgraded BY <2>2 DEF Fresh, Taken
  <2> QED BY <1>a, <2>1, <2>2, <2>3 DEF Fresh
<1>7. CASE ty_SaveFOTAInfo
  <2>1. /\ UNCHANGED <<qtq, cur, arrived, version, upgraded>> /\ qpc = "save"
        /\ nv'.task = cur /\ qpc' \in {"mark", "run"}
    BY <1>7 DEF ty_SaveFOTAInfo, ty_flash_save, history
  <2> QED BY <2>1 DEF Fresh, Taken, Waits
<1>8. CASE MarkInvalid
  <2>1. /\ UNCHANGED <<qtq, cur, arrived, version, upgraded>> /\ qpc = "mark"
        /\ nv'.task = nv.task /\ qpc' = "run"
    BY <1>8, MarkedType DEF MarkInvalid, StartRun, ty_flash_save, QueueGo
  <2> QED BY <2>1 DEF Fresh, Taken, Waits
<1>9. CASE RunFails \/ ty_UpdateFOTAInfo \/ put_fota_task_up_msg \/ MgrDone
  <2>1. /\ UNCHANGED <<qtq, cur, arrived, version, upgraded>> /\ nv'.task = nv.task
        /\ qpc' \notin {"save", "mark", "run"}
    BY <1>9, MarkedType DEF RunFails, ty_UpdateFOTAInfo, ty_flash_save,
                            put_fota_task_up_msg, MgrDone, QueueGo, history
  <2> QED BY <2>1 DEF Fresh, Taken, Waits
<1>10. CASE UNCHANGED vars
  BY <1>10 DEF vars, queueVars, history, Fresh, Taken, Waits
<1> QED BY <1>1, <1>2, <1>3, <1>4, <1>5, <1>6, <1>7, <1>8, <1>9, <1>10, MainAside
        DEF Next, QueueTask, ty_CheckFota

\* As long as no save is given up, no firmware is installed over one it was not
\* made for, nor a second time, for any tasks, tasks that go back to an earlier
\* version included, and whatever power losses come before the installed task is
\* reported.
THEOREM InstalledOnceHolds ==
  ASSUME ~SaveFails PROVE Spec => []InstalledOnce
<1>1. Init => Fresh /\ InSync BY DEF Init, Fresh, InSync
<1>2. Fresh => InstalledOnce BY DEF Fresh, InstalledOnce
<1> QED BY <1>1, <1>2, TypeInit, PlacedInit, TypeStep, SyncStep, PlacedStep,
           FreshStep, PTL DEF Spec
-----------------------------------------------------------------------------
(* What a report of success says.                                          *)

\* Every step keeps a good result true until it is reported.
LEMMA GoodStep ==
  TypeOK /\ InHand /\ GoodInHand /\ [Next]_vars => GoodInHand'
<1> SUFFICES ASSUME TypeOK, InHand, GoodInHand, [Next]_vars PROVE GoodInHand'
  OBVIOUS
<1>1. CASE Aside BY <1>1 DEF Aside, GoodInHand
<1>2. ASSUME NEW t \in Tasks, CloudTask(t) PROVE GoodInHand'
  BY <1>2 DEF CloudTask, GoodInHand
<1>3. CASE PowerLoss \/ RunReboots
  BY <1>3 DEF PowerLoss, RunReboots, PowerUp, GoodInHand
<1>4. CASE CheckNothing BY <1>4 DEF CheckNothing, GoodInHand
<1>5. CASE CheckUpgraded \/ CheckFailed \/ CheckRetry
  BY <1>5 DEF CheckUpgraded, CheckFailed, CheckRetry, Check, QueueGo, GoodInHand
<1>6. ASSUME NEW t \in Tasks, ty_MgrModuleFota(t) PROVE GoodInHand'
  <2>1. /\ ok' <=> version = To[t] /\ cur' = t /\ ~cached' /\ UNCHANGED version
        /\ qpc' = IF version = From[t] THEN "save" ELSE "report"
    BY <1>6 DEF ty_MgrModuleFota, QueueGo
  <2> QED BY <2>1, RecordAssumption DEF GoodInHand
<1>7. CASE ty_SaveFOTAInfo BY <1>7 DEF ty_SaveFOTAInfo, GoodInHand
<1>8. CASE MarkInvalid BY <1>8 DEF MarkInvalid, StartRun, QueueGo, GoodInHand
<1>9. CASE RunFails \/ ty_UpdateFOTAInfo \/ put_fota_task_up_msg \/ MgrDone
  <2>1. CASE RunFails BY <2>1 DEF RunFails, QueueGo, GoodInHand
  <2>2. CASE ty_UpdateFOTAInfo BY <2>2 DEF ty_UpdateFOTAInfo, QueueGo, GoodInHand
  <2>3. CASE put_fota_task_up_msg
    <3>1. qpc' = "idle" \/ qpc' = "done" BY <2>3 DEF put_fota_task_up_msg, QueueGo
    <3> QED BY <3>1 DEF GoodInHand
  <2>4. CASE MgrDone BY <2>4 DEF MgrDone, QueueGo, GoodInHand
  <2> QED BY <1>9, <2>1, <2>2, <2>3, <2>4
<1>10. CASE UNCHANGED vars BY <1>10 DEF vars, queueVars, GoodInHand
<1> QED BY <1>1, <1>2, <1>3, <1>4, <1>5, <1>6, <1>7, <1>8, <1>9, <1>10, MainAside
        DEF Next, QueueTask, ty_CheckFota

\* What a step may add to the main task's queue.
TrueReport ==
  \A n \in 1..Len(mqueue') :
    /\ n = Len(mqueue) + 1 /\ mqueue'[n].ok /\ mqueue'[n].task # NoTask
    => version = To[mqueue'[n].task]

\* Only the queue task's put makes the main task's queue longer.
LEMMA OnlyPutAdds ==
  ASSUME TypeOK, [Next]_vars, ~put_fota_task_up_msg
  PROVE  mqueue' = mqueue \/ mqueue' = <<>> \/ (mqueue # <<>> /\ mqueue' = Tail(mqueue))
<1>1. CASE QueueTask
  BY <1>1 DEF QueueTask, ty_CheckFota, CheckNothing, CheckUpgraded, CheckFailed,
     CheckRetry, Check, ty_MgrModuleFota, ty_SaveFOTAInfo, MarkInvalid, StartRun,
     RunFails, ty_UpdateFOTAInfo, MgrDone, mainVars
<1>2. CASE MainTask \/ GoSleep \/ ty_at_mqtt_resume \/ LinkLoss
  <2>1. CASE TakeReport BY <2>1 DEF TakeReport
  <2>2. CASE ty_at_mqtt_resume BY <2>2 DEF ty_at_mqtt_resume
  <2>3. CASE \/ Connect \/ Connected \/ ReportUp \/ PublishOk \/ ty_EraseFOTAInfo
             \/ PublishFails \/ TaskUpDone \/ TaskDown \/ FotaOver \/ SleepDrain
             \/ Asleep \/ GoSleep \/ LinkLoss
    BY <2>3 DEF Connect, Connected, ReportUp, PublishOk, ty_EraseFOTAInfo,
       PublishFails, TaskUpDone, TaskDown, FotaOver, SleepDrain, Asleep, GoSleep,
       LinkLoss
  <2> QED BY <1>2, <2>1, <2>2, <2>3 DEF MainTask
<1>3. CASE PowerLoss \/ RunReboots BY <1>3 DEF PowerLoss, RunReboots, PowerUp
<1>4. ASSUME NEW t \in Tasks, CloudTask(t) PROVE mqueue' = mqueue
  BY <1>4 DEF CloudTask, mainVars
<1>5. CASE UNCHANGED vars BY <1>5 DEF vars, mainVars
<1> QED BY <1>1, <1>2, <1>3, <1>4, <1>5 DEF Next

\* Every step adds true reports only.
LEMMA TrueStep == TypeOK /\ InHand /\ GoodInHand /\ [Next]_vars => TrueReport
<1> SUFFICES ASSUME TypeOK, InHand, GoodInHand, [Next]_vars PROVE TrueReport
  OBVIOUS
<1>0. Len(mqueue) \in Nat BY QueueFacts DEF TypeOK
<1>1. CASE ~put_fota_task_up_msg
  <2>1. Len(mqueue') <= Len(mqueue)
    BY <1>0, <1>1, OnlyPutAdds, QueueFacts, EmptyQueue DEF TypeOK
  <2>2. Len(mqueue) + 1 \notin 1..Len(mqueue') BY <1>0, <2>1
  <2> QED BY <2>2 DEF TrueReport
<1>2. CASE put_fota_task_up_msg
  <2> DEFINE r == Report(IF cached THEN nv.task ELSE cur, ok)
  <2>1. qpc = "report" /\ (mqueue' = mqueue \/ mqueue' = Append(mqueue, r))
    BY <1>2 DEF put_fota_task_up_msg, PutReport
  <2>2. CASE mqueue' = mqueue BY <1>0, <2>2 DEF TrueReport
  <2>3. CASE mqueue' = Append(mqueue, r)
    <3>1. r \in Reports BY DEF TypeOK, Report, Reports, Records
    <3>2. mqueue'[Len(mqueue) + 1] = r BY <2>3, <3>1, QueueFacts DEF TypeOK
    <3>3. r.ok /\ r.task # NoTask => version = To[r.task]
      BY <2>1 DEF Report, GoodInHand
    <3> QED BY <3>2, <3>3 DEF TrueReport
  <2> QED BY <2>1, <2>2, <2>3
<1> QED BY <1>1, <1>2

\* A report of success is only ever put for a task whose target firmware is
\* running, although the report of a cached task names whatever the record
\* holds by then, and whichever saves are given up: the record can only have been
\* erased meanwhile.
THEOREM SuccessIsTrueHolds == Spec => SuccessIsTrue
<1>1. Init => GoodInHand BY DEF Init, GoodInHand
<1>2. TypeOK /\ InHand /\ GoodInHand /\ [Next]_vars => [TrueReport]_vars
  BY TrueStep
<1> QED BY <1>1, <1>2, TypeInit, TypeStep, GoodStep, PTL
        DEF Spec, SuccessIsTrue, TrueReport
=============================================================================
