------------------------------ MODULE MainTask ------------------------------
(***************************************************************************)
(* The main task of ty_ssnb/app/main_task.c: it registers with the         *)
(* network, sets up the MQTT session, reports, publishes what other tasks  *)
(* put into its queue, reads the cloud's messages, and goes to sleep on    *)
(* the AT command.  The queue task and the AT thread put messages and set  *)
(* its flags at any moment.                                                *)
(*                                                                         *)
(* A publish, which blocks until its PUBACK or for 30 seconds, is one      *)
(* step: what the cloud sends meanwhile is read before it.  A failed one   *)
(* closes the session (MqttClient), and may have reached the cloud.        *)
(* What the FOTA record does on the way is FotaRecord's.                   *)
(*                                                                         *)
(* Memory is assumed to suffice for the text of a full report: without it  *)
(* ty_cloud_mqtt_report_up may return 0 with nothing published, and an     *)
(* AtReportUP is lost.  A TestUP comes with its data, as its callers, all  *)
(* in plat/test, put it; without, it would stay cached.                    *)
(***************************************************************************)
EXTENDS Naturals, Sequences

CONSTANTS
  Msgs,       \* the messages put, each once
  NoMsg,      \* no message
  Kind,       \* E_LocalMsg_TaskUP, FotaTaskUP, AtReportUP or TestUP of each
  QSize,      \* TY_QUEUE_TASK_MSGQ_SIZE
  ErrCnt,     \* MQTT_REPORT_DOWN_ERR_CNT
  MaxFaults,  \* bound on failed calls, lost sessions and missing replies
  MaxFotas,   \* bound on the FOTA runs
  MaxSleeps   \* bound on the AT offline commands

Kinds == {"task", "fota", "at", "test"}

ASSUME MainAssumption ==
  /\ NoMsg \notin Msgs
  /\ Kind \in [Msgs -> Kinds]
  /\ QSize \in Nat \ {0} /\ ErrCnt \in Nat
  /\ MaxFaults \in Nat /\ MaxFotas \in Nat /\ MaxSleeps \in Nat

VARIABLES
  status,     \* ctx->status; "Drain" and "Unlock" are parts of Sleep, "Created"
              \* a task that has not run yet
  subscribing,\* in Disconnect: connected, the topics not yet subscribed
  conn,       \* isconnected of the MQTT client
  handle,     \* mqtt_handle is not NULL
  sockets,    \* open sockets
  qstate,     \* msgQueue: "null", "live", or "freed" but not yet NULL
  queue,      \* what is in it
  cache,      \* cache_msg, or <<>>
  reply,      \* report_reply
  owed,       \* replies the cloud still owes in this session
  idle,       \* idletimeout
  fota,       \* ctx->fota
  errcnt,     \* connect_err_cnt
  putting,    \* the message of a put that has found msgQueue not NULL
  unput,      \* the messages nobody has put yet
  got,        \* history: what reached the cloud
  faults, fotas, sleeps  \* how many of each bound have happened

session == <<subscribing, conn, handle, sockets, owed>>
flags   == <<reply, idle, fota, errcnt>>
putter  == <<putting, unput>>
bounds  == <<faults, fotas, sleeps>>
vars == <<status, session, qstate, queue, cache, flags, putter, got, bounds>>

Init ==
  /\ status = "Created"
  /\ subscribing = FALSE /\ conn = FALSE /\ handle = FALSE /\ sockets = 0
  /\ owed = 0
  /\ qstate = "null" /\ queue = <<>> /\ cache = <<>>
  /\ reply = FALSE /\ idle = FALSE /\ fota = FALSE /\ errcnt = 0
  /\ putting = NoMsg /\ unput = Msgs
  /\ got = <<>>
  /\ faults = 0 /\ fotas = 0 /\ sleeps = 0

Fault == faults < MaxFaults /\ faults' = faults + 1 /\ UNCHANGED <<fotas, sleeps>>

\* ty_mqtt_close: nothing happens without a handle.
ty_mqtt_close ==
  /\ handle' = FALSE
  /\ IF handle THEN sockets' = sockets - 1 /\ conn' = FALSE
     ELSE UNCHANGED <<sockets, conn>>
-----------------------------------------------------------------------------
(* ty_main_task_loop: start, registration and connection.                  *)

\* The task runs for the first time: the whole context is cleared.
Start ==
  /\ status = "Created" /\ status' = "Init"
  /\ qstate' = "live" /\ queue' = <<>> /\ cache' = <<>>
  /\ handle' = FALSE
  /\ reply' = FALSE /\ idle' = FALSE /\ fota' = FALSE /\ errcnt' = 0
  /\ UNCHANGED <<subscribing, conn, sockets, owed, putter, got, bounds>>

Move(from, to) ==
  /\ status = from /\ status' = to
  /\ UNCHANGED <<qstate, putter>>

\* Registered, an address, connected: nothing else changes.
Advance ==
  /\ \/ Move("Init", "Cereg")
     \/ idle /\ Move("Cereg", "Sleep")
     \/ ~idle /\ Move("Cereg", "CgpAddr")
     \/ Move("CgpAddr", "Disconnect")
     \/ Move("Connected", "ReportUp")
  /\ UNCHANGED <<session, queue, cache, flags, got, bounds>>

\* ty_cloud_mqtt_init fails before it touches the session: no device secret.
InitFails ==
  /\ ~subscribing /\ Move("Disconnect", "Cereg") /\ Fault
  /\ UNCHANGED <<session, queue, cache, flags, got>>

\* Connected, with what was open of the old session still open.
ConnectWith(open) ==
  /\ status = "Disconnect" /\ ~subscribing
  /\ subscribing' = TRUE /\ conn' = TRUE /\ handle' = TRUE
  /\ sockets' = open + 1 /\ owed' = 0
  /\ UNCHANGED <<status, qstate, queue, cache, flags, putter, got, bounds>>

\* Variant: the old session is not closed first (ty_mqtt_connect itself clears
\* my_socket before it "disconnects the last socket").
ConnectOver == ConnectWith(sockets)

Connect == ConnectWith(IF handle THEN sockets - 1 ELSE sockets)

ConnectFails ==
  /\ ~subscribing /\ Move("Disconnect", "Cereg") /\ Fault
  /\ ty_mqtt_close
  /\ UNCHANGED <<subscribing, owed, queue, cache, flags, got>>

Subscribed ==
  /\ subscribing /\ Move("Disconnect", "Connected")
  /\ subscribing' = FALSE
  /\ UNCHANGED <<conn, handle, sockets, owed, queue, cache, flags, got, bounds>>

SubscribeFails ==
  /\ subscribing /\ Move("Disconnect", "Cereg") /\ Fault
  /\ subscribing' = FALSE
  /\ ty_mqtt_close
  /\ UNCHANGED <<owed, queue, cache, flags, got>>
-----------------------------------------------------------------------------
(* The full report and its reply.                                          *)

ReportUp ==
  /\ conn /\ Move("ReportUp", "WaitReportDown")
  /\ owed' = owed + 1
  /\ UNCHANGED <<subscribing, conn, handle, sockets, queue, cache, flags, got, bounds>>

\* A call fails for certain when the session is closed.
FailsNow == IF conn THEN Fault ELSE UNCHANGED bounds

ReportUpFails ==
  /\ Move("ReportUp", "Cereg") /\ FailsNow
  /\ ty_mqtt_close
  /\ UNCHANGED <<subscribing, owed, queue, cache, flags, got>>

\* report_reply is set, by whatever report.
ReplySeen ==
  /\ reply /\ Move("WaitReportDown", "WaitTaskUP")
  /\ reply' = FALSE /\ errcnt' = 0
  /\ UNCHANGED <<session, queue, cache, idle, fota, got, bounds>>

\* None within WAIT_REPORTDOWN_RESPONSE_MAX: report again, or give the session
\* up; connect_err_cnt goes on counting in the next one.
NoReplyIf(givenup) ==
  /\ ~reply /\ FailsNow
  /\ errcnt' = errcnt + 1
  /\ IF givenup
     THEN Move("WaitReportDown", "Cereg") /\ ty_mqtt_close
     ELSE Move("WaitReportDown", "ReportUp") /\ UNCHANGED <<conn, handle, sockets>>
  /\ UNCHANGED <<subscribing, owed, queue, cache, reply, idle, fota, got>>

\* Variant: one more report is made.
NoReplyLater == NoReplyIf(errcnt > ErrCnt + 1)

NoReply == NoReplyIf(errcnt > ErrCnt)
-----------------------------------------------------------------------------
(* ty_cloud_mqtt_wait_task_up, called in three states: publish the cached  *)
(* message, then everything in the queue.                                  *)

Publishing == status \in {"WaitTaskUP", "Fota", "Drain"}

TakeMsg ==
  /\ Publishing /\ cache = <<>> /\ queue # <<>>
  /\ cache' = <<Head(queue)>> /\ queue' = Tail(queue)
  /\ UNCHANGED <<status, session, qstate, flags, putter, got, bounds>>

\* An AtReportUP is a full report, to which the cloud will reply.
Publish ==
  /\ Publishing /\ cache # <<>> /\ conn
  /\ got' = Append(got, cache[1])
  /\ cache' = <<>>
  /\ owed' = IF Kind[cache[1]] = "at" THEN owed + 1 ELSE owed
  /\ UNCHANGED <<status, subscribing, conn, handle, sockets, qstate, queue,
                 flags, putter, bounds>>

\* Variant: nothing more is cleared before sleep.
ClearedAsEver(m) == Kind[m] \in {"fota", "test"}

\* A message is cleared after a failure when it is a FOTA or a test report,
\* and before sleep when it has data: an AtReportUP has none.
ClearedOnFailure(m) ==
  Kind[m] \in {"fota", "test"} \/ (status = "Drain" /\ Kind[m] # "at")

\* The publish fails and keeps or clears the message.  A full report may fail
\* while it is built, with the session intact.
PublishFailsWith(cleared, next) ==
  /\ Publishing /\ cache # <<>> /\ FailsNow
  /\ \/ conn' = FALSE /\ got' \in {got} \cup (IF conn THEN {Append(got, cache[1])} ELSE {})
     \/ Kind[cache[1]] = "at" /\ UNCHANGED <<conn, got>>
  /\ cache' = IF cleared THEN <<>> ELSE cache
  /\ status' = next
  /\ UNCHANGED <<subscribing, handle, sockets, owed, qstate, queue, flags, putter>>

Cleared == cache # <<>> /\ ClearedOnFailure(cache[1])

\* Only WaitTaskUP looks at the result.
AfterFailure == IF status = "WaitTaskUP" THEN "Cereg" ELSE status

\* Variants: every message is cleared when its publish fails; the state is
\* not left.
PublishFailsClears == PublishFailsWith(TRUE, AfterFailure)
PublishFailsStays == PublishFailsWith(Cleared, status)

PublishFails == PublishFailsWith(Cleared, AfterFailure)

NothingLeft == cache = <<>> /\ queue = <<>>

TaskUpDone ==
  /\ NothingLeft /\ Move("WaitTaskUP", "WaitTaskDown")
  /\ UNCHANGED <<session, queue, cache, flags, got, bounds>>

\* ty_cloud_mqtt_wait_task_down, and what the loop does next.
WaitTaskDown ==
  /\ IF conn THEN UNCHANGED session
     ELSE ty_mqtt_close /\ UNCHANGED <<subscribing, owed>>
  /\ \/ ~conn /\ Move("WaitTaskDown", "Cereg")
     \/ conn /\ fota /\ Move("WaitTaskDown", "Fota")
     \/ conn /\ ~fota /\ idle /\ Move("WaitTaskDown", "Sleep")
     \/ conn /\ ~fota /\ ~idle /\ Move("WaitTaskDown", "WaitTaskUP")
  /\ UNCHANGED <<queue, cache, flags, got, bounds>>

FotaOver ==
  /\ ~fota /\ Move("Fota", "WaitTaskUP")
  /\ UNCHANGED <<session, queue, cache, flags, got, bounds>>
-----------------------------------------------------------------------------
(* ty_cloud_task_go_sleep and the end of the task.                         *)

SleepWait ==
  /\ ~fota /\ Move("Sleep", "Drain")
  /\ UNCHANGED <<session, queue, cache, flags, got, bounds>>

\* The offline message, whose failure nobody looks at, and the close.
GoneOffline ==
  /\ NothingLeft /\ Move("Drain", "Unlock")
  /\ ty_mqtt_close
  /\ UNCHANGED <<subscribing, owed, queue, cache, flags, got, bounds>>

\* A put that has passed its test of msgQueue goes to freed memory.
DeleteQueue ==
  /\ status = "Unlock" /\ qstate = "live"
  /\ qstate' = "freed" /\ queue' = <<>>
  /\ putting' = NoMsg
  /\ UNCHANGED <<status, session, cache, flags, unput, got, bounds>>

Exit ==
  /\ status = "Unlock" /\ qstate = "freed"
  /\ qstate' = "null" /\ status' = "Exit"
  /\ UNCHANGED <<session, queue, cache, flags, putter, got, bounds>>

MainStep ==
  \/ Start \/ Advance \/ Connect \/ Subscribed \/ ReportUp \/ ReportUpFails
  \/ ReplySeen \/ NoReply \/ TakeMsg \/ Publish \/ PublishFails \/ TaskUpDone
  \/ WaitTaskDown \/ FotaOver \/ SleepWait \/ GoneOffline \/ DeleteQueue \/ Exit
-----------------------------------------------------------------------------
(* The other tasks, the AT commands and the cloud.                         *)

\* ty_main_task_put_taskup_msg: msgQueue is tested, then the message put.
PutCheck(m) ==
  /\ putting = NoMsg /\ m \in unput
  /\ unput' = unput \ {m}
  /\ putting' = IF qstate = "null" THEN NoMsg ELSE m
  /\ UNCHANGED <<status, session, qstate, queue, cache, flags, got, bounds>>

PutIf(room) ==
  /\ putting # NoMsg /\ putting' = NoMsg
  /\ queue' = IF room THEN Append(queue, putting) ELSE queue
  /\ UNCHANGED <<status, session, qstate, cache, flags, unput, got, bounds>>

\* Variant: there is always room.
PutMsgAlways == PutIf(qstate = "live")

PutMsg == PutIf(qstate = "live" /\ Len(queue) < QSize)

\* ty_main_task_fota_notify, by the queue task.
FotaStart ==
  /\ ~fota /\ fotas < MaxFotas
  /\ fota' = TRUE /\ fotas' = fotas + 1
  /\ UNCHANGED <<status, session, qstate, queue, cache, reply, idle, errcnt,
                 putter, got, faults, sleeps>>

FotaEnd ==
  /\ fota /\ fota' = FALSE
  /\ UNCHANGED <<status, session, qstate, queue, cache, reply, idle, errcnt,
                 putter, got, bounds>>

ty_at_mqtt_offline ==
  /\ sleeps < MaxSleeps /\ sleeps' = sleeps + 1
  /\ idle' = TRUE
  /\ UNCHANGED <<status, session, qstate, queue, cache, reply, fota, errcnt,
                 putter, got, faults, fotas>>

\* The command is not repeated before the new task has run.
ty_at_mqtt_resume ==
  /\ Move("Exit", "Created")
  /\ UNCHANGED <<session, queue, cache, flags, got, bounds>>

\* Where the main task reads from the session: yields, and commands that wait,
\* the publish of the offline message among them.
Reading ==
  /\ conn
  /\ \/ status \in {"ReportUp", "WaitReportDown", "WaitTaskDown"} \/ subscribing
     \/ Publishing /\ cache # <<>>
     \/ status = "Drain" /\ NothingLeft

\* ty_mqtt_msg_cb: any message clears idletimeout.
CloudReply ==
  /\ Reading /\ owed > 0 /\ owed' = owed - 1
  /\ reply' = TRUE /\ idle' = FALSE
  /\ UNCHANGED <<status, subscribing, conn, handle, sockets, qstate, queue,
                 cache, fota, errcnt, putter, got, bounds>>

CloudTask ==
  /\ Reading /\ idle /\ idle' = FALSE
  /\ UNCHANGED <<status, session, qstate, queue, cache, reply, fota, errcnt,
                 putter, got, bounds>>

\* The yield of a waiting state finds the session broken.
SessionLost ==
  /\ conn /\ status \in {"WaitReportDown", "WaitTaskDown"} /\ Fault
  /\ conn' = FALSE
  /\ UNCHANGED <<status, subscribing, handle, sockets, owed, qstate, queue,
                 cache, flags, putter, got>>

Next ==
  \/ MainStep \/ InitFails \/ ConnectFails \/ SubscribeFails \/ SessionLost
  \/ (\E m \in Msgs : PutCheck(m)) \/ PutMsg \/ FotaStart \/ FotaEnd
  \/ ty_at_mqtt_offline \/ ty_at_mqtt_resume \/ CloudReply \/ CloudTask

\* The tasks are scheduled, a FOTA run ends (FotaTask), the cloud replies, and
\* after MaxFaults failures the network holds.
Fairness ==
  /\ WF_vars(MainStep) /\ WF_vars(PutMsg) /\ WF_vars(FotaEnd)
  /\ WF_vars(CloudReply)

Spec == Init /\ [][Next]_vars
FairSpec == Spec /\ Fairness
-----------------------------------------------------------------------------
Statuses == {"Created", "Init", "Cereg", "CgpAddr", "Disconnect", "Connected",
             "ReportUp", "WaitReportDown", "WaitTaskUP", "WaitTaskDown", "Fota",
             "Sleep", "Drain", "Unlock", "Exit"}

\* Every variable has its type, and the queue never passes its size.
TypeOK ==
  /\ status \in Statuses
  /\ subscribing \in BOOLEAN /\ conn \in BOOLEAN /\ handle \in BOOLEAN
  /\ sockets \in Nat /\ owed \in Nat
  /\ qstate \in {"null", "live", "freed"}
  /\ queue \in Seq(Msgs) /\ Len(queue) <= QSize
  /\ cache \in Seq(Msgs) /\ Len(cache) <= 1
  /\ reply \in BOOLEAN /\ idle \in BOOLEAN /\ fota \in BOOLEAN /\ errcnt \in Nat
  /\ putting \in Msgs \cup {NoMsg} /\ unput \subseteq Msgs
  /\ got \in Seq(Msgs)
  /\ faults \in 0..MaxFaults /\ fotas \in 0..MaxFotas /\ sleeps \in 0..MaxSleeps

\* Whatever fails, and however often the task sleeps and resumes, every socket
\* that is opened is closed: there is never more than one, the client is
\* connected only over it, and none is left behind an exited task.
OneSocket ==
  /\ sockets = IF handle THEN 1 ELSE 0
  /\ conn => handle
  /\ status \in {"Unlock", "Exit", "Created"} => sockets = 0

\* A cloud that does not reply does not keep the session for ever: at most
\* MQTT_REPORT_DOWN_ERR_CNT + 2 reports are made in a session before the first
\* reply, whatever connect_err_cnt was when the session began.
UnansweredBounded ==
  conn /\ status \in {"ReportUp", "WaitReportDown"} => owed <= ErrCnt + 2

Leaving == status \in {"Drain", "Unlock", "Exit", "Created"}

\* The queue and the cached message before it, as an outbox.
Box ==
  INSTANCE Outbox WITH
    Messages <- Msgs, Volatile <- {m \in Msgs : Kind[m] \in {"fota", "test"}},
    box <- cache \o queue, cloud <- got, leaving <- Leaving

\* "All messages are reported before the next state": through failed publishes,
\* reconnections and FOTA runs, what is put is published in order, none passing
\* another and none lost but a FOTA or test report, until the task sleeps.
IsOutbox == Box!Spec

\* A task report that is in the queue or cached is published sooner or later,
\* or the task goes to sleep.
Delivered ==
  \A m \in Msgs : Kind[m] = "task" =>
    ((\E n \in 1..Len(cache \o queue) : (cache \o queue)[n] = m)
       ~> ((\E n \in 1..Len(got) : got[n] = m) \/ Leaving))

\* A full report asked for by the AT command is on its way.
AtPending ==
  \E m \in Msgs : /\ Kind[m] = "at"
                  /\ \/ m \in unput \cup {putting}
                     \/ \E n \in 1..Len(cache \o queue) : (cache \o queue)[n] = m

\* The task that goes to sleep gets there, with or without a session and
\* whatever is put meanwhile, if no full report is in its way.
SleepEndsIfNoReport == status = "Sleep" /\ ~AtPending ~> status = "Exit"
=============================================================================
