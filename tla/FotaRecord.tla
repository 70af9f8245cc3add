----------------------------- MODULE FotaRecord -----------------------------
(***************************************************************************)
(* The life of a FOTA task across reboots: the queue task that runs it     *)
(* (ty_ssnb/app/queue_task.c, fota_task.c), the main task that reports its *)
(* result over MQTT (main_task.c), and the record nv_fota that both keep   *)
(* in the NV store.  The rounds of a download are FotaTask's; here a task  *)
(* runs and either fails or ends in a reboot.  A save of the record is one *)
(* step: NvStore shows that a restart finds the old record or the new one. *)
(* It may also be given up without a word, with the old one left in flash. *)
(*                                                                         *)
(* A task that ty_CheckFota finds in the record is run and reported        *)
(* through pointers into g_ty_cloud_nv: its report names whatever task the *)
(* record holds when the report is built.                                  *)
(***************************************************************************)
EXTENDS Naturals, Sequences

CONSTANTS
  Tasks,      \* the FOTA tasks the cloud sends, each once
  NoTask,     \* an empty taskNo
  Versions,   \* firmware versions
  From, To,   \* start_version and target_version of each task
  QSize,      \* TY_QUEUE_TASK_MSGQ_SIZE, of both queues
  MaxFaults,  \* bound on link losses, failed publishes, power losses and failed
              \* saves
  Sleeps,     \* TRUE when idletimeout may be set and the AT resume given
  SaveFails   \* TRUE when save_user_nv_flash may give up

ASSUME RecordAssumption ==
  /\ NoTask \notin Tasks /\ "check" \notin Tasks
  /\ From \in [Tasks -> Versions] /\ To \in [Tasks -> Versions]
  /\ \A t \in Tasks : From[t] # To[t]
  /\ QSize \in Nat \ {0}
  /\ MaxFaults \in Nat
  /\ Sleeps \in BOOLEAN /\ SaveFails \in BOOLEAN

VARIABLES
  nv,        \* nv_fota in RAM: the task and the two halves of fota_erase
  flash,     \* the record that the next boot reads
  version,   \* the firmware that runs
  qtq,       \* the queue task's queue: tasks, and "check" for E_LocalMsg_FotaCheck
  qpc,       \* where the queue task is
  cur,       \* the task it runs
  cached,    \* TRUE when it was found in the record
  ok,        \* its result: FOTA_UPD_OK or FOTA_UPGRADED
  main,      \* where the main task is
  link,      \* the MQTT session is connected
  mqueue,    \* the main task's queue of reports
  cache,     \* cache_msg: the report being published, or <<>>
  pubd,      \* it was published and nv_fota is about to be erased
  fota,      \* _maintask.fota
  arrived,   \* history: the tasks the cloud has sent
  upgraded,  \* history: the tasks whose firmware was installed
  pub,       \* history: reports published for each task, up to 2
  again,     \* history: runs of each task from the record, up to 2
  faults     \* how many of MaxFaults have happened

stored    == <<nv, flash>>
queueVars == <<qtq, qpc, cur, cached, ok>>
mainVars  == <<main, link, mqueue, cache, pubd>>
history   == <<arrived, upgraded, pub, again>>
vars == <<stored, version, queueVars, mainVars, fota, history, faults>>

Report(t, good) == [task |-> t, ok |-> good]
Reports == [task : Tasks \cup {NoTask}, ok : BOOLEAN]
Saturate(n) == IF n < 2 THEN n + 1 ELSE 2

Init ==
  /\ nv = [task |-> NoTask, valid |-> FALSE, uploaded |-> FALSE]
  /\ flash = nv
  /\ version \in Versions
  /\ qtq = <<>> /\ qpc = "idle" /\ cur = NoTask /\ cached = FALSE /\ ok = FALSE
  /\ main = "down" /\ link = FALSE /\ mqueue = <<>> /\ cache = <<>>
  /\ pubd = FALSE
  /\ fota = FALSE
  /\ arrived = {} /\ upgraded = {}
  /\ pub = [t \in Tasks |-> 0] /\ again = [t \in Tasks |-> 0]
  /\ faults = 0

\* ty_flash_save returns nothing: nobody learns of a save that was given up.
ty_flash_save(rec) ==
  /\ nv' = rec
  /\ \/ flash' = rec /\ UNCHANGED faults
     \/ /\ SaveFails /\ faults < MaxFaults /\ faults' = faults + 1
        /\ UNCHANGED flash
-----------------------------------------------------------------------------
(* The queue task.                                                         *)

\* Variant: there is always room.
PutUnbounded(m) == qtq' = Append(qtq, m)

\* A full queue loses the message.
ty_queue_task_put_msg(m) ==
  qtq' = IF Len(qtq) < QSize THEN Append(qtq, m) ELSE qtq

\* ty_queue_task_loop hands over the next message.
Take(m) == qpc = "idle" /\ qtq # <<>> /\ Head(qtq) = m /\ qtq' = Tail(qtq)

QueueGo(l) == qpc' = l

\* The record names a task that is not both executed and reported.
Pending == nv.task # NoTask /\ (nv.valid \/ ~nv.uploaded)

\* ty_CheckFota has nothing to do: no record, one that is done with, or a
\* firmware that is neither the task's start nor its target.
CheckNothing ==
  /\ Take("check")
  /\ Pending => version \notin {From[nv.task], To[nv.task]}
  /\ UNCHANGED <<stored, version, qpc, cur, cached, ok, mainVars, fota, history,
                 faults>>

\* ty_CheckFota found a record to report, good or not, or to run once more.
Check(good, l) ==
  /\ Take("check") /\ Pending
  /\ QueueGo(l)
  /\ cur' = nv.task /\ cached' = TRUE /\ ok' = good
  /\ UNCHANGED <<stored, version, mainVars, fota, history, faults>>

\* Variant: the firmware is compared with the start version.
CheckUpgradedWrong ==
  Pending /\ version = From[nv.task] /\ Check(TRUE, "report")

CheckUpgraded == Pending /\ version = To[nv.task] /\ Check(TRUE, "report")

CheckFailed ==
  Pending /\ version = From[nv.task] /\ ~nv.valid /\ Check(FALSE, "report")

\* Variant: the firmware that runs is not looked at.
CheckRetryAny == Pending /\ nv.valid /\ Check(FALSE, "mark")

CheckRetry ==
  Pending /\ version = From[nv.task] /\ nv.valid /\ Check(FALSE, "mark")

ty_CheckFota == CheckNothing \/ CheckUpgraded \/ CheckFailed \/ CheckRetry

\* ty_MgrModuleFota, up to the decision of _ty_mgr_module_fota.
ty_MgrModuleFota(t) ==
  /\ Take(t)
  /\ fota' = TRUE
  /\ cur' = t /\ cached' = FALSE
  /\ ok' = (version = To[t])
  /\ QueueGo(IF version = From[t] THEN "save" ELSE "report")
  /\ UNCHANGED <<stored, version, mainVars, history, faults>>

\* A task that is not to be retried is marked invalid at once.
ty_SaveFOTAInfo ==
  /\ qpc = "save"
  /\ ty_flash_save([task |-> cur, valid |-> TRUE, uploaded |-> FALSE])
  /\ qpc' \in {"mark", "run"}
  /\ UNCHANGED <<version, qtq, cur, cached, ok, mainVars, fota, history>>

Marked(invalid) == [nv EXCEPT !.valid = ~invalid, !.uploaded = FALSE]

\* Start the run, with the record marked or not.
StartRun(record) ==
  /\ qpc = "mark"
  /\ ty_flash_save(record)
  /\ QueueGo("run")
  /\ again' = IF cached THEN [again EXCEPT ![cur] = Saturate(@)] ELSE again
  /\ UNCHANGED <<version, qtq, cur, cached, ok, mainVars, fota, arrived,
                 upgraded, pub>>

\* Variant: a task run from the record stays valid.
MarkInvalidLate == StartRun(IF cached THEN nv ELSE Marked(TRUE))

MarkInvalid == StartRun(Marked(TRUE))

RunFails ==
  /\ qpc = "run"
  /\ QueueGo("fail")
  /\ UNCHANGED <<stored, version, qtq, cur, cached, ok, mainVars, fota, history,
                 faults>>

\* ty_UpdateFOTAInfo(NO_UPLOAD | INVALID) at the end of a failed run.
ty_UpdateFOTAInfo ==
  /\ qpc = "fail"
  /\ ty_flash_save(Marked(TRUE))
  /\ QueueGo("report")
  /\ UNCHANGED <<version, qtq, cur, cached, ok, mainVars, fota, history>>

\* The report is lost when the main task sleeps or its queue is full.
PutReport(r) ==
  mqueue' = IF main # "asleep" /\ Len(mqueue) < QSize THEN Append(mqueue, r)
            ELSE mqueue


put_fota_task_up_msg ==
  /\ qpc = "report"
  /\ PutReport(Report(IF cached THEN nv.task ELSE cur, ok))
  /\ QueueGo(IF cached THEN "idle" ELSE "done")
  /\ UNCHANGED <<stored, version, qtq, cur, cached, ok, main, link, cache, pubd,
                 fota, history, faults>>

MgrDone ==
  /\ qpc = "done"
  /\ fota' = FALSE
  /\ QueueGo("idle")
  /\ UNCHANGED <<stored, version, qtq, cur, cached, ok, mainVars, history, faults>>

QueueTask ==
  \/ ty_CheckFota \/ (\E t \in Tasks : ty_MgrModuleFota(t))
  \/ ty_SaveFOTAInfo \/ MarkInvalid \/ RunFails \/ ty_UpdateFOTAInfo
  \/ put_fota_task_up_msg \/ MgrDone
-----------------------------------------------------------------------------
(* The main task.                                                          *)

MainGo(from, to) ==
  /\ main = from /\ main' = to
  /\ UNCHANGED <<stored, version, qpc, cur, cached, ok, pubd, history>>

Connect ==
  /\ MainGo("down", "connected")
  /\ link' = TRUE
  /\ UNCHANGED <<qtq, mqueue, cache, fota, faults>>

\* On every connection the record is looked at, unless a task is running.
Connected ==
  /\ MainGo("connected", "report")
  /\ IF fota THEN UNCHANGED qtq ELSE ty_queue_task_put_msg("check")
  /\ UNCHANGED <<link, mqueue, cache, fota, faults>>

\* ty_cloud_mqtt_report_up, and the reply to it.
ReportUp ==
  /\ \/ link /\ MainGo("report", "taskup") /\ UNCHANGED link
     \/ ~link /\ MainGo("report", "down") /\ UNCHANGED link
  /\ UNCHANGED <<qtq, mqueue, cache, fota, faults>>

\* The states that call ty_cloud_mqtt_wait_task_up.
Publishing == {"taskup", "fota", "sleep"}

\* ty_mqtt_msg_cb: a task arrives while the main task reads from the session,
\* to subscribe, for the reply to its report, for tasks, or for a PUBACK.
CloudTask(t) ==
  /\ link /\ t \notin arrived
  /\ \/ main \in {"connected", "report", "taskdown"}
     \/ main \in Publishing /\ cache # <<>> /\ ~pubd
  /\ arrived' = arrived \cup {t}
  /\ ty_queue_task_put_msg(t)
  /\ UNCHANGED <<stored, version, qpc, cur, cached, ok, mainVars, fota, upgraded,
                 pub, again, faults>>

\* ty_cloud_mqtt_wait_task_up takes the next report.
TakeReport ==
  /\ main \in Publishing /\ cache = <<>> /\ mqueue # <<>>
  /\ cache' = <<Head(mqueue)>> /\ mqueue' = Tail(mqueue)
  /\ UNCHANGED <<stored, version, queueVars, main, link, pubd, fota, history, faults>>

PublishOk ==
  /\ main \in Publishing /\ cache # <<>> /\ ~pubd /\ link
  /\ pubd' = TRUE
  /\ pub' = [t \in Tasks |-> IF cache[1].task = t THEN Saturate(pub[t]) ELSE pub[t]]
  /\ UNCHANGED <<stored, version, queueVars, main, link, mqueue, cache, fota,
                 arrived, upgraded, again, faults>>

\* After a publish the record is erased, whatever task it holds.
ty_EraseFOTAInfo ==
  /\ pubd
  /\ ty_flash_save([task |-> NoTask, valid |-> FALSE, uploaded |-> TRUE])
  /\ pubd' = FALSE /\ cache' = <<>>
  /\ UNCHANGED <<version, queueVars, main, link, mqueue, fota, history>>

\* A failed publish closes the session and drops the report.
PublishFails ==
  /\ main \in Publishing /\ cache # <<>> /\ ~pubd
  /\ \/ ~link /\ UNCHANGED faults
     \/ link /\ faults < MaxFaults /\ faults' = faults + 1
  /\ link' = FALSE /\ cache' = <<>>
  /\ main' = IF main = "taskup" THEN "down" ELSE main
  /\ UNCHANGED <<stored, version, queueVars, mqueue, pubd, fota, history>>

NoReport == cache = <<>> /\ mqueue = <<>>

\* The queue is empty: go on to the downlink.
TaskUpDone ==
  /\ NoReport /\ MainGo("taskup", "taskdown")
  /\ UNCHANGED <<qtq, link, mqueue, cache, fota, faults>>

TaskDown ==
  /\ \/ ~link /\ MainGo("taskdown", "down")
     \/ link /\ fota /\ MainGo("taskdown", "fota")
     \/ link /\ ~fota /\ MainGo("taskdown", "taskup")
  /\ UNCHANGED <<qtq, link, mqueue, cache, fota, faults>>

FotaOver ==
  /\ ~fota /\ cache = <<>> /\ MainGo("fota", "taskup")
  /\ UNCHANGED <<qtq, link, mqueue, cache, fota, faults>>

\* idletimeout is seen in the states that look at it.
GoSleep ==
  /\ Sleeps
  /\ \/ MainGo("down", "gosleep")
     \/ link /\ ~fota /\ MainGo("taskdown", "gosleep")
  /\ UNCHANGED <<qtq, link, mqueue, cache, fota, faults>>

SleepDrain ==
  /\ ~fota /\ MainGo("gosleep", "sleep")
  /\ UNCHANGED <<qtq, link, mqueue, cache, fota, faults>>

Asleep ==
  /\ NoReport /\ MainGo("sleep", "asleep")
  /\ link' = FALSE
  /\ UNCHANGED <<qtq, mqueue, cache, fota, faults>>

ty_at_mqtt_resume ==
  /\ MainGo("asleep", "down")
  /\ link' = FALSE /\ mqueue' = <<>> /\ cache' = <<>> /\ fota' = FALSE
  /\ UNCHANGED <<qtq, faults>>

MainTask ==
  \/ Connect \/ Connected \/ ReportUp \/ TakeReport \/ PublishOk
  \/ ty_EraseFOTAInfo \/ PublishFails \/ TaskUpDone \/ TaskDown \/ FotaOver
  \/ SleepDrain \/ Asleep
-----------------------------------------------------------------------------
(* The world around.                                                       *)

LinkLoss ==
  /\ link /\ faults < MaxFaults /\ faults' = faults + 1
  /\ link' = FALSE
  /\ UNCHANGED <<stored, version, queueVars, main, mqueue, cache, pubd, fota, history>>

\* Everything in RAM is gone; the record in flash and the firmware stay.
PowerUp ==
  /\ nv' = flash /\ UNCHANGED flash
  /\ qtq' = <<>> /\ qpc' = "idle" /\ cur' = NoTask /\ cached' = FALSE
  /\ ok' = FALSE
  /\ main' = "down" /\ link' = FALSE /\ mqueue' = <<>> /\ cache' = <<>>
  /\ pubd' = FALSE /\ fota' = FALSE

PowerLoss ==
  /\ faults < MaxFaults /\ faults' = faults + 1
  /\ PowerUp
  /\ UNCHANGED <<version, history>>

\* MG_updateFirmware took the file and rebooted into the new firmware, or the
\* installation failed and the old one starts again.
RunReboots ==
  /\ qpc = "run"
  /\ \/ version' = To[cur] /\ upgraded' = upgraded \cup {cur}
     \/ UNCHANGED <<version, upgraded>>
  /\ PowerUp
  /\ UNCHANGED <<arrived, pub, again, faults>>

Next ==
  \/ QueueTask \/ MainTask
  \/ \E t \in Tasks : CloudTask(t)
  \/ GoSleep \/ ty_at_mqtt_resume \/ LinkLoss \/ PowerLoss \/ RunReboots

\* Both tasks are scheduled, and after MaxFaults failures the network holds.
Fairness == WF_vars(QueueTask) /\ WF_vars(MainTask)

Spec == Init /\ [][Next]_vars
FairSpec == Spec /\ Fairness
-----------------------------------------------------------------------------
Records == [task : Tasks \cup {NoTask}, valid : BOOLEAN, uploaded : BOOLEAN]
QueueLabels == {"idle", "save", "mark", "run", "fail", "report", "done"}
MainLabels == {"down", "connected", "report", "taskup", "taskdown", "fota",
               "gosleep", "sleep", "asleep"}

\* Every variable has its type, and neither queue passes its size.
TypeOK ==
  /\ nv \in Records /\ flash \in Records
  /\ version \in Versions
  /\ qtq \in Seq(Tasks \cup {"check"}) /\ Len(qtq) <= QSize
  /\ qpc \in QueueLabels
  /\ cur \in Tasks \cup {NoTask}
  /\ cached \in BOOLEAN /\ ok \in BOOLEAN
  /\ main \in MainLabels
  /\ link \in BOOLEAN
  /\ mqueue \in Seq(Reports) /\ Len(mqueue) <= QSize
  /\ cache \in Seq(Reports) /\ Len(cache) <= 1
  /\ pubd \in BOOLEAN /\ fota \in BOOLEAN
  /\ arrived \subseteq Tasks /\ upgraded \subseteq Tasks
  /\ pub \in [Tasks -> 0..2] /\ again \in [Tasks -> 0..2]
  /\ faults \in 0..MaxFaults

\* "A cached task from FLASH is executed only once more": whatever power
\* losses and reconnections come, no task is run from the record twice.  (This
\* needs saves that succeed: when the one that marks the record is given up, the
\* record in flash stays valid and the task is run after every reboot.)
CachedOnce == \A t \in Tasks : again[t] <= 1

\* A task runs only on the firmware it starts from, and never again once its
\* firmware was installed, although the test of the version, the save of the
\* record and the run are separate steps and the record of an installed task may
\* still be valid after the reboot.  (This too needs saves that succeed: otherwise
\* the record of an earlier task may come back from flash.)
InstalledOnce == qpc = "run" => version = From[cur] /\ cur \notin upgraded

\* A report of success names a task whose target firmware is running when the
\* report is put, even though the record may be erased or replaced meanwhile.
SuccessIsTrue ==
  [][\A n \in 1..Len(mqueue') :
       /\ n = Len(mqueue) + 1 /\ mqueue'[n].ok /\ mqueue'[n].task # NoTask
       => version = To[mqueue'[n].task]]_vars


\* "If the upgrade succeeded, report the upgrade task": a task whose firmware
\* was installed is reported sooner or later.
SuccessReported == \A t \in Tasks : t \in upgraded ~> pub[t] > 0
=============================================================================
