------------------------------ MODULE FotaTask ------------------------------
(***************************************************************************)
(* A firmware download as ty_ssnb/app/fota_task.c runs it on the slm320    *)
(* platform.  The manager (_ty_mgr_module_fota, on the queue task) starts  *)
(* a round: it creates the packet queue and a writer thread, downloads     *)
(* packets over HTTP and puts them into the queue, and then waits for the  *)
(* flag fota_task_exit.  The writer (ty_fota_task) takes packets out,      *)
(* writes them to the update file, hands the file to MG_updateFirmware,    *)
(* deletes the queue and raises the flag.  The two share _fotatask without *)
(* a lock.                                                                 *)
(*                                                                         *)
(* Packet i of a round is <<round, i>>; packet 0 is the one-byte packet    *)
(* with last_flag set that ends a failed download.  The update file is     *)
(* image, the packets handed to ty_ota_write_flash since fota_offset was   *)
(* set to 0, as long as it is intact: one that is written short, or not at *)
(* all, displaces what follows, and nothing puts that right.               *)
(***************************************************************************)
EXTENDS Integers, Sequences

CONSTANTS
  MaxRounds,   \* bound on the rounds, and so on the writers ever created
  Retries,     \* the values of retry_strategy the cloud sends
  Packets,     \* packets in the firmware
  QueueSize,   \* TY_FOTA_TASK_MSGQ_SIZE
  GetRetry,    \* FOTA_HTTP_GET_FW_RETRY_CNT
  Faults       \* what may fail: "open" (ty_ota_update_Init), "write" (an open
               \* or a write in ty_ota_write_flash), "mem" (the allocation in
               \* put_fota_packet), "queue" (ty_create_msg_Que), "thread"
               \* (ty_task_create)

ASSUME FotaAssumption ==
  /\ MaxRounds \in Nat
  /\ Retries \subseteq Nat
  /\ Packets \in Nat \ {0}
  /\ QueueSize \in Nat \ {0}
  /\ GetRetry \in Nat
  /\ Faults \subseteq {"open", "write", "mem", "queue", "thread"}

VARIABLES
  mgr,        \* where the manager is
  round,      \* history: the rounds that were started
  retrycount, \* its local of that name
  ret,        \* its local of that name
  next,       \* the packet it is downloading, or about to put
  getLeft,    \* retry_cnt of http_get_fota
  mq,         \* fota_task_queue: "null", "live", or "freed" (deleted, still pointed to)
  queue,      \* what the packet queue holds
  exit,       \* fota_task_exit
  writer,     \* where each round's writer is
  image,      \* the packets handed to ty_ota_write_flash
  intact,     \* each was written whole, behind the one before
  accepted,   \* MG_updateFirmware took the file: the reboot is on its way
  lostPut     \* history: a packet was put to a queue that was not there

mgrVars == <<mgr, round, retrycount, ret, next, getLeft, lostPut>>
vars == <<mgrVars, mq, queue, exit, writer, image, intact, accepted>>

Rounds == 1..MaxRounds
Stub == 0
IsLast(i) == i \in {Stub, Packets}
PacketSet == Rounds \X (0..Packets)

Init ==
  /\ mgr = "idle"
  /\ round = 0
  /\ retrycount = 0
  /\ ret = "ok"
  /\ next = 1
  /\ getLeft = GetRetry
  /\ mq = "null"
  /\ queue = <<>>
  /\ exit = FALSE
  /\ writer = [r \in Rounds |-> "none"]
  /\ image = <<>> /\ intact = TRUE
  /\ accepted = FALSE
  /\ lostPut = FALSE
-----------------------------------------------------------------------------
(* The manager.                                                            *)

\* A task from the cloud, or the cached one, passed the version checks.
_ty_mgr_module_fota ==
  /\ mgr = "idle"
  /\ retrycount' \in Retries /\ round + retrycount' < MaxRounds
  /\ mgr' = "init"
  /\ UNCHANGED <<round, ret, next, getLeft, lostPut, mq, queue, exit, writer,
                 image, intact, accepted>>

\* What ty_create_msg_Que returns, a NULL that fota_task_init does not look at
\* included.
NewQueue == IF "queue" \in Faults THEN {"live", "null"} ELSE {"live"}

\* Create the queue and the writer thread, and go on to the download.
StartWriter ==
  /\ mgr = "init" /\ round < MaxRounds
  /\ round' = round + 1
  /\ mq' \in NewQueue /\ queue' = <<>>
  /\ writer' = [writer EXCEPT ![round + 1] = "created"]
  /\ mgr' = "get"
  /\ next' = 1
  /\ getLeft' = GetRetry
  /\ UNCHANGED <<retrycount, ret, exit, image, intact, accepted, lostPut>>

\* Variant: a queue that is still there is not noticed.
fota_task_initUnguarded == StartWriter

fota_task_init == mq = "null" /\ StartWriter

\* The queue of an earlier round is still there.
fota_task_initBusy ==
  /\ mgr = "init" /\ mq # "null"
  /\ ret' = "task_fail"
  /\ mgr' = "finish"
  /\ UNCHANGED <<round, retrycount, next, getLeft, lostPut, mq, queue, exit,
                 writer, image, intact, accepted>>

\* The thread is not created: the task is given up, with the queue in place.
fota_task_initFails ==
  /\ "thread" \in Faults
  /\ mgr = "init" /\ mq = "null"
  /\ mq' \in NewQueue /\ queue' = <<>>
  /\ ret' = "task_fail"
  /\ mgr' = "finish"
  /\ UNCHANGED <<round, retrycount, next, getLeft, lostPut, exit, writer, image,
                 intact, accepted>>

\* put_fota_packet is called with the packet that was just received.
PutNext(i) ==
  /\ mgr' = "put" /\ next' = i
  /\ UNCHANGED <<round, retrycount, lostPut, mq, queue, exit, writer, image,
                 intact, accepted>>

\* A packet arrives; the last one only counts when the digest matches.
GetPacket ==
  /\ mgr = "get"
  /\ PutNext(next)
  /\ getLeft' = GetRetry
  /\ ret' = IF IsLast(next) THEN "ok" ELSE ret

\* The download is given up: bad parameters or url, no connection, a short
\* answer, a digest that does not match.
GetFailed ==
  /\ mgr = "get"
  /\ PutNext(Stub)
  /\ ret' = "dld_err"
  /\ UNCHANGED getLeft

\* The request failed: connect again and ask for the same range.
GetAgain(n) ==
  /\ mgr = "get"
  /\ getLeft' = n
  /\ UNCHANGED <<mgr, round, retrycount, ret, next, lostPut, mq, queue, exit,
                 writer, image, intact, accepted>>

\* Variant: the counter is counted down without being tested.
GetRetryAgainUntested == GetAgain(getLeft - 1)

GetRetryAgain == getLeft > 0 /\ GetAgain(getLeft - 1)

http_get_fota == GetPacket \/ GetFailed \/ GetRetryAgain

\* Where the manager goes once the put of packet next is over.
AfterPut ==
  /\ mgr' = IF IsLast(next) THEN "await" ELSE "get"
  /\ next' = IF IsLast(next) THEN next ELSE next + 1

PutDone ==
  /\ Len(queue) < QueueSize
  /\ queue' = Append(queue, <<round, next>>)
  /\ AfterPut
  /\ UNCHANGED <<round, retrycount, ret, getLeft, lostPut, mq, exit, writer,
                 image, intact, accepted>>

\* The queue is full: wait inside MG_osiMessageQueueTryPut.
PutBlocks ==
  /\ Len(queue) = QueueSize
  /\ mgr' = "blocked"
  /\ UNCHANGED <<round, retrycount, ret, next, getLeft, lostPut, mq, queue,
                 exit, writer, image, intact, accepted>>

\* The packet goes nowhere and nobody is told.
PutLost ==
  /\ AfterPut
  /\ UNCHANGED <<round, retrycount, ret, getLeft, mq, queue, exit, writer,
                 image, intact, accepted>>

\* A put to a queue that is gone, or that is deleted while it waits, is lost.
put_fota_packet ==
  \/ mgr = "put" /\ mq = "live" /\ (PutDone \/ PutBlocks)
  \/ mgr = "blocked" /\ mq = "live" /\ PutDone
  \/ mgr \in {"put", "blocked"} /\ mq # "live" /\ PutLost /\ lostPut' = TRUE
  \/ mgr = "put" /\ "mem" \in Faults /\ PutLost /\ UNCHANGED lostPut

\* while(!fota_task_exit) ... while(retrycount-- > 0)
AwaitWriter ==
  /\ mgr = "await" /\ exit
  /\ IF retrycount > 0
     THEN mgr' = "init" /\ retrycount' = retrycount - 1
     ELSE mgr' = "finish" /\ UNCHANGED retrycount
  /\ UNCHANGED <<round, ret, next, getLeft, lostPut, mq, queue, exit, writer,
                 image, intact, accepted>>

\* The task is over without a reboot: it failed.
Finish ==
  /\ mgr = "finish"
  /\ mgr' = "idle"
  /\ ret' = IF ret = "ok" THEN "upd_fail" ELSE ret
  /\ UNCHANGED <<round, retrycount, next, getLeft, lostPut, mq, queue, exit,
                 writer, image, intact, accepted>>

Manager ==
  \/ _ty_mgr_module_fota
  \/ fota_task_init \/ fota_task_initBusy \/ fota_task_initFails
  \/ http_get_fota \/ put_fota_packet \/ AwaitWriter \/ Finish
-----------------------------------------------------------------------------
(* The writer of round r.                                                  *)

Step(r, from, to) ==
  /\ writer[r] = from
  /\ writer' = [writer EXCEPT ![r] = to]
  /\ UNCHANGED mgrVars

WriterStart(r) ==
  /\ Step(r, "created", "open")
  /\ exit' = FALSE
  /\ UNCHANGED <<mq, queue, image, intact, accepted>>

\* Variant: fota_offset is not set back to the start of the file.
ty_ota_update_InitKeeps(r) ==
  /\ Step(r, "open", "recv")
  /\ UNCHANGED <<mq, queue, exit, image, intact, accepted>>

ty_ota_update_Init(r) ==
  /\ \/ Step(r, "open", "recv")
     \/ "open" \in Faults /\ Step(r, "open", "delete")
  /\ image' = <<>> /\ intact' = TRUE
  /\ UNCHANGED <<mq, queue, exit, accepted>>

\* ty_ota_write_flash returns nothing: what vfs_write returns, -1 or less than
\* the packet's length, is added to fota_offset.
ty_ota_write_flash(p) ==
  /\ image' = Append(image, p)
  /\ intact' \in {intact} \cup (IF "write" \in Faults THEN {FALSE} ELSE {})

\* Take a packet and write it.  On a NULL queue ty_get_msg_que keeps failing
\* and the loop goes on.
Receive(r, to) ==
  /\ mq = "live" /\ queue # <<>>
  /\ Step(r, "recv", to)
  /\ queue' = Tail(queue)
  /\ ty_ota_write_flash(Head(queue))
  /\ UNCHANGED <<mq, exit, accepted>>

\* Variant: last_flag is not looked at.
WriterRecvOnce(r) == Receive(r, "validate")

\* Variant: the packet that ends a failed download is not marked as the last.
WriterRecvNoStub(r) ==
  Receive(r, IF Head(queue)[2] = Packets THEN "validate" ELSE "recv")

WriterRecv(r) ==
  Receive(r, IF IsLast(Head(queue)[2]) THEN "validate" ELSE "recv")

\* MG_updateFirmware refuses the file, or takes it and reboots on its own;
\* until it does, the writer goes on.
ty_ota_check_FwValidate(r) ==
  /\ Step(r, "validate", "delete")
  /\ accepted' \in {accepted, TRUE}
  /\ UNCHANGED <<mq, queue, exit, image, intact>>

WriterDelete(r) ==
  /\ Step(r, "delete", "null")
  /\ mq' = "freed" /\ queue' = <<>>
  /\ UNCHANGED <<exit, image, intact, accepted>>

WriterNull(r) ==
  /\ Step(r, "null", "exit")
  /\ mq' = "null"
  /\ UNCHANGED <<queue, exit, image, intact, accepted>>

\* Variant: the thread ends without raising the flag.
WriterExitSilent(r) ==
  /\ Step(r, "exit", "gone")
  /\ UNCHANGED <<mq, queue, exit, image, intact, accepted>>

WriterExit(r) ==
  /\ Step(r, "exit", "gone")
  /\ exit' = TRUE
  /\ UNCHANGED <<mq, queue, image, intact, accepted>>

ty_fota_task(r) ==
  \/ WriterStart(r) \/ ty_ota_update_Init(r) \/ WriterRecv(r)
  \/ ty_ota_check_FwValidate(r) \/ WriterDelete(r) \/ WriterNull(r)
  \/ WriterExit(r)

\* The reboot of an accepted update: RAM is gone.
Reboot ==
  /\ accepted
  /\ mgr' = "idle" /\ retrycount' = 0 /\ ret' = "ok"
  /\ next' = 1 /\ getLeft' = GetRetry /\ lostPut' = FALSE
  /\ mq' = "null" /\ queue' = <<>> /\ exit' = FALSE
  /\ round' = 0 /\ writer' = [r \in Rounds |-> "none"]
  /\ accepted' = FALSE
  /\ UNCHANGED <<image, intact>>

Next == Manager \/ (\E r \in Rounds : ty_fota_task(r)) \/ Reboot

\* The scheduler runs every ready thread; no task need ever arrive, and an
\* accepted update need not reboot in time.
Fairness ==
  /\ WF_vars(Manager /\ mgr # "idle")
  /\ \A r \in Rounds : WF_vars(ty_fota_task(r))

Spec == Init /\ [][Next]_vars
FairSpec == Spec /\ Fairness
-----------------------------------------------------------------------------
MgrLabels == {"idle", "init", "get", "put", "blocked", "await", "finish"}
WriterLabels == {"none", "created", "open", "recv", "validate", "delete",
                 "null", "exit", "gone"}
Codes == {"ok", "dld_err", "task_fail", "upd_fail"}

\* Every variable has its type; http_get_fota's retry counter never passes
\* FOTA_HTTP_GET_FW_RETRY_CNT and the packet queue never passes its size.
TypeOK ==
  /\ mgr \in MgrLabels
  /\ round \in 0..MaxRounds
  /\ retrycount \in Nat
  /\ ret \in Codes
  /\ next \in 0..Packets
  /\ getLeft \in 0..GetRetry
  /\ mq \in {"null", "live", "freed"}
  /\ queue \in Seq(PacketSet) /\ Len(queue) <= QueueSize
  /\ exit \in BOOLEAN
  /\ writer \in [Rounds -> WriterLabels]
  /\ image \in Seq(PacketSet) /\ intact \in BOOLEAN
  /\ accepted \in BOOLEAN
  /\ lostPut \in BOOLEAN

\* The writers that may still use fota_task_queue or the update file.
Using == {r \in Rounds : writer[r] \in {"created", "open", "recv", "validate",
                                        "delete", "null"}}

\* However late a writer runs, and although the manager may go on without
\* it, no two writers ever share fota_task_queue and the update file, as long
\* as the queue can be created.
OneWriter == \A r, s \in Using : r = s

\* Where a packet comes in its round: the one that ends a failed download is
\* the last.
Place(i) == IF i = Stub THEN Packets + 1 ELSE i

FromRound(s, r) == \A i \in 1..Len(s) : s[i][1] = r
Ascending(s) == \A i, j \in 1..Len(s) : i < j => Place(s[i][2]) < Place(s[j][2])

\* Whatever fails but the creation of the queue, what the writer hands to
\* MG_updateFirmware was put together from packets of its own round alone, in
\* order, none of them twice and nothing behind the last one, although packets
\* may be missing and their writes may have failed.
OneSource ==
  \A r \in Rounds :
    writer[r] = "validate" => FromRound(image, r) /\ Ascending(image)

\* As long as allocations, the queue and the writes to the file succeed, the
\* file handed to MG_updateFirmware came from one download: when it ends with
\* the firmware's last packet, it holds every packet of that round in order.
Whole(r) == [i \in 1..Packets |-> <<r, i>>]
ImageWhole ==
  \A r \in Rounds :
    writer[r] = "validate" /\ image[Len(image)][2] = Packets
      => image = Whole(r) /\ intact

\* A packet is never put to a queue that the writer has deleted or taken away,
\* as long as the update file can be opened and the queue be created: the last
\* packet is what makes the writer leave.
NoLostPut == ~lostPut

\* The manager polls fota_task_exit, and waits for room in a full queue, without
\* a time limit: it never does so with no writer left that will raise the flag,
\* because it has the last packet before it, or that will make room (as long as
\* packets get their memory and the queue can be created).
NoStuckWait ==
  /\ mgr = "await" =>
       \/ exit \/ writer[round] \in {"validate", "delete", "null", "exit"}
       \/ /\ writer[round] \in {"created", "open", "recv"}
          /\ \E i \in 1..Len(queue) : IsLast(queue[i][2])
  /\ mgr = "blocked" /\ mq = "live" =>
       writer[round] \in {"created", "open", "recv", "validate", "delete"}

\* _ty_mgr_module_fota returns, or the device reboots: the manager is never
\* left waiting for a flag nobody raises or for room nobody makes (on the same
\* condition).
TaskEnds == mgr = "init" ~> mgr = "idle"

\* "Write the last packet to make the flash-writing task leave": once the
\* manager has put it, the writer of the round comes to its end, also when
\* the manager has long gone on to another round (on the same condition).
LastPacketEndsWriter ==
  \A r \in Rounds : mgr = "await" /\ round = r ~> writer[r] \in {"gone", "none"}
=============================================================================
