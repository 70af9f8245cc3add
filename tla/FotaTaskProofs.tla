--------------------------- MODULE FotaTaskProofs ---------------------------
(***************************************************************************)
(* Proofs about FotaTask, for every number of rounds, packets and retries  *)
(* and every queue size.                                                   *)
(***************************************************************************)
EXTENDS FotaTask, TLAPS

USE FotaAssumption

\* What the queue operations do to the type and the length of a sequence.
LEMMA SeqFacts ==
  ASSUME NEW S, NEW s \in Seq(S)
  PROVE  /\ s # <<>> => /\ Head(s) \in S
                        /\ Tail(s) \in Seq(S)
                        /\ Len(Tail(s)) = Len(s) - 1
         /\ \A e \in S : Append(s, e) \in Seq(S) /\ Len(Append(s, e)) = Len(s) + 1
         /\ Len(s) \in Nat
OBVIOUS

\* The empty queue.
LEMMA EmptySeq == ASSUME NEW S PROVE <<>> \in Seq(S) /\ Len(<<>>) = 0
OBVIOUS

\* The types hold at power-up.
LEMMA TypeInit == Init => TypeOK
<1> SUFFICES ASSUME Init PROVE TypeOK OBVIOUS
<1>1. queue \in Seq(PacketSet) /\ Len(queue) <= QueueSize
  BY EmptySeq DEF Init
<1>2. image \in Seq(PacketSet) BY EmptySeq DEF Init
<1>3. writer \in [Rounds -> WriterLabels] BY DEF Init, WriterLabels
<1>4. next \in 0..Packets /\ getLeft \in 0..GetRetry /\ round \in 0..MaxRounds
      /\ retrycount \in Nat
  BY DEF Init
<1>5. /\ mgr \in MgrLabels /\ ret \in Codes /\ mq \in {"null", "live", "freed"}
      /\ exit \in BOOLEAN /\ intact \in BOOLEAN /\ accepted \in BOOLEAN
      /\ lostPut \in BOOLEAN
  BY DEF Init, MgrLabels, Codes
<1> QED BY <1>1, <1>2, <1>3, <1>4, <1>5 DEF TypeOK

\* A manager in the middle of a round has started one.
Started == mgr \in {"get", "put", "blocked", "await"} => round \in Rounds

\* Every step of the manager, of a writer, and the reboot keep the types.
LEMMA TypeStep == TypeOK /\ Started /\ [Next]_vars => TypeOK' /\ Started'
<1> SUFFICES ASSUME TypeOK, Started, [Next]_vars PROVE TypeOK' /\ Started'
  OBVIOUS
<1> USE DEF TypeOK, Started, MgrLabels, WriterLabels, Codes, Rounds
<1>1. CASE _ty_mgr_module_fota BY <1>1 DEF _ty_mgr_module_fota
<1>2. CASE fota_task_init
  BY <1>2, EmptySeq DEF fota_task_init, StartWriter, NewQueue
<1>3. CASE fota_task_initBusy BY <1>3 DEF fota_task_initBusy
<1>11. CASE fota_task_initFails BY <1>11, EmptySeq DEF fota_task_initFails, NewQueue
<1>4. CASE http_get_fota
  <2>1. CASE GetPacket BY <2>1 DEF GetPacket, PutNext
  <2>2. CASE GetFailed BY <2>2 DEF GetFailed, PutNext, Stub
  <2>3. CASE GetRetryAgain BY <2>3 DEF GetRetryAgain, GetAgain
  <2> QED BY <1>4, <2>1, <2>2, <2>3 DEF http_get_fota
<1>5. CASE put_fota_packet
  <2>1. CASE mgr \in {"put", "blocked"} /\ mq = "live" /\ PutDone
    <3>1. <<round, next>> \in PacketSet BY <2>1 DEF PacketSet
    <3>2. queue' \in Seq(PacketSet) /\ Len(queue') <= QueueSize
      BY <2>1, <3>1, SeqFacts DEF PutDone
    <3> QED BY <2>1, <3>2 DEF PutDone, AfterPut, IsLast, Stub
  <2>2. CASE mgr = "put" /\ PutBlocks BY <2>2 DEF PutBlocks
  <2>3. CASE mgr \in {"put", "blocked"} /\ PutLost /\ lostPut' = TRUE
    BY <2>3 DEF PutLost, AfterPut, IsLast, Stub
  <2>4. CASE mgr = "put" /\ PutLost /\ UNCHANGED lostPut
    BY <2>4 DEF PutLost, AfterPut, IsLast, Stub
  <2> QED BY <1>5, <2>1, <2>2, <2>3, <2>4 DEF put_fota_packet
<1>6. CASE AwaitWriter BY <1>6 DEF AwaitWriter
<1>7. CASE Finish BY <1>7 DEF Finish
<1>8. ASSUME NEW r \in Rounds, ty_fota_task(r) PROVE TypeOK' /\ Started'
  <2> USE DEF Step, mgrVars
  <2>1. CASE WriterStart(r) BY <2>1 DEF WriterStart
  <2>2. CASE ty_ota_update_Init(r) BY <2>2, EmptySeq DEF ty_ota_update_Init
  <2>3. CASE WriterRecv(r) 
    <3>1. /\ queue' \in Seq(PacketSet) /\ Len(queue') <= QueueSize
          /\ image' \in Seq(PacketSet)
      BY <2>3, SeqFacts DEF WriterRecv, Receive, ty_ota_write_flash
    <3>2. intact' \in BOOLEAN
      <4>1. intact' \in {intact} \cup {FALSE}
        BY <2>3 DEF WriterRecv, Receive, ty_ota_write_flash
      <4> QED BY <4>1
    <3> QED BY <2>3, <3>1, <3>2 DEF WriterRecv, Receive
  <2>4. CASE ty_ota_check_FwValidate(r) BY <2>4 DEF ty_ota_check_FwValidate
  <2>5. CASE WriterDelete(r) BY <2>5, EmptySeq DEF WriterDelete
  <2>6. CASE WriterNull(r) BY <2>6 DEF WriterNull
  <2>7. CASE WriterExit(r) BY <2>7 DEF WriterExit
  <2> QED BY <1>8, <2>1, <2>2, <2>3, <2>4, <2>5, <2>6, <2>7 DEF ty_fota_task
<1>9. CASE Reboot
  <2>1. queue' \in Seq(PacketSet) /\ Len(queue') <= QueueSize
    BY <1>9, EmptySeq DEF Reboot
  <2>2. next' \in 0..Packets /\ getLeft' \in 0..GetRetry /\ round' \in 0..MaxRounds
        /\ retrycount' \in Nat
    BY <1>9 DEF Reboot
  <2>3. writer' \in [Rounds -> WriterLabels] BY <1>9 DEF Reboot
  <2> QED BY <1>9, <2>1, <2>2, <2>3 DEF Reboot
<1>10. CASE UNCHANGED vars BY <1>10 DEF vars, mgrVars
<1> QED BY <1>1, <1>2, <1>3, <1>4, <1>5, <1>6, <1>7, <1>8, <1>9, <1>10, <1>11
        DEF Next, Manager

\* The variables keep their types in every behaviour, whatever fails.
THEOREM TypeCorrect == Spec => []TypeOK
<1>1. Init => TypeOK /\ Started BY TypeInit DEF Init, Started
<1> QED BY <1>1, TypeStep, PTL DEF Spec
-----------------------------------------------------------------------------
(***************************************************************************)
(* The writers.  Only the writer of the latest round may use the queue:    *)
(* a writer that has cleared fota_task_queue never touches it again, and   *)
(* fota_task_init refuses while it is set.                                 *)
(***************************************************************************)
Holding == {"created", "open", "recv", "validate", "delete"}

\* fota_task_queue says whether a writer is at work, and which part of its
\* end it has reached.
QueueTracksWriter ==
  \A r \in Rounds :
    /\ r > round => writer[r] = "none"
    /\ writer[r] \in Holding => r = round /\ mq = "live"
    /\ writer[r] = "null" => r = round /\ mq = "freed"

\* Only the manager creates a writer, and it does so when no other can be at
\* work: every step keeps QueueTracksWriter.
LEMMA TrackStep ==
  ASSUME "queue" \notin Faults
  PROVE  TypeOK /\ QueueTracksWriter /\ [Next]_vars => QueueTracksWriter'
<1> SUFFICES ASSUME TypeOK, QueueTracksWriter, [Next]_vars
             PROVE  QueueTracksWriter'
  OBVIOUS
<1> USE DEF TypeOK, QueueTracksWriter, Holding, WriterLabels, Rounds
<1>1. CASE fota_task_init BY <1>1 DEF fota_task_init, StartWriter, NewQueue
<1>2. CASE UNCHANGED <<round, mq, writer>>
  BY <1>2
<1>7. CASE fota_task_initFails BY <1>7 DEF fota_task_initFails, NewQueue
<1>3. ASSUME NEW r \in Rounds, ty_fota_task(r) PROVE QueueTracksWriter'
  <2> USE DEF Step, mgrVars
  <2>1. CASE WriterStart(r) BY <2>1 DEF WriterStart
  <2>2. CASE ty_ota_update_Init(r) BY <2>2 DEF ty_ota_update_Init
  <2>3. CASE WriterRecv(r) BY <2>3 DEF WriterRecv, Receive
  <2>4. CASE ty_ota_check_FwValidate(r) BY <2>4 DEF ty_ota_check_FwValidate
  <2>5. CASE WriterDelete(r) BY <2>5 DEF WriterDelete
  <2>6. CASE WriterNull(r) BY <2>6 DEF WriterNull
  <2>7. CASE WriterExit(r) BY <2>7 DEF WriterExit
  <2> QED BY <1>3, <2>1, <2>2, <2>3, <2>4, <2>5, <2>6, <2>7 DEF ty_fota_task
<1>4. CASE Reboot BY <1>4 DEF Reboot
<1>5. CASE Manager /\ ~fota_task_init /\ ~fota_task_initFails
  BY <1>2, <1>5 DEF Manager, _ty_mgr_module_fota, fota_task_initBusy,
     http_get_fota, GetPacket, GetFailed, PutNext, GetRetryAgain, GetAgain,
     put_fota_packet, PutDone, PutBlocks, PutLost, AwaitWriter, Finish
<1>6. CASE UNCHANGED vars BY <1>2, <1>6 DEF vars, mgrVars
<1> QED BY <1>1, <1>3, <1>4, <1>5, <1>6, <1>7 DEF Next

\* As long as the packet queue can be created, two writers never share it and
\* the update file, however late a writer runs and whatever else fails.
THEOREM OneWriterHolds ==
  ASSUME "queue" \notin Faults
  PROVE  Spec => []OneWriter
<1>1. Init => TypeOK /\ Started /\ QueueTracksWriter
  BY TypeInit DEF Init, Started, QueueTracksWriter, Holding, Rounds
<1>2. QueueTracksWriter => OneWriter
  BY DEF QueueTracksWriter, Holding, OneWriter, Using
<1> QED BY <1>1, <1>2, TypeStep, TrackStep, PTL DEF Spec
-----------------------------------------------------------------------------
(***************************************************************************)
(* Between fota_task_init and the last packet the manager always has a     *)
(* writer before it that has not seen a last packet, if the update file    *)
(* can be opened.                                                          *)
(***************************************************************************)
Filling == {"created", "open", "recv"}
InRound == {"get", "put", "blocked"}

Serving ==
  mgr \in InRound =>
    /\ writer[round] \in Filling
    /\ \A i \in 1..Len(queue) : ~IsLast(queue[i][2])

\* What is where after a packet is put into, or taken out of, a sequence.
LEMMA SeqElements ==
  ASSUME NEW S, NEW s \in Seq(S)
  PROVE  /\ \A e \in S : /\ \A i \in 1..Len(s) : Append(s, e)[i] = s[i]
                        /\ Append(s, e)[Len(s) + 1] = e
         /\ s # <<>> => /\ Len(s) >= 1 /\ Head(s) = s[1]
                        /\ \A i \in 1..(Len(s) - 1) : Tail(s)[i] = s[i + 1]
OBVIOUS

\* Every step keeps a writer before the manager, and loses no packet.
LEMMA ServingStep ==
  ASSUME "open" \notin Faults, "queue" \notin Faults
  PROVE  /\ TypeOK /\ Started /\ QueueTracksWriter /\ Serving /\ NoLostPut
         /\ [Next]_vars
         => Serving' /\ NoLostPut'
<1> SUFFICES ASSUME TypeOK, Started, QueueTracksWriter, Serving, NoLostPut,
                    [Next]_vars
             PROVE  Serving' /\ NoLostPut'
  OBVIOUS
<1> USE DEF TypeOK, Started, Serving, NoLostPut, InRound, Filling, Rounds
<1>1. CASE _ty_mgr_module_fota BY <1>1 DEF _ty_mgr_module_fota
<1>2. CASE fota_task_init
  <2>1. Len(queue') = 0 /\ writer'[round'] = "created" /\ lostPut' = lostPut
    BY <1>2, EmptySeq DEF fota_task_init, StartWriter
  <2> QED BY <2>1
<1>3. CASE fota_task_initBusy BY <1>3 DEF fota_task_initBusy
<1>11. CASE fota_task_initFails BY <1>11, EmptySeq DEF fota_task_initFails, NewQueue
<1>4. CASE http_get_fota
  BY <1>4 DEF http_get_fota, GetPacket, GetFailed, PutNext, GetRetryAgain, GetAgain
<1>5. CASE put_fota_packet
  <2>1. mgr \in InRound /\ mq = "live"
    BY <1>5 DEF put_fota_packet, QueueTracksWriter, Holding
  <2>2. CASE PutDone
    <3>1. <<round, next>> \in PacketSet BY <2>1 DEF PacketSet
    <3>2. /\ Len(queue') = Len(queue) + 1 /\ Len(queue) \in Nat
          /\ queue'[Len(queue) + 1] = <<round, next>>
          /\ \A i \in 1..Len(queue) : queue'[i] = queue[i]
      BY <2>2, <3>1, SeqFacts, SeqElements DEF PutDone
    <3>3. mgr' \in InRound => ~IsLast(next) BY <2>2 DEF PutDone, AfterPut
    <3>4. UNCHANGED <<round, writer, lostPut>> BY <2>2 DEF PutDone
    <3>5. ASSUME mgr' \in InRound, NEW i \in 1..Len(queue')
          PROVE  ~IsLast(queue'[i][2])
      <4>1. CASE i = Len(queue) + 1 BY <3>2, <3>3, <3>5, <4>1
      <4>2. CASE i \in 1..Len(queue) BY <2>1, <3>2, <4>2
      <4> QED BY <3>2, <3>5, <4>1, <4>2
    <3>6. writer'[round'] \in Filling BY <2>1, <3>4
    <3> QED BY <3>4, <3>5, <3>6
  <2>3. CASE PutBlocks BY <2>1, <2>3 DEF PutBlocks
  <2>4. CASE PutLost /\ UNCHANGED lostPut BY <2>1, <2>4 DEF PutLost
  <2> QED BY <1>5, <2>1, <2>2, <2>3, <2>4 DEF put_fota_packet
<1>6. CASE AwaitWriter BY <1>6 DEF AwaitWriter
<1>7. CASE Finish BY <1>7 DEF Finish
<1>8. ASSUME NEW r \in Rounds, ty_fota_task(r) PROVE Serving' /\ NoLostPut'
  <2> USE DEF Step, mgrVars, QueueTracksWriter, Holding
  <2>1. CASE WriterStart(r) BY <2>1 DEF WriterStart
  <2>2. CASE ty_ota_update_Init(r) BY <2>2 DEF ty_ota_update_Init
  <2>3. CASE WriterRecv(r)
    <3>1. r = round /\ writer[round] = "recv" /\ UNCHANGED <<mgr, round, lostPut>>
      BY <2>3 DEF WriterRecv, Receive
    <3>2. /\ Len(queue') = Len(queue) - 1 /\ Len(queue) >= 1 /\ Len(queue) \in Nat
          /\ \A i \in 1..Len(queue') : queue'[i] = queue[i + 1]
          /\ Head(queue) = queue[1]
      BY <2>3, SeqFacts, SeqElements DEF WriterRecv, Receive
    <3>3. mgr \in InRound => writer'[round] = "recv"
      BY <2>3, <3>1, <3>2 DEF WriterRecv, Receive
    <3> QED BY <3>1, <3>2, <3>3
  <2>4. CASE ty_ota_check_FwValidate(r) BY <2>4 DEF ty_ota_check_FwValidate
  <2>5. CASE WriterDelete(r) BY <2>5 DEF WriterDelete
  <2>6. CASE WriterNull(r) BY <2>6 DEF WriterNull
  <2>7. CASE WriterExit(r) BY <2>7 DEF WriterExit
  <2> QED BY <1>8, <2>1, <2>2, <2>3, <2>4, <2>5, <2>6, <2>7 DEF ty_fota_task
<1>9. CASE Reboot BY <1>9 DEF Reboot
<1>10. CASE UNCHANGED vars BY <1>10 DEF vars, mgrVars
<1> QED BY <1>1, <1>2, <1>3, <1>4, <1>5, <1>6, <1>7, <1>8, <1>9, <1>10, <1>11
        DEF Next, Manager

\* As long as the update file can be opened and the packet queue be created, no
\* packet is ever put to a queue that is not there, also when the manager has
\* left the wait of the round before on a flag of an earlier writer, a packet is
\* dropped for lack of memory or a write comes short.
THEOREM NoLostPutHolds ==
  ASSUME "open" \notin Faults, "queue" \notin Faults
  PROVE  Spec => []NoLostPut
<1>1. Init => TypeOK /\ Started /\ QueueTracksWriter /\ Serving /\ NoLostPut
  BY TypeInit DEF Init, Started, QueueTracksWriter, Holding, Rounds, Serving,
                  InRound, NoLostPut
<1> QED BY <1>1, TypeStep, TrackStep, ServingStep, PTL DEF Spec
-----------------------------------------------------------------------------
(***************************************************************************)
(* The waits.  When packets get their memory, whoever waits has a writer   *)
(* before it that will come to its end.                                    *)
(***************************************************************************)
Answerable ==
  /\ round \in Rounds => writer[round] # "none"
  /\ round \in Rounds /\ writer[round] = "gone" => exit
  /\ mgr \in InRound /\ mq = "live" => writer[round] \in Holding
  /\ mgr = "await" /\ writer[round] \in Filling =>
       \E i \in 1..Len(queue) : IsLast(queue[i][2])

\* Every step keeps the waits answerable.
LEMMA AnswerableStep ==
  ASSUME "mem" \notin Faults, "queue" \notin Faults
  PROVE  /\ TypeOK /\ Started /\ QueueTracksWriter /\ Answerable /\ [Next]_vars
         => Answerable'
<1> SUFFICES ASSUME TypeOK, Started, QueueTracksWriter, Answerable, [Next]_vars
             PROVE  Answerable'
  OBVIOUS
<1> USE DEF TypeOK, Started, Answerable, Filling, InRound, Holding, Rounds,
            WriterLabels
<1>1. CASE _ty_mgr_module_fota BY <1>1 DEF _ty_mgr_module_fota
<1>2. CASE fota_task_init BY <1>2 DEF fota_task_init, StartWriter
<1>3. CASE fota_task_initBusy BY <1>3 DEF fota_task_initBusy
<1>11. CASE fota_task_initFails BY <1>11, EmptySeq DEF fota_task_initFails, NewQueue
<1>4. CASE http_get_fota
  BY <1>4 DEF http_get_fota, GetPacket, GetFailed, PutNext, GetRetryAgain, GetAgain
<1>5. CASE put_fota_packet
  <2>1. round \in Rounds /\ mgr \in InRound BY <1>5 DEF put_fota_packet
  <2>2. CASE PutDone
    <3>1. <<round, next>> \in PacketSet BY <2>1 DEF PacketSet
    <3>2. /\ Len(queue') = Len(queue) + 1 /\ Len(queue) \in Nat
          /\ queue'[Len(queue) + 1] = <<round, next>>
      BY <2>2, <3>1, SeqFacts, SeqElements DEF PutDone
    <3>3. UNCHANGED <<round, writer, exit, mq>> BY <2>2 DEF PutDone
    <3>4. mgr' = "await" => IsLast(next) BY <2>2 DEF PutDone, AfterPut
    <3>5. mgr' = "await" => \E i \in 1..Len(queue') : IsLast(queue'[i][2])
      BY <3>2, <3>4
    <3> QED BY <2>1, <3>3, <3>5
  <2>3. CASE PutBlocks BY <2>1, <2>3 DEF PutBlocks
  <2>4. CASE mq # "live" /\ PutLost
    <3>1. writer[round] \notin Filling BY <2>1, <2>4 DEF QueueTracksWriter
    <3> QED BY <2>1, <2>4, <3>1 DEF PutLost
  <2> QED BY <1>5, <2>2, <2>3, <2>4 DEF put_fota_packet
<1>6. CASE AwaitWriter BY <1>6 DEF AwaitWriter
<1>7. CASE Finish BY <1>7 DEF Finish
<1>8. ASSUME NEW r \in Rounds, ty_fota_task(r) PROVE Answerable'
  <2> USE DEF Step, mgrVars, QueueTracksWriter
  <2>1. CASE WriterStart(r) BY <2>1 DEF WriterStart
  <2>2. CASE ty_ota_update_Init(r) BY <2>2 DEF ty_ota_update_Init
  <2>3. CASE WriterRecv(r)
    <3>1. /\ r = round /\ writer[round] = "recv"
          /\ UNCHANGED <<mgr, round, mq, exit>> /\ mq = "live"
          /\ writer'[round] \in {"recv", "validate"}
      BY <2>3 DEF WriterRecv, Receive
    <3>2. /\ Len(queue') = Len(queue) - 1 /\ Len(queue) >= 1 /\ Len(queue) \in Nat
          /\ \A i \in 1..Len(queue') : queue'[i] = queue[i + 1]
          /\ Head(queue) = queue[1]
      BY <2>3, SeqFacts, SeqElements DEF WriterRecv, Receive
    <3>3. writer'[round] = "recv" => ~IsLast(queue[1][2])
      BY <2>3, <3>1, <3>2 DEF WriterRecv, Receive
    <3>4. ASSUME mgr = "await", writer'[round] = "recv"
          PROVE  \E i \in 1..Len(queue') : IsLast(queue'[i][2])
      <4>1. PICK i \in 1..Len(queue) : IsLast(queue[i][2]) BY <3>1, <3>4
      <4>2. i # 1 BY <3>3, <3>4, <4>1
      <4>3. i - 1 \in 1..Len(queue') /\ queue'[i - 1] = queue[i] BY <3>2, <4>2
      <4> QED BY <4>1, <4>3
    <3> QED BY <3>1, <3>4
  <2>4. CASE ty_ota_check_FwValidate(r) BY <2>4 DEF ty_ota_check_FwValidate
  <2>5. CASE WriterDelete(r) BY <2>5 DEF WriterDelete
  <2>6. CASE WriterNull(r) BY <2>6 DEF WriterNull
  <2>7. CASE WriterExit(r) BY <2>7 DEF WriterExit
  <2> QED BY <1>8, <2>1, <2>2, <2>3, <2>4, <2>5, <2>6, <2>7 DEF ty_fota_task
<1>9. CASE Reboot BY <1>9 DEF Reboot
<1>10. CASE UNCHANGED vars BY <1>10 DEF vars, mgrVars
<1> QED BY <1>1, <1>2, <1>3, <1>4, <1>5, <1>6, <1>7, <1>8, <1>9, <1>10, <1>11
        DEF Next, Manager

\* As long as put_fota_packet gets its memory and the packet queue can be
\* created, the manager never waits for the flag or for room with nobody left to
\* raise it or to make room, whatever else fails: the safety part of "the task
\* ends", for every number of packets, rounds and retries and every queue size.
THEOREM NoStuckWaitHolds ==
  ASSUME "mem" \notin Faults, "queue" \notin Faults
  PROVE  Spec => []NoStuckWait
<1>1. Init => TypeOK /\ Started /\ QueueTracksWriter /\ Answerable
  BY TypeInit DEF Init, Started, QueueTracksWriter, Holding, Rounds, Answerable,
                  InRound
<1>2. TypeOK /\ Started /\ Answerable => NoStuckWait
  BY DEF TypeOK, Started, Answerable, Holding, Filling, InRound, WriterLabels, NoStuckWait
<1> QED BY <1>1, <1>2, TypeStep, TrackStep, AnswerableStep, PTL DEF Spec
-----------------------------------------------------------------------------
(***************************************************************************)
(* The packets.  When no packet is lost, the update file followed by the   *)
(* queue is what the manager has put in this round: packets 1, 2, ... of   *)
(* the round, and at most one last packet, at the very end.                *)
(***************************************************************************)
\* Packets of this round that the writer has already written.
Written == IF writer[round] = "recv" THEN Len(image) ELSE 0

\* The queue goes on where the file stops; a last packet is at its end, and is
\* not there yet while the manager still has packets to put.
QueueInOrder ==
  round \in Rounds /\ writer[round] \in Filling =>
    /\ \A i \in 1..Len(queue) :
         \/ queue[i] = <<round, Written + i>> /\ Written + i <= Packets
            /\ (Written + i = Packets => i = Len(queue) /\ mgr \notin InRound)
         \/ queue[i] = <<round, Stub>> /\ i = Len(queue) /\ mgr \notin InRound
    /\ mgr = "get" => next = Written + Len(queue) + 1
    /\ mgr \in {"put", "blocked"} => next \in {Stub, Written + Len(queue) + 1}

\* While it is being written the file holds packets 1, 2, ... of this round.
FileInOrder ==
  round \in Rounds /\ writer[round] = "recv" =>
    Len(image) < Packets /\ \A i \in 1..Len(image) : image[i] = <<round, i>>

\* The file the writer hands over has exactly one last packet, its end.
FileComplete ==
  round \in Rounds /\ writer[round] = "validate" =>
    /\ Len(image) \in 1..Packets
    /\ \A i \in 1..(Len(image) - 1) : image[i] = <<round, i>>
    /\ \/ image[Len(image)] = <<round, Stub>>
       \/ image[Len(image)] = <<round, Packets>> /\ Len(image) = Packets

InOrder == QueueInOrder /\ FileInOrder /\ FileComplete
IInv == TypeOK /\ Started /\ QueueTracksWriter /\ InOrder

\* The put of packet next goes to the end of what is there.
LEMMA PutKeepsOrder ==
  ASSUME IInv, mgr \in {"put", "blocked"}, mq = "live", PutDone
  PROVE  InOrder'
<1> USE DEF IInv, TypeOK, Started, InOrder, InRound, Filling, Written, Rounds
<1>1. <<round, next>> \in PacketSet BY DEF PacketSet
<1>2. /\ Len(queue') = Len(queue) + 1 /\ Len(queue) \in Nat
      /\ queue'[Len(queue) + 1] = <<round, next>>
      /\ \A i \in 1..Len(queue) : queue'[i] = queue[i]
  BY <1>1, SeqFacts, SeqElements DEF PutDone
<1>3. Len(image) \in Nat BY SeqFacts
<1>4. UNCHANGED <<round, writer, image>> BY DEF PutDone
<1>5. /\ mgr' = IF IsLast(next) THEN "await" ELSE "get"
      /\ next' = IF IsLast(next) THEN next ELSE next + 1
  BY DEF PutDone, AfterPut
<1>6. FileInOrder' /\ FileComplete' BY <1>4 DEF FileInOrder, FileComplete
<1>7. QueueInOrder'
  <2>1. QueueInOrder /\ next \in 0..Packets /\ round \in Nat OBVIOUS
  <2>2. Written \in Nat /\ Written' = Written BY <1>3, <1>4
  <2> HIDE DEF IInv, Written
  <2> SUFFICES ASSUME round \in Rounds, writer[round] \in Filling
               PROVE  QueueInOrder'
    BY <1>4 DEF QueueInOrder
  <2>3. CASE next = Stub
    BY <1>2, <1>4, <1>5, <2>1, <2>2, <2>3 DEF QueueInOrder, IsLast, Stub
  <2>4. CASE next = Written + Len(queue) + 1
    <3>1. next # Stub /\ (IsLast(next) <=> next = Packets)
      BY <1>2, <2>2, <2>4 DEF IsLast, Stub
    <3>2. \A i \in 1..Len(queue) :
            queue[i] = <<round, Written + i>> /\ Written + i < Packets
      BY <2>1, <2>2, <1>2, <2>4 DEF QueueInOrder
    <3>3. ASSUME NEW i \in 1..Len(queue')
          PROVE  /\ queue'[i] = <<round, Written + i>> /\ Written + i <= Packets
                 /\ Written + i = Packets => i = Len(queue') /\ next = Packets
      <4>1. CASE i \in 1..Len(queue) BY <1>2, <3>2, <4>1, <2>2
      <4>2. CASE i = Len(queue) + 1 BY <1>2, <2>1, <2>4, <4>2, <2>2
      <4> QED BY <1>2, <4>1, <4>2
    <3>4. mgr' = "get" => next' = Written' + Len(queue') + 1
      BY <1>2, <1>5, <2>1, <2>2, <2>4, <3>1
    <3> QED BY <1>4, <1>5, <2>2, <3>1, <3>3, <3>4 DEF QueueInOrder
  <2> QED BY <2>1, <2>3, <2>4 DEF QueueInOrder
<1> QED BY <1>6, <1>7

\* The writer of a round takes the packets in the order they were put.
LEMMA RecvKeepsOrder ==
  ASSUME IInv, NEW r \in Rounds, WriterRecv(r)
  PROVE  InOrder'
<1> USE DEF IInv, TypeOK, InOrder, InRound, Filling, Written, Rounds
<1>1. r = round /\ writer[round] = "recv"
  BY DEF WriterRecv, Receive, Step, QueueTracksWriter, Holding
<1>2. /\ UNCHANGED <<round, mgr, next>>
      /\ writer'[round] = IF IsLast(queue[1][2]) THEN "validate" ELSE "recv"
  BY <1>1, SeqElements DEF WriterRecv, Receive, Step, mgrVars
<1>3. queue # <<>> /\ Head(queue) \in PacketSet
  BY SeqFacts DEF WriterRecv, Receive
<1>4. /\ Len(queue) \in Nat /\ Len(queue) >= 1 /\ Len(queue') = Len(queue) - 1
      /\ \A i \in 1..Len(queue') : queue'[i] = queue[i + 1]
  BY <1>3, SeqFacts, SeqElements DEF WriterRecv, Receive
<1>5. /\ Len(image) \in Nat /\ Len(image') = Len(image) + 1
      /\ image'[Len(image) + 1] = queue[1]
      /\ \A i \in 1..Len(image) : image'[i] = image[i]
  BY <1>3, SeqFacts, SeqElements DEF WriterRecv, Receive, ty_ota_write_flash
<1>6. \/ queue[1] = <<round, Len(image) + 1>> /\ Len(image) + 1 <= Packets
      \/ queue[1] = <<round, Stub>> /\ Len(queue) = 1
  BY <1>1, <1>4 DEF QueueInOrder
<1>7. round \in Nat /\ Packets \in Nat \ {0} /\ next \in Nat OBVIOUS
<1>8. Len(image) < Packets /\ \A i \in 1..Len(image) : image[i] = <<round, i>>
  BY <1>1 DEF FileInOrder
<1>9. QueueInOrder OBVIOUS
<1> HIDE DEF IInv
<1>10. FileComplete'
  BY <1>1, <1>2, <1>5, <1>6, <1>7, <1>8 DEF FileComplete, IsLast, Stub
<1>11. FileInOrder'
  <2> SUFFICES ASSUME writer'[round] = "recv"
               PROVE  /\ Len(image') < Packets
                      /\ \A i \in 1..Len(image') : image'[i] = <<round, i>>
    BY <1>2 DEF FileInOrder
  <2>1. queue[1] = <<round, Len(image) + 1>> /\ Len(image) + 1 < Packets
    BY <1>2, <1>5, <1>6, <1>7 DEF IsLast, Stub
  <2> QED BY <1>5, <1>7, <1>8, <2>1
<1>12. QueueInOrder'
  <2> SUFFICES ASSUME writer'[round] \in Filling PROVE QueueInOrder'
    BY <1>2 DEF QueueInOrder
  <2>1. writer'[round] = "recv" /\ Written' = Written + 1 /\ Written = Len(image)
    BY <1>1, <1>2, <1>5
  <2>2. \A i \in 1..Len(queue') : i + 1 \in 1..Len(queue) /\ queue'[i] = queue[i + 1]
    BY <1>4
  <2> HIDE DEF Written
  <2>3. ASSUME NEW i \in 1..Len(queue')
        PROVE  \/ queue'[i] = <<round, Written' + i>> /\ Written' + i <= Packets
                  /\ (Written' + i = Packets => i = Len(queue') /\ mgr \notin InRound)
               \/ queue'[i] = <<round, Stub>> /\ i = Len(queue') /\ mgr \notin InRound
    <3>1. i + 1 \in 1..Len(queue) /\ queue'[i] = queue[i + 1] BY <2>2
    <3>2. i \in Int /\ Written \in Int BY <1>5, <2>1
    <3>3. Written' + i = Written + (i + 1) BY <2>1, <3>2
    <3>4. i = Len(queue') <=> i + 1 = Len(queue) BY <1>4, <3>2
    <3> QED BY <1>1, <1>9, <3>1, <3>3, <3>4 DEF QueueInOrder
  <2>4. Written' + Len(queue') = Written + Len(queue) BY <1>4, <1>5, <2>1
  <2> QED BY <1>1, <1>2, <1>9, <2>3, <2>4 DEF QueueInOrder
<1> QED BY <1>10, <1>11, <1>12

\* Every step keeps the packets in order, as long as put_fota_packet gets its
\* memory.
LEMMA OrderStep ==
  ASSUME "mem" \notin Faults, "queue" \notin Faults
  PROVE  IInv /\ [Next]_vars => InOrder'
<1> SUFFICES ASSUME IInv, [Next]_vars PROVE InOrder' OBVIOUS
<1> USE DEF IInv, TypeOK, InOrder, InRound, Filling, Written, Rounds,
            QueueInOrder, FileInOrder, FileComplete
<1>1. CASE _ty_mgr_module_fota BY <1>1 DEF _ty_mgr_module_fota
<1>2. CASE fota_task_init
  <2>1. /\ Len(queue') = 0 /\ mgr' = "get" /\ next' = 1
        /\ writer'[round'] = "created"
    BY <1>2, EmptySeq DEF fota_task_init, StartWriter
  <2> QED BY <2>1
<1>3. CASE fota_task_initBusy BY <1>3 DEF fota_task_initBusy
<1>11. CASE fota_task_initFails BY <1>11, EmptySeq DEF fota_task_initFails, NewQueue
<1>4. CASE http_get_fota
  <2>1. Len(queue) \in Nat BY SeqFacts
  <2>2. CASE GetPacket BY <2>1, <2>2 DEF GetPacket, PutNext
  <2>3. CASE GetFailed BY <2>1, <2>3 DEF GetFailed, PutNext
  <2>4. CASE GetRetryAgain BY <2>4 DEF GetRetryAgain, GetAgain
  <2> QED BY <1>4, <2>2, <2>3, <2>4 DEF http_get_fota
<1>5. CASE put_fota_packet
  <2>1. CASE mgr \in {"put", "blocked"} /\ mq = "live" /\ PutDone
    BY <2>1, PutKeepsOrder
  <2>2. CASE mgr = "put" /\ PutBlocks BY <2>2 DEF PutBlocks
  <2>3. CASE mgr \in {"put", "blocked"} /\ mq # "live" /\ PutLost
    <3>1. round \in Rounds => writer[round] \notin Filling \cup {"validate"}
      BY <2>3 DEF QueueTracksWriter, Holding
    <3> QED BY <2>3, <3>1 DEF PutLost
  <2> QED BY <1>5, <2>1, <2>2, <2>3 DEF put_fota_packet
<1>6. CASE AwaitWriter BY <1>6 DEF AwaitWriter
<1>7. CASE Finish BY <1>7 DEF Finish
<1>8. ASSUME NEW r \in Rounds, ty_fota_task(r) PROVE InOrder'
  <2>1. CASE WriterRecv(r) BY <2>1, RecvKeepsOrder
  <2> USE DEF Step, mgrVars, QueueTracksWriter, Holding, WriterLabels
  <2>2. CASE ty_ota_update_Init(r) BY <2>2, EmptySeq DEF ty_ota_update_Init
  <2>3. CASE WriterStart(r) BY <2>3 DEF WriterStart
  <2>4. CASE ty_ota_check_FwValidate(r) BY <2>4 DEF ty_ota_check_FwValidate
  <2>5. CASE WriterDelete(r) BY <2>5 DEF WriterDelete
  <2>6. CASE WriterNull(r) BY <2>6 DEF WriterNull
  <2>7. CASE WriterExit(r) BY <2>7 DEF WriterExit
  <2> QED BY <1>8, <2>1, <2>2, <2>3, <2>4, <2>5, <2>6, <2>7 DEF ty_fota_task
<1>9. CASE Reboot
  <2>1. round' \notin Rounds BY <1>9 DEF Reboot
  <2> QED BY <2>1
<1>10. CASE UNCHANGED vars BY <1>10 DEF vars, mgrVars
<1> QED BY <1>1, <1>2, <1>3, <1>4, <1>5, <1>6, <1>7, <1>8, <1>9, <1>10, <1>11
        DEF Next, Manager

\* The packets of this round were all written whole.
FileIntact == \A r \in Rounds : writer[r] \in {"recv", "validate"} => intact

\* A write that succeeds keeps the file as it should be.
LEMMA IntactStep ==
  ASSUME "write" \notin Faults, "queue" \notin Faults
  PROVE  TypeOK /\ QueueTracksWriter /\ FileIntact /\ [Next]_vars => FileIntact'
<1> SUFFICES ASSUME TypeOK, QueueTracksWriter, FileIntact, [Next]_vars
             PROVE  FileIntact'
  OBVIOUS
<1> USE DEF TypeOK, FileIntact, Rounds
<1>1. CASE fota_task_init BY <1>1 DEF fota_task_init, StartWriter
<1>2. CASE UNCHANGED <<writer, intact>> BY <1>2
<1>3. ASSUME NEW r \in Rounds, ty_fota_task(r) PROVE FileIntact'
  <2> USE DEF Step
  <2>1. CASE WriterStart(r) BY <2>1 DEF WriterStart
  <2>2. CASE ty_ota_update_Init(r) BY <2>2 DEF ty_ota_update_Init
  <2>3. CASE WriterRecv(r) BY <2>3 DEF WriterRecv, Receive, ty_ota_write_flash
  <2>4. CASE ty_ota_check_FwValidate(r) BY <2>4 DEF ty_ota_check_FwValidate
  <2>5. CASE WriterDelete(r) BY <2>5 DEF WriterDelete
  <2>6. CASE WriterNull(r) BY <2>6 DEF WriterNull
  <2>7. CASE WriterExit(r) BY <2>7 DEF WriterExit
  <2> QED BY <1>3, <2>1, <2>2, <2>3, <2>4, <2>5, <2>6, <2>7 DEF ty_fota_task
<1>4. CASE Reboot BY <1>4 DEF Reboot
<1>5. CASE Manager /\ ~fota_task_init
  BY <1>2, <1>5 DEF Manager, _ty_mgr_module_fota, fota_task_initBusy,
     fota_task_initFails, http_get_fota, GetPacket, GetFailed, PutNext,
     GetRetryAgain, GetAgain, put_fota_packet, PutDone, PutBlocks, PutLost,
     AwaitWriter, Finish
<1>6. CASE UNCHANGED vars BY <1>2, <1>6 DEF vars
<1> QED BY <1>1, <1>3, <1>4, <1>5, <1>6 DEF Next

\* As long as put_fota_packet gets its memory, the packet queue can be created
\* and the writes of ty_ota_write_flash succeed, a file handed to
\* MG_updateFirmware that ends with the firmware's last packet is the whole
\* firmware of one round, even when ty_ota_update_Init fails, the manager has
\* gone on without an earlier writer, or the queue is small.
THEOREM ImageWholeHolds ==
  ASSUME "mem" \notin Faults, "write" \notin Faults, "queue" \notin Faults
  PROVE  Spec => []ImageWhole
<1>1. Init => IInv /\ FileIntact
  BY TypeInit DEF Init, IInv, Started, QueueTracksWriter, Holding, InOrder,
     QueueInOrder, FileInOrder, FileComplete, FileIntact, Rounds
<1>2. IInv /\ FileIntact /\ [Next]_vars => IInv' /\ FileIntact'
  BY TypeStep, TrackStep, OrderStep, IntactStep DEF IInv
<1>3. IInv /\ FileIntact => ImageWhole
  <2> SUFFICES ASSUME IInv, FileIntact, NEW r \in Rounds, writer[r] = "validate",
                      image[Len(image)][2] = Packets
               PROVE  image = Whole(r) /\ intact
    BY DEF ImageWhole
  <2>1. r = round BY DEF IInv, QueueTracksWriter, Holding
  <2>2. Len(image) = Packets /\ \A i \in 1..Packets : image[i] = <<r, i>>
    BY <2>1 DEF IInv, InOrder, FileComplete, Stub
  <2>3. image = [i \in 1..Len(image) |-> image[i]]
    BY DEF IInv, TypeOK
  <2>4. intact BY DEF FileIntact
  <2> QED BY <2>2, <2>3, <2>4 DEF Whole
<1> QED BY <1>1, <1>2, <1>3, PTL DEF Spec
-----------------------------------------------------------------------------
(***************************************************************************)
(* The packets when some are lost.  The update file, the queue and the     *)
(* packet the manager is about to put are in the order of the firmware.    *)
(***************************************************************************)
Below(s, n) == \A i \in 1..Len(s) : Place(s[i][2]) < n

\* While the file is written it holds packets of this round in order, and those
\* in the queue come behind them.
FileSorted ==
  round \in Rounds /\ writer[round] \in {"recv", "validate"} =>
    FromRound(image, round) /\ Ascending(image)
QueueSorted ==
  round \in Rounds /\ writer[round] \in Filling =>
    FromRound(queue, round) /\ Ascending(queue)
QueueBehindFile ==
  round \in Rounds /\ writer[round] = "recv" =>
    \A j \in 1..Len(queue) : Below(image, Place(queue[j][2]))

\* What the manager has yet to put comes behind all of it.
NextBehindAll ==
  /\ mgr = "get" => next # Stub
  /\ mgr \in InRound /\ writer[round] \in Filling => Below(queue, Place(next))
  /\ mgr \in InRound /\ writer[round] = "recv" => Below(image, Place(next))

Sorted == FileSorted /\ QueueSorted /\ QueueBehindFile /\ NextBehindAll
SInv == TypeOK /\ Started /\ QueueTracksWriter /\ Sorted

\* A packet that belongs behind all others may be appended.
LEMMA AppendSorted ==
  ASSUME NEW s \in Seq(PacketSet), NEW p \in PacketSet,
         Ascending(s), Below(s, Place(p[2]))
  PROVE  /\ Ascending(Append(s, p))
         /\ \A r : FromRound(s, r) /\ p[1] = r => FromRound(Append(s, p), r)
         /\ \A n \in Int : Below(s, n) /\ Place(p[2]) < n => Below(Append(s, p), n)
<1>1. /\ Len(Append(s, p)) = Len(s) + 1 /\ Len(s) \in Nat
      /\ \A i \in 1..Len(s) : Append(s, p)[i] = s[i]
      /\ Append(s, p)[Len(s) + 1] = p
  BY SeqFacts, SeqElements
<1> DEFINE t == Append(s, p)
<1> HIDE DEF t
<1>2. /\ Len(t) = Len(s) + 1 /\ Len(s) \in Nat
      /\ \A i \in 1..Len(s) : t[i] = s[i]
      /\ t[Len(s) + 1] = p
  BY <1>1 DEF t
<1>3. \A i \in 1..Len(t) : i \in 1..Len(s) \/ i = Len(s) + 1 BY <1>2
<1>4. Ascending(t)
  <2> SUFFICES ASSUME NEW i \in 1..Len(t), NEW j \in 1..Len(t), i < j
               PROVE  Place(t[i][2]) < Place(t[j][2])
    BY DEF Ascending
  <2>1. i \in 1..Len(s) /\ t[i] = s[i] BY <1>2
  <2>2. CASE j \in 1..Len(s) BY <1>2, <2>1, <2>2 DEF Ascending
  <2>3. CASE j = Len(s) + 1 BY <1>2, <2>1, <2>3 DEF Below
  <2> QED BY <1>3, <2>2, <2>3
<1>5. \A r : FromRound(s, r) /\ p[1] = r => FromRound(t, r)
  BY <1>2, <1>3 DEF FromRound
<1>6. \A n \in Int : Below(s, n) /\ Place(p[2]) < n => Below(t, n)
  BY <1>2, <1>3 DEF Below
<1> QED BY <1>4, <1>5, <1>6 DEF t

\* What is taken out belongs before all that is left.
LEMMA TailSorted ==
  ASSUME NEW s \in Seq(PacketSet), s # <<>>, Ascending(s)
  PROVE  /\ Ascending(Tail(s))
         /\ \A r : FromRound(s, r) => FromRound(Tail(s), r)
         /\ \A n : Below(s, n) => Below(Tail(s), n) /\ Place(Head(s)[2]) < n
         /\ \A j \in 1..Len(Tail(s)) :
              /\ Place(Head(s)[2]) < Place(Tail(s)[j][2])
              /\ j + 1 \in 1..Len(s) /\ Tail(s)[j] = s[j + 1]
<1> DEFINE t == Tail(s)
<1>1. /\ Len(t) = Len(s) - 1 /\ Len(s) \in Nat /\ Len(s) >= 1 /\ Head(s) = s[1]
      /\ \A i \in 1..Len(t) : t[i] = s[i + 1]
  BY SeqFacts, SeqElements
<1> HIDE DEF t
<1>2. \A i \in 1..Len(t) : i + 1 \in 1..Len(s) /\ 1 < i + 1 BY <1>1
<1>3. 1 \in 1..Len(s) BY <1>1
<1>4. Ascending(t)
  <2> SUFFICES ASSUME NEW i \in 1..Len(t), NEW j \in 1..Len(t), i < j
               PROVE  Place(t[i][2]) < Place(t[j][2])
    BY DEF Ascending
  <2>1. i + 1 \in 1..Len(s) /\ j + 1 \in 1..Len(s) /\ i + 1 < j + 1 BY <1>2
  <2> QED BY <1>1, <2>1 DEF Ascending
<1>5. \A r : FromRound(s, r) => FromRound(t, r) BY <1>1, <1>2 DEF FromRound
<1>6. \A n : Below(s, n) => Below(t, n) /\ Place(Head(s)[2]) < n
  BY <1>1, <1>2, <1>3 DEF Below
<1>7. \A j \in 1..Len(t) : Place(Head(s)[2]) < Place(t[j][2])
  BY <1>1, <1>2, <1>3 DEF Ascending
<1> QED BY <1>1, <1>2, <1>4, <1>5, <1>6, <1>7 DEF t

\* The empty sequence.
LEMMA EmptySorted ==
  Ascending(<<>>) /\ (\A r : FromRound(<<>>, r)) /\ (\A n : Below(<<>>, n))
BY DEF Ascending, FromRound, Below

\* The put of packet next, or its loss, leaves everything sorted.
LEMMA PutKeepsSorted ==
  ASSUME SInv, put_fota_packet
  PROVE  Sorted'
<1> USE DEF InRound
<1>1. /\ TypeOK /\ Sorted /\ mgr \in InRound /\ round \in Rounds
      /\ UNCHANGED <<round, writer, image>>
  BY DEF SInv, Started, put_fota_packet, PutDone, PutBlocks, PutLost
<1>2. FileSorted' BY <1>1 DEF Sorted, FileSorted
<1>3. next \in 0..Packets /\ queue \in Seq(PacketSet) /\ image \in Seq(PacketSet)
  BY <1>1 DEF TypeOK
<1>4. ASSUME AfterPut, mgr' \in InRound
      PROVE  mgr' = "get" /\ next' = next + 1 /\ next # Stub /\ next' # Stub
             /\ Place(next) < Place(next') /\ Place(next) \in Int /\ Place(next') \in Int
  BY <1>3, <1>4 DEF AfterPut, IsLast, Stub, Place
<1>5. \A s \in Seq(PacketSet) : \A i \in 1..Len(s) : Place(s[i][2]) \in Int
  BY DEF PacketSet, Place
<1>6. ASSUME NEW s \in Seq(PacketSet), Below(s, Place(next)), AfterPut, mgr' \in InRound
      PROVE  Below(s, Place(next'))
  <2>1. Place(next) < Place(next') /\ Place(next) \in Int /\ Place(next') \in Int
    BY <1>4, <1>6
  <2>2. \A i \in 1..Len(s) : Place(s[i][2]) \in Int /\ Place(s[i][2]) < Place(next)
    BY <1>5, <1>6 DEF Below
  <2> QED BY <2>1, <2>2 DEF Below
<1>7. CASE PutDone
  <2>1. <<round, next>> \in PacketSet BY <1>1, <1>3 DEF PacketSet
  <2>2. queue' = Append(queue, <<round, next>>) /\ AfterPut BY <1>7 DEF PutDone
  <2>3. ASSUME writer[round] \in Filling
        PROVE  /\ Ascending(queue') /\ FromRound(queue', round)
               /\ mgr' \in InRound => Below(queue', Place(next'))
    <3>1. Ascending(queue) /\ FromRound(queue, round) /\ Below(queue, Place(next))
      BY <1>1, <2>3 DEF Sorted, QueueSorted, NextBehindAll
    <3>2. <<round, next>>[1] = round /\ <<round, next>>[2] = next OBVIOUS
    <3> QED BY <1>3, <1>4, <1>6, <2>1, <2>2, <3>1, <3>2, AppendSorted
  <2>4. ASSUME writer[round] = "recv", NEW j \in 1..Len(queue')
        PROVE  Below(image, Place(queue'[j][2]))
    <3>1. /\ Len(queue') = Len(queue) + 1 /\ Len(queue) \in Nat
          /\ queue'[Len(queue) + 1] = <<round, next>>
          /\ \A i \in 1..Len(queue) : queue'[i] = queue[i]
      BY <1>3, <2>1, <2>2, SeqFacts, SeqElements
    <3>2. CASE j = Len(queue) + 1
      BY <1>1, <2>4, <3>1, <3>2 DEF Sorted, NextBehindAll
    <3>3. CASE j \in 1..Len(queue)
      BY <1>1, <2>4, <3>1, <3>3 DEF Sorted, QueueBehindFile
    <3> QED BY <3>1, <3>2, <3>3
  <2>5. mgr' \in InRound /\ writer[round] = "recv" => Below(image, Place(next'))
    BY <1>1, <1>3, <1>6, <2>2 DEF Sorted, NextBehindAll
  <2> QED BY <1>1, <1>2, <1>4, <2>2, <2>3, <2>4, <2>5
          DEF Sorted, QueueSorted, QueueBehindFile, NextBehindAll
<1>8. CASE PutLost
  <2>1. AfterPut /\ UNCHANGED queue BY <1>8 DEF PutLost
  <2>2. mgr' \in InRound => /\ writer[round] \in Filling => Below(queue, Place(next'))
                            /\ writer[round] = "recv" => Below(image, Place(next'))
    BY <1>1, <1>3, <1>6, <2>1 DEF Sorted, NextBehindAll
  <2> QED BY <1>1, <1>2, <1>4, <2>1, <2>2
          DEF Sorted, QueueSorted, QueueBehindFile, NextBehindAll
<1>9. CASE mgr = "put" /\ PutBlocks
  BY <1>1, <1>2, <1>9
     DEF PutBlocks, Sorted, QueueSorted, QueueBehindFile, NextBehindAll
<1> QED BY <1>7, <1>8, <1>9 DEF put_fota_packet

\* The packet the writer takes belongs behind the file and before the queue.
LEMMA RecvKeepsSorted ==
  ASSUME SInv, NEW r \in Rounds, WriterRecv(r)
  PROVE  Sorted'
<1>1. /\ TypeOK /\ Sorted /\ r = round /\ round \in Rounds
      /\ writer[round] = "recv" /\ writer'[round] \in {"recv", "validate"}
      /\ UNCHANGED <<mgr, round, next>>
      /\ queue # <<>> /\ queue' = Tail(queue) /\ image' = Append(image, Head(queue))
  <2>1. TypeOK /\ Sorted /\ QueueTracksWriter BY DEF SInv
  <2>2. /\ writer[r] = "recv" /\ UNCHANGED <<mgr, round, next>>
        /\ queue # <<>> /\ queue' = Tail(queue)
        /\ image' = Append(image, Head(queue))
    BY DEF WriterRecv, Receive, Step, mgrVars, ty_ota_write_flash
  <2>3. writer'[r] \in {"recv", "validate"}
    BY <2>1 DEF TypeOK, WriterRecv, Receive, Step
  <2>4. r = round BY <2>1, <2>2 DEF QueueTracksWriter, Holding
  <2> QED BY <2>1, <2>2, <2>3, <2>4
<1>2. queue \in Seq(PacketSet) /\ image \in Seq(PacketSet)
      /\ Head(queue) \in PacketSet
  BY <1>1, SeqFacts DEF TypeOK
<1>3. /\ FromRound(image, round) /\ Ascending(image)
      /\ FromRound(queue, round) /\ Ascending(queue)
      /\ \A j \in 1..Len(queue) : Below(image, Place(queue[j][2]))
  BY <1>1 DEF Sorted, FileSorted, QueueSorted, QueueBehindFile, Filling
<1>4. Len(queue) >= 1 /\ Len(queue) \in Nat /\ Head(queue) = queue[1]
  BY <1>1, <1>2, SeqFacts, SeqElements
<1>5. Below(image, Place(Head(queue)[2])) /\ Head(queue)[1] = round
  BY <1>3, <1>4 DEF FromRound
<1>6. FromRound(image', round) /\ Ascending(image')
  BY <1>1, <1>2, <1>3, <1>5, AppendSorted
<1>7. FromRound(queue', round) /\ Ascending(queue')
  BY <1>1, <1>2, <1>3, TailSorted
<1>8. \A p \in PacketSet : Place(p[2]) \in Int BY DEF PacketSet, Place
<1>9. Place(next) \in Int BY <1>1 DEF TypeOK, Place
<1>10. ASSUME NEW j \in 1..Len(queue') PROVE Below(image', Place(queue'[j][2]))
  <2>1. /\ Place(Head(queue)[2]) < Place(queue'[j][2])
        /\ j + 1 \in 1..Len(queue) /\ queue'[j] = queue[j + 1]
    BY <1>1, <1>2, <1>3, TailSorted
  <2>2. Below(image, Place(queue'[j][2])) BY <1>3, <2>1
  <2>3. Place(queue'[j][2]) \in Int BY <1>2, <1>8, <2>1
  <2> QED BY <1>1, <1>2, <1>3, <1>5, <2>1, <2>2, <2>3, AppendSorted
<1>11. ASSUME mgr \in InRound
       PROVE  Below(queue', Place(next)) /\ Below(image', Place(next))
  <2>1. Below(queue, Place(next)) /\ Below(image, Place(next))
    BY <1>1, <1>11 DEF Sorted, NextBehindAll, Filling
  <2>2. Below(queue', Place(next)) /\ Place(Head(queue)[2]) < Place(next)
    BY <1>1, <1>2, <1>3, <2>1, TailSorted
  <2> QED BY <1>1, <1>2, <1>3, <1>5, <1>9, <2>1, <2>2, AppendSorted
<1>12. mgr = "get" => next # Stub BY <1>1 DEF Sorted, NextBehindAll
<1> QED BY <1>1, <1>6, <1>7, <1>10, <1>11, <1>12
        DEF Sorted, FileSorted, QueueSorted, QueueBehindFile, NextBehindAll

\* Every step leaves everything sorted, as long as the queue can be created.
LEMMA SortedStep ==
  ASSUME "queue" \notin Faults
  PROVE  SInv /\ [Next]_vars => Sorted'
<1> SUFFICES ASSUME SInv, [Next]_vars PROVE Sorted' OBVIOUS
<1> USE DEF SInv, TypeOK, Sorted, FileSorted, QueueSorted, QueueBehindFile,
            NextBehindAll, InRound, Filling
<1>1. CASE fota_task_init
  <2>1. /\ queue' = <<>> /\ mgr' = "get" /\ next' = 1
        /\ round' \in Rounds => writer'[round'] = "created"
    BY <1>1 DEF fota_task_init, StartWriter, Rounds
  <2>2. \A j : j \notin 1..Len(queue') BY <2>1
  <2>3. Ascending(queue') /\ FromRound(queue', round') /\ Below(queue', Place(next'))
    BY <2>1, EmptySorted
  <2>4. round' \in Rounds BY <1>1 DEF fota_task_init, StartWriter, Rounds
  <2> QED BY <2>1, <2>3, <2>4 DEF Stub
<1>2. CASE _ty_mgr_module_fota \/ fota_task_initBusy \/ AwaitWriter \/ Finish
  BY <1>2 DEF _ty_mgr_module_fota, fota_task_initBusy, AwaitWriter, Finish
<1>3. CASE fota_task_initFails
  <2>1. queue' = <<>> /\ mgr' = "finish" /\ UNCHANGED <<round, writer, image>>
    BY <1>3 DEF fota_task_initFails
  <2>2. Ascending(queue') /\ FromRound(queue', round') BY <2>1, EmptySorted
  <2>3. ~\E j \in 1..Len(queue') : TRUE BY <2>1, EmptySeq
  <2> QED BY <2>1, <2>2, <2>3
<1>4. CASE http_get_fota
  <2>1. CASE GetPacket BY <2>1 DEF GetPacket, PutNext
  <2>2. CASE GetFailed
    <3>1. mgr = "get" /\ mgr' = "put" /\ next' = Stub
          /\ UNCHANGED <<round, writer, image, queue>>
      BY <2>2 DEF GetFailed, PutNext
    <3>2. Place(next) < Place(next') /\ Place(next) \in Int /\ Place(next') \in Int
      BY <3>1 DEF Place, Stub
    <3>3. \A s \in Seq(PacketSet) : Below(s, Place(next)) => Below(s, Place(next'))
      <4>1. \A s \in Seq(PacketSet) : \A i \in 1..Len(s) : Place(s[i][2]) \in Int
        BY DEF PacketSet, Place
      <4> QED BY <3>2, <4>1 DEF Below
    <3> QED BY <3>1, <3>3
  <2>3. CASE GetRetryAgain BY <2>3 DEF GetRetryAgain, GetAgain
  <2> QED BY <1>4, <2>1, <2>2, <2>3 DEF http_get_fota
<1>5. CASE put_fota_packet BY <1>5, PutKeepsSorted
<1>6. ASSUME NEW r \in Rounds, ty_fota_task(r) PROVE Sorted'
  <2>1. CASE WriterRecv(r) BY <2>1, RecvKeepsSorted
  <2> USE DEF Step, mgrVars, QueueTracksWriter, Holding, WriterLabels
  <2>2. CASE ty_ota_update_Init(r)
    <3>1. /\ r = round /\ image' = <<>> /\ writer'[round] \in {"recv", "delete"}
          /\ writer[round] = "open"
          /\ UNCHANGED <<mgr, round, next, queue>>
      BY <2>2 DEF ty_ota_update_Init
    <3>2. Ascending(image') /\ FromRound(image', round) /\ \A n : Below(image', n)
      BY <3>1, EmptySorted
    <3> QED BY <3>1, <3>2
  <2>3. CASE WriterStart(r) BY <2>3 DEF WriterStart
  <2>4. CASE ty_ota_check_FwValidate(r) BY <2>4 DEF ty_ota_check_FwValidate
  <2>5. CASE WriterDelete(r) BY <2>5 DEF WriterDelete
  <2>6. CASE WriterNull(r) BY <2>6 DEF WriterNull
  <2>7. CASE WriterExit(r) BY <2>7 DEF WriterExit
  <2> QED BY <1>6, <2>1, <2>2, <2>3, <2>4, <2>5, <2>6, <2>7 DEF ty_fota_task
<1>7. CASE Reboot
  <2>1. round' \notin Rounds /\ mgr' = "idle" BY <1>7 DEF Reboot, Rounds
  <2> QED BY <2>1
<1>8. CASE UNCHANGED vars BY <1>8 DEF vars, mgrVars
<1> QED BY <1>1, <1>2, <1>3, <1>4, <1>5, <1>6, <1>7, <1>8 DEF Next, Manager

\* As long as the packet queue can be created, what is handed to
\* MG_updateFirmware was put together from packets of one round, in order and
\* none twice, whichever allocations, writes and threads fail.
THEOREM OneSourceHolds ==
  ASSUME "queue" \notin Faults
  PROVE  Spec => []OneSource
<1>1. Init => SInv
  BY TypeInit DEF Init, SInv, Started, QueueTracksWriter, Holding, Sorted,
     FileSorted, QueueSorted, QueueBehindFile, NextBehindAll, InRound, Rounds
<1>2. SInv /\ [Next]_vars => SInv'
  BY TypeStep, TrackStep, SortedStep DEF SInv
<1>3. SInv => OneSource
  BY DEF SInv, QueueTracksWriter, Holding, Sorted, FileSorted, OneSource
<1> QED BY <1>1, <1>2, <1>3, PTL DEF Spec
=============================================================================
