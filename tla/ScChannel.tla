----------------------------- MODULE ScChannel ------------------------------
(***************************************************************************)
(* The APDU channel of ty_ssnb/plat/slm320/slm320_sc_adpt.c.  Several      *)
(* tasks open, use and close logical channels of the card by AT commands   *)
(* to the modem.  A mutex lets one command through at a time; the modem's  *)
(* answer arrives line by line in the callback of the AT pipe, which       *)
(* stores it in tmp_buf and releases a binary semaphore at OK or ERROR.    *)
(*                                                                         *)
(* A command is a number, and an answer the number of its command.  Of the *)
(* modem it is assumed that it answers commands one by one, in order, with *)
(* the data line (if the command has one) before OK, or with ERROR alone.  *)
(***************************************************************************)
EXTENDS Integers, Sequences

CONSTANTS
  Callers,   \* the tasks that use the card
  Nobody,    \* the holder of a free mutex
  NMutex,    \* bound on the mutexes that exist
  MaxSends,  \* bound on the commands sent
  Created,   \* FALSE at power-up, TRUE once a first open is through
  Faults     \* "slow": an answer may be later than the time limit;
             \* "merge": a data line and its OK may be read at once;
             \* "mem": an allocation may fail

ASSUME ScAssumption ==
  /\ Nobody \notin Callers
  /\ NMutex \in Nat \ {0}
  /\ MaxSends \in Nat
  /\ Created \in BOOLEAN
  /\ Faults \subseteq {"slow", "merge", "mem"}

VARIABLES
  mx,     \* esimmutex: 0 for NULL, else a mutex
  lock,   \* who holds each mutex
  sem,    \* t_sema: -1 for NULL, else its count
  buf,    \* tmp_buf
  work,   \* the commands the modem has not finished answering
  sends,  \* commands sent so far
  pc,     \* where each caller is
  op,     \* the function it is in
  cmd,    \* the command it sent
  chan    \* its handle: "null", "ok", or "bad" (a channel beyond 1 to 3)

global == <<mx, lock, sem, buf, work, sends>>
vars == <<global, pc, op, cmd, chan>>

\* Ty_ScTransimtAutoFetch ("fetch") takes the steps of Ty_ScTransimt; it
\* differs in how it returns the data, and in a malloc before the lock.
Ops == {"open", "transmit", "fetch", "close"}
Labels == {"idle", "check", "create", "lock", "alloc", "send", "sema", "wait",
           "read", "unlock"}
Empty == [kind |-> "empty", of |-> 0]
Mutexes == 0..NMutex  \* 0, the NULL pointer, is never locked

Init ==
  /\ mx = IF Created THEN 1 ELSE 0
  /\ lock = [m \in Mutexes |-> Nobody]
  /\ sem = IF Created THEN 0 ELSE -1
  /\ buf = Empty /\ work = <<>> /\ sends = 0
  /\ pc = [c \in Callers |-> "idle"]
  /\ op = [c \in Callers |-> "open"]
  /\ cmd = [c \in Callers |-> 0]
  /\ chan = [c \in Callers |-> "null"]
-----------------------------------------------------------------------------
(* The callers.                                                            *)

Goto(c, from, to) ==
  pc[c] = from /\ pc' = [pc EXCEPT ![c] = to]

\* A task opens a channel when it has none.  It uses or closes what the open
\* returned, NULL included: the callers do not look.
Call(c, o) ==
  /\ IF o = "open" THEN chan[c] = "null" /\ Goto(c, "idle", "check")
                   ELSE mx # 0 /\ Goto(c, "idle", "lock")
  /\ op' = [op EXCEPT ![c] = o]
  /\ UNCHANGED <<global, cmd, chan>>

\* if(esimmutex == NULL) esimmutex = MG_osiMutexCreate(): two steps.  The
\* pointer is overwritten by what the creation returns, NULL included; a
\* mutex that nobody holds stands for a new one.
CheckMutex(c) ==
  /\ Goto(c, "check", IF mx = 0 THEN "create" ELSE "lock")
  /\ UNCHANGED <<global, op, cmd, chan>>

CreateMutex(c) ==
  /\ \/ /\ Goto(c, "create", "lock")
        /\ mx' \in {m \in Mutexes \ {0} : lock[m] = Nobody}
     \/ "mem" \in Faults /\ Goto(c, "create", "idle") /\ mx' = 0
  /\ UNCHANGED <<lock, sem, buf, work, sends, op, cmd, chan>>

\* Variant: the result of MG_osiMutexTryLock is not looked at.
TryLockUnchecked(c) ==
  /\ Goto(c, "lock", "alloc")
  /\ lock' = [lock EXCEPT ![mx] = c]
  /\ UNCHANGED <<mx, sem, buf, work, sends, op, cmd, chan>>

TryLock(c) ==
  /\ Goto(c, "lock", "alloc")
  /\ mx # 0 /\ lock[mx] = Nobody /\ lock' = [lock EXCEPT ![mx] = c]
  /\ UNCHANGED <<mx, sem, buf, work, sends, op, cmd, chan>>

\* The 30 seconds pass while the mutex is held; a NULL mutex is refused.
LockTimeout(c) ==
  /\ Goto(c, "lock", "idle")
  /\ mx = 0 \/ lock[mx] # Nobody
  /\ UNCHANGED <<global, op, cmd, chan>>

HandleOK(c) == op[c] = "open" \/ chan[c] = "ok"

\* MG_osiMutexUnlock of whatever mutex esimmutex points to now; an RTOS mutex
\* is released only by its holder, and cannot be taken twice.
Release(c) ==
  lock' = [lock EXCEPT ![mx] = IF @ = c THEN Nobody ELSE @]

\* Variant: the mutex stays locked.
ParamErrLocked(c) ==
  /\ ~HandleOK(c)
  /\ Goto(c, "alloc", "idle")
  /\ UNCHANGED <<global, op, cmd, chan>>

\* A handle that is not one of the three channels.
ParamErr(c) ==
  /\ ~HandleOK(c)
  /\ Goto(c, "alloc", "idle")
  /\ Release(c)
  /\ UNCHANGED <<mx, sem, buf, work, sends, op, cmd, chan>>

\* The function returns in the middle of its do-while, with the mutex.
MallocFails(c) ==
  /\ "mem" \in Faults /\ HandleOK(c) /\ op[c] # "close"
  /\ Goto(c, "alloc", "idle")
  /\ UNCHANGED <<global, op, cmd, chan>>

\* No pipe, no data, or data too long for a command.
NotPrepared(c) ==
  /\ HandleOK(c) /\ op[c] # "close"
  /\ Goto(c, "alloc", "unlock")
  /\ UNCHANGED <<global, op, cmd, chan>>

\* Only an open clears tmp_buf.
Prepare(c) ==
  /\ HandleOK(c)
  /\ Goto(c, "alloc", "send")
  /\ buf' = IF op[c] = "open" THEN Empty ELSE buf
  /\ UNCHANGED <<mx, lock, sem, work, sends, op, cmd, chan>>

\* MG_atDeviceVirtSend fails.
NotSent(c) ==
  /\ Goto(c, "send", "unlock")
  /\ UNCHANGED <<global, op, cmd, chan>>

Send(c) ==
  /\ sends < MaxSends /\ sends' = sends + 1
  /\ Goto(c, "send", IF op[c] = "open" THEN "sema" ELSE "wait")
  /\ cmd' = [cmd EXCEPT ![c] = sends + 1]
  /\ work' = Append(work, [of |-> sends + 1, op |-> op[c], told |-> FALSE])
  /\ UNCHANGED <<mx, lock, sem, buf, op, chan>>

\* An open creates the semaphore if need be, after it has sent the command.
MakeSema(c) ==
  /\ \/ Goto(c, "sema", "wait") /\ sem' = IF sem = -1 THEN 0 ELSE sem
     \/ "mem" \in Faults /\ sem = -1 /\ Goto(c, "sema", "unlock") /\ sem' = sem
  /\ UNCHANGED <<mx, lock, buf, work, sends, op, cmd, chan>>

Acquire(c) ==
  /\ Goto(c, "wait", "read")
  /\ sem = 1 /\ sem' = 0
  /\ UNCHANGED <<mx, lock, buf, work, sends, op, cmd, chan>>

\* Variant: the semaphore is waited for without a time limit.
WaitForever(c) == FALSE /\ Goto(c, "wait", "unlock") /\ UNCHANGED <<global, op, cmd, chan>>

\* The 20 seconds pass.
WaitTimeout(c) ==
  /\ Goto(c, "wait", "unlock")
  /\ sem = 0 /\ ("slow" \in Faults \/ work = <<>>)
  /\ UNCHANGED <<global, op, cmd, chan>>

\* The answer is parsed.  An open takes the channel number from it, whatever
\* the number is, if it can allocate the handle.
Read(c) ==
  /\ Goto(c, "read", "unlock")
  /\ \/ /\ op[c] = "open" /\ buf.kind = "data"
        /\ \E h \in {"ok", "bad"} : chan' = [chan EXCEPT ![c] = h]
     \/ /\ op[c] # "open" \/ buf.kind # "data" \/ "mem" \in Faults
        /\ UNCHANGED chan
  /\ UNCHANGED <<global, op, cmd>>

\* A close frees the handle whatever came of it.
Unlock(c) ==
  /\ Goto(c, "unlock", "idle")
  /\ Release(c)
  /\ chan' = IF op[c] = "close" THEN [chan EXCEPT ![c] = "null"] ELSE chan
  /\ UNCHANGED <<mx, sem, buf, work, sends, op, cmd>>

Caller(c) ==
  \/ CheckMutex(c) \/ CreateMutex(c) \/ TryLock(c) \/ LockTimeout(c)
  \/ ParamErr(c) \/ MallocFails(c) \/ NotPrepared(c) \/ Prepare(c)
  \/ NotSent(c) \/ Send(c) \/ MakeSema(c) \/ Acquire(c) \/ WaitTimeout(c) \/ Read(c) \/ Unlock(c)
-----------------------------------------------------------------------------
(* The modem, and prvVirtAtRespCallback for each line it writes.           *)

Answer(kind) == [kind |-> kind, of |-> Head(work).of]
Told(k) == [of |-> k.of, op |-> k.op, told |-> TRUE]

\* Variant: the semaphore counts (its first parameter is not 1).
GiveCounts == sem' = IF sem = -1 THEN -1 ELSE sem + 1

\* A release of no semaphore does nothing.
Give == sem' = IF sem = -1 THEN -1 ELSE 1

\* "+CCHO:" or "+CGLA:".
DataLine ==
  /\ work # <<>> /\ ~Head(work).told /\ Head(work).op # "close"
  /\ buf' = Answer("data")
  /\ work' = <<Told(Head(work))>> \o Tail(work)
  /\ UNCHANGED <<mx, lock, sem, sends, pc, op, cmd, chan>>

\* Both in one read: the branch for data lines is taken, and OK is not seen.
MergedLine ==
  /\ "merge" \in Faults
  /\ work # <<>> /\ ~Head(work).told /\ Head(work).op # "close"
  /\ buf' = Answer("data")
  /\ work' = Tail(work)
  /\ UNCHANGED <<mx, lock, sem, sends, pc, op, cmd, chan>>

\* The callback takes any OK for the end of the answer; the modem is trusted to
\* write the data of an open or a transmission before it.
OkLine ==
  /\ work # <<>> /\ (Head(work).told \/ Head(work).op = "close")
  /\ Give
  /\ work' = Tail(work)
  /\ UNCHANGED <<mx, lock, buf, sends, pc, op, cmd, chan>>

\* Variant: ERROR is handled like OK.
ErrorLineNotKept ==
  /\ work # <<>> /\ ~Head(work).told
  /\ Give
  /\ work' = Tail(work)
  /\ UNCHANGED <<mx, lock, buf, sends, pc, op, cmd, chan>>

ErrorLine ==
  /\ work # <<>> /\ ~Head(work).told
  /\ buf' = Answer("error")
  /\ Give
  /\ work' = Tail(work)
  /\ UNCHANGED <<mx, lock, sends, pc, op, cmd, chan>>

prvVirtAtRespCallback == DataLine \/ MergedLine \/ OkLine \/ ErrorLine

Next ==
  \/ \E c \in Callers : Caller(c) \/ \E o \in Ops : Call(c, o)
  \/ prvVirtAtRespCallback

\* The tasks are scheduled, and the modem answers.
Fairness ==
  /\ \A c \in Callers : WF_vars(Caller(c))
  /\ WF_vars(prvVirtAtRespCallback)

Spec == Init /\ [][Next]_vars
FairSpec == Spec /\ Fairness
-----------------------------------------------------------------------------
Answers == [kind : {"empty", "data", "error"}, of : 0..MaxSends]
Commands == [of : 0..MaxSends, op : Ops, told : BOOLEAN]

\* Every variable has its type; the semaphore is binary.
TypeOK ==
  /\ mx \in 0..NMutex
  /\ lock \in [Mutexes -> Callers \cup {Nobody}]
  /\ sem \in {-1, 0, 1}
  /\ buf \in Answers
  /\ work \in Seq(Commands)
  /\ sends \in 0..MaxSends
  /\ pc \in [Callers -> Labels]
  /\ op \in [Callers -> Ops]
  /\ cmd \in [Callers -> 0..MaxSends]
  /\ chan \in [Callers -> {"null", "ok", "bad"}]

Critical == {"alloc", "send", "sema", "wait", "read", "unlock"}

\* The mutex does its work once it exists: no two callers are between taking
\* and giving it, whatever times out and whoever returned without giving it
\* back.
OneAtATime ==
  \A c, d \in Callers : pc[c] \in Critical /\ pc[d] \in Critical => c = d

\* A caller that waits "until the AT response is complete" and goes on to
\* parse tmp_buf finds there the answer to the command it sent, not one that
\* was left over, as long as no answer is later than the 20 seconds it waits.  A
\* close is left out: the modem answers it without data, and the code looks for
\* ERROR in what an earlier command may have left in tmp_buf.
OwnAnswer ==
  \A c \in Callers : pc[c] = "read" /\ op[c] # "close" => buf.of = cmd[c]

\* Every call returns: a caller gets the mutex or gives up, and a wait for an
\* answer that was swallowed, or whose release was lost, ends.
CallReturns == \A c \in Callers : pc[c] # "idle" ~> pc[c] = "idle"

\* The caller has the mutex and no allocation before it that could fail.
PastMalloc(c) ==
  /\ pc[c] \in Critical
  /\ pc[c] = "alloc" => ~HandleOK(c) \/ op[c] = "close"

\* A call that got its mutex and its memory gives the mutex back, on every path
\* and timeout, also after calls that left with it for want of memory (the
\* returns after a failed lpa_malloc are the only ones that keep it).
LockFreed ==
  \A c \in Callers : PastMalloc(c) ~> \A m \in Mutexes : lock[m] # c
=============================================================================
