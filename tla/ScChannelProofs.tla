-------------------------- MODULE ScChannelProofs ---------------------------
(***************************************************************************)
(* Proofs about ScChannel, for any set of callers and any number of        *)
(* commands.                                                               *)
(***************************************************************************)
EXTENDS ScChannel, TLAPS

USE ScAssumption

\* What the modem and Send do to the list of unanswered commands.
LEMMA WorkFacts ==
  ASSUME NEW w \in Seq(Commands)
  PROVE  /\ \A e \in Commands : Append(w, e) \in Seq(Commands)
         /\ w # <<>> => /\ Head(w) \in Commands
                        /\ Tail(w) \in Seq(Commands)
                        /\ <<Told(Head(w))>> \o Tail(w) \in Seq(Commands)
<1>1. \A e \in Commands : Append(w, e) \in Seq(Commands) OBVIOUS
<1>2. ASSUME w # <<>>
      PROVE  Head(w) \in Commands /\ Tail(w) \in Seq(Commands)
  BY <1>2
<1>3. ASSUME w # <<>>
      PROVE  <<Told(Head(w))>> \o Tail(w) \in Seq(Commands)
  <2>1. Told(Head(w)) \in Commands BY <1>2, <1>3 DEF Commands, Told
  <2>2. <<Told(Head(w))>> \in Seq(Commands) BY <2>1
  <2> QED BY <1>2, <1>3, <2>2
<1> QED BY <1>1, <1>2, <1>3

\* A sequence of no elements is the empty sequence.
LEMMA EmptySeq == ASSUME NEW S, NEW s \in Seq(S), Len(s) = 0 PROVE s = <<>>
OBVIOUS

\* The types hold at power-up and after a first open.
LEMMA TypeInit == Init => TypeOK
<1> SUFFICES ASSUME Init PROVE TypeOK OBVIOUS
<1>1. work \in Seq(Commands) BY DEF Init
<1>2. /\ mx \in 0..NMutex /\ sem \in {-1, 0, 1} /\ sends \in 0..MaxSends
      /\ cmd \in [Callers -> 0..MaxSends]
  BY DEF Init
<1>3. lock \in [Mutexes -> Callers \cup {Nobody}] /\ buf \in Answers
  BY DEF Init, Empty, Answers
<1>4. pc \in [Callers -> Labels] /\ op \in [Callers -> Ops]
      /\ chan \in [Callers -> {"null", "ok", "bad"}]
  BY DEF Init, Labels, Ops
<1> QED BY <1>1, <1>2, <1>3, <1>4 DEF TypeOK

\* Every step of a caller keeps the types.
LEMMA TypeCaller ==
  ASSUME TypeOK, NEW c \in Callers, Caller(c) PROVE TypeOK'
<1> USE DEF TypeOK, Goto, global, Labels, Mutexes
<1>1. CASE CheckMutex(c) BY <1>1 DEF CheckMutex
<1>2. CASE CreateMutex(c)
  <2>1. mx' \in 0..NMutex BY <1>2 DEF CreateMutex
  <2>2. pc' \in [Callers -> Labels] BY <1>2 DEF CreateMutex
  <2> QED BY <1>2, <2>1, <2>2 DEF CreateMutex
<1>3. CASE TryLock(c) BY <1>3 DEF TryLock
<1>4. CASE LockTimeout(c) BY <1>4 DEF LockTimeout
<1>5. CASE ParamErr(c) BY <1>5 DEF ParamErr, Release
<1>6. CASE MallocFails(c) BY <1>6 DEF MallocFails
<1>7. CASE NotPrepared(c) BY <1>7 DEF NotPrepared
<1>8. CASE Prepare(c)
  <2>1. Empty \in Answers BY DEF Empty, Answers
  <2> QED BY <1>8, <2>1 DEF Prepare
<1>9. CASE NotSent(c) BY <1>9 DEF NotSent
<1>10. CASE Send(c)
  <2>1. [of |-> sends + 1, op |-> op[c], told |-> FALSE] \in Commands
    BY <1>10 DEF Send, Commands
  <2>2. work' \in Seq(Commands) BY <1>10, <2>1, WorkFacts DEF Send
  <2>3. sends' \in 0..MaxSends /\ cmd' \in [Callers -> 0..MaxSends]
    BY <1>10 DEF Send
  <2>4. pc' \in [Callers -> Labels] BY <1>10 DEF Send
  <2> QED BY <1>10, <2>2, <2>3, <2>4 DEF Send
<1>11. CASE MakeSema(c) BY <1>11 DEF MakeSema
<1>12. CASE Acquire(c) BY <1>12 DEF Acquire
<1>13. CASE WaitTimeout(c) BY <1>13 DEF WaitTimeout
<1>14. CASE Read(c) BY <1>14 DEF Read
<1>15. CASE Unlock(c) BY <1>15 DEF Unlock, Release
<1> QED BY <1>1, <1>2, <1>3, <1>4, <1>5, <1>6, <1>7, <1>8, <1>9, <1>10, <1>11,
           <1>12, <1>13, <1>14, <1>15 DEF Caller

\* So does every line of the modem.
LEMMA TypeModem == ASSUME TypeOK, prvVirtAtRespCallback PROVE TypeOK'
<1>1. work # <<>>
  BY DEF prvVirtAtRespCallback, DataLine, MergedLine, OkLine, ErrorLine
<1>2. Head(work) \in Commands /\ Tail(work) \in Seq(Commands)
      /\ <<Told(Head(work))>> \o Tail(work) \in Seq(Commands)
  BY <1>1, WorkFacts DEF TypeOK
<1>3. Answer("data") \in Answers /\ Answer("error") \in Answers
  BY <1>2 DEF Answer, Answers, Commands
<1>4. work' \in Seq(Commands)
  BY <1>2 DEF prvVirtAtRespCallback, DataLine, MergedLine, OkLine, ErrorLine
<1>5. buf' \in Answers /\ sem' \in {-1, 0, 1}
  BY <1>3 DEF TypeOK, prvVirtAtRespCallback, DataLine, MergedLine, OkLine,
              ErrorLine, Give
<1>6. UNCHANGED <<mx, lock, sends, pc, op, cmd, chan>>
  BY DEF prvVirtAtRespCallback, DataLine, MergedLine, OkLine, ErrorLine
<1> QED BY <1>4, <1>5, <1>6 DEF TypeOK

\* Every step keeps the types.
LEMMA TypeStep == TypeOK /\ [Next]_vars => TypeOK'
<1> SUFFICES ASSUME TypeOK, [Next]_vars PROVE TypeOK' OBVIOUS
<1>1. CASE \E c \in Callers : Caller(c) BY <1>1, TypeCaller
<1>2. ASSUME NEW c \in Callers, NEW o \in Ops, Call(c, o) PROVE TypeOK'
  BY <1>2 DEF TypeOK, Call, Goto, global, Labels
<1>3. CASE prvVirtAtRespCallback BY <1>3, TypeModem
<1>4. CASE UNCHANGED vars BY <1>4 DEF TypeOK, vars, global
<1> QED BY <1>1, <1>2, <1>3, <1>4 DEF Next

\* Types and counters of the channel stay in range, the semaphore's binary
\* count included, from power-up on and whatever fails.
THEOREM TypeCorrect == Spec => []TypeOK
  BY TypeInit, TypeStep, PTL DEF Spec
-----------------------------------------------------------------------------
\* Once the mutex exists there is only one that is used, and a caller between
\* taking it and giving it back holds it.
Held ==
  /\ mx = 1 /\ \A m \in Mutexes : m # 1 => lock[m] = Nobody
  /\ \A c \in Callers : /\ pc[c] # "create"
                        /\ pc[c] \in Critical => lock[1] = c

\* Every step keeps the mutex with the caller that is inside.
LEMMA HeldStep == TypeOK /\ Held /\ [Next]_vars => Held'
<1> SUFFICES ASSUME TypeOK, Held, [Next]_vars PROVE Held' OBVIOUS
<1> USE DEF TypeOK, Held, Goto, global, Mutexes, Critical
<1>1. ASSUME NEW c \in Callers, Caller(c) PROVE Held'
  <2>1. CASE CheckMutex(c) BY <2>1 DEF CheckMutex
  <2>2. CASE CreateMutex(c) BY <2>2 DEF CreateMutex
  <2>3. CASE TryLock(c)
    <3>1. \A d \in Callers : pc[d] \notin Critical BY <2>3 DEF TryLock
    <3> QED BY <2>3, <3>1 DEF TryLock
  <2>4. CASE LockTimeout(c) BY <2>4 DEF LockTimeout
  <2>5. CASE ParamErr(c) BY <2>5 DEF ParamErr, Release
  <2>6. CASE MallocFails(c) BY <2>6 DEF MallocFails
  <2>7. CASE NotPrepared(c) BY <2>7 DEF NotPrepared
  <2>8. CASE Prepare(c) BY <2>8 DEF Prepare
  <2>9. CASE NotSent(c) BY <2>9 DEF NotSent
  <2>10. CASE Send(c) BY <2>10 DEF Send
  <2>11. CASE MakeSema(c) BY <2>11 DEF MakeSema
  <2>12. CASE Acquire(c) BY <2>12 DEF Acquire
  <2>13. CASE WaitTimeout(c) BY <2>13 DEF WaitTimeout
  <2>14. CASE Read(c) BY <2>14 DEF Read
  <2>15. CASE Unlock(c) BY <2>15 DEF Unlock, Release
  <2> QED BY <1>1, <2>1, <2>2, <2>3, <2>4, <2>5, <2>6, <2>7, <2>8, <2>9, <2>10,
             <2>11, <2>12, <2>13, <2>14, <2>15 DEF Caller
<1>2. ASSUME NEW c \in Callers, NEW o \in Ops, Call(c, o) PROVE Held'
  BY <1>2 DEF Call
<1>3. CASE prvVirtAtRespCallback
  BY <1>3 DEF prvVirtAtRespCallback, DataLine, MergedLine, OkLine, ErrorLine
<1>4. CASE UNCHANGED vars BY <1>4 DEF vars
<1> QED BY <1>1, <1>2, <1>3, <1>4 DEF Next

\* A caller that holds the mutex is alone.
LEMMA HeldExcludes == TypeOK /\ Held => OneAtATime
  BY DEF Held, OneAtATime

\* Once a first open has created the mutex, no two callers are ever between
\* taking and giving it, whatever times out, gets lost or fails: the functions
\* of slm320_sc_adpt.c go on only with a lock they got.
THEOREM OneAtATimeHolds ==
  ASSUME Created PROVE Spec => []OneAtATime
<1>1. Init => Held BY DEF Init, Held, Critical
<1> QED BY <1>1, TypeInit, TypeStep, HeldStep, HeldExcludes, PTL DEF Spec

\* A caller that leaves the functions has given the mutex back, or it returns
\* after a failed lpa_malloc.
GivenBack ==
  \A c \in Callers :
    PastMalloc(c) /\ pc'[c] \notin Critical => \A m \in Mutexes : lock'[m] # c

\* Once a first open has created the mutex, a call that got its mutex and its
\* memory never returns with the mutex, whatever fails and whoever left with it
\* before: the safety half of LockFreed.
THEOREM GivenBackHolds ==
  ASSUME Created PROVE Spec => [][GivenBack]_vars
<1>1. Init => TypeOK /\ Held BY TypeInit DEF Init, Held, Critical
<1>2. TypeOK /\ Held /\ [Next]_vars => [GivenBack]_vars
  <2> SUFFICES ASSUME TypeOK, Held, Next, NEW c \in Callers, PastMalloc(c),
                      pc'[c] \notin Critical
               PROVE  \A m \in Mutexes : lock'[m] # c
    BY DEF GivenBack
  <2>1. /\ pc[c] \in Critical /\ lock[1] = c /\ mx = 1
        /\ \A m \in Mutexes : lock[m] = c => m = 1
    BY ScAssumption DEF PastMalloc, Held, TypeOK, Mutexes
  <2>2. ASSUME NEW d \in Callers, Caller(d) PROVE ParamErr(c) \/ Unlock(c)
    <3>1. d = c
      BY <2>1, <2>2 DEF TypeOK, Caller, CheckMutex, CreateMutex, TryLock,
         LockTimeout, ParamErr, MallocFails, NotPrepared, Prepare, NotSent, Send,
         MakeSema, Acquire, WaitTimeout, Read, Unlock, Goto
    <3> QED
      BY <2>1, <2>2, <3>1 DEF TypeOK, PastMalloc, Critical, Caller, CheckMutex,
         CreateMutex, TryLock, LockTimeout, MallocFails, NotPrepared, Prepare,
         NotSent, Send, MakeSema, Acquire, WaitTimeout, Read, Goto
  <2>3. ~ \E d \in Callers, o \in Ops : Call(d, o)
    BY <2>1 DEF TypeOK, Call, Goto, Critical
  <2>4. ~ prvVirtAtRespCallback
    BY <2>1 DEF prvVirtAtRespCallback, DataLine, MergedLine, OkLine, ErrorLine
  <2>5. ParamErr(c) \/ Unlock(c) BY <2>2, <2>3, <2>4 DEF Next
  <2>6. lock' = [lock EXCEPT ![1] = Nobody]
    BY <2>1, <2>5 DEF ParamErr, Unlock, Release
  <2> QED BY <2>1, <2>6, ScAssumption DEF TypeOK, Mutexes
<1> QED BY <1>1, <1>2, TypeStep, HeldStep, PTL DEF Spec
-----------------------------------------------------------------------------
\* tmp_buf holds the answer to c's command.
Mine(c) == op[c] # "close" => buf.of = cmd[c]

\* The modem is at c's command, the only one, and has not finished it.
Pending(c) ==
  /\ sem = 0
  /\ Len(work) = 1 /\ work[1].of = cmd[c] /\ work[1].op = op[c]
  /\ work[1].told => Mine(c)

\* The answer to c's command is complete, with its semaphore given or lost.
Answered(c) == work = <<>> /\ Mine(c)

\* When no answer is later than the time limit, nothing is outstanding but the
\* command of the caller that waits.
InStep ==
  /\ sem # -1
  /\ (\A c \in Callers : pc[c] \notin {"sema", "wait"}) => work = <<>> /\ sem = 0
  /\ \A c \in Callers :
       /\ pc[c] \in {"sema", "wait"} => Pending(c) \/ Answered(c)
       /\ pc[c] = "read" => Mine(c)

\* A step of one caller leaves what the others have to expect alone.
LEMMA InStepCaller ==
  ASSUME "slow" \notin Faults, TypeOK, OneAtATime, InStep,
         NEW c \in Callers, Caller(c), Held
  PROVE  InStep'
<1> USE DEF TypeOK, OneAtATime, InStep, Mine, Answered, Goto, global, Critical
<1>1. CASE CheckMutex(c) BY <1>1 DEF CheckMutex, Pending
<1>2. CASE CreateMutex(c) BY <1>2 DEF CreateMutex, Held
<1>3. CASE TryLock(c) BY <1>3 DEF TryLock, Pending
<1>4. CASE LockTimeout(c) BY <1>4 DEF LockTimeout, Pending
<1>5. CASE ParamErr(c) BY <1>5 DEF ParamErr, Pending
<1>6. CASE MallocFails(c) BY <1>6 DEF MallocFails, Pending
<1>7. CASE NotPrepared(c) BY <1>7 DEF NotPrepared, Pending
<1>8. CASE Prepare(c) BY <1>8 DEF Prepare
<1>9. CASE NotSent(c) BY <1>9 DEF NotSent, Pending
<1>10. CASE Send(c)
  <2>1. work = <<>> /\ sem = 0 BY <1>10 DEF Send
  <2>2. work' = <<[of |-> sends + 1, op |-> op[c], told |-> FALSE]>>
    BY <1>10, <2>1 DEF Send
  <2>3. Pending(c)' BY <1>10, <2>1, <2>2 DEF Send, Pending
  <2>4. \A d \in Callers : d # c => pc'[d] \notin {"sema", "wait", "read"}
    BY <1>10 DEF Send
  <2>5. pc'[c] \in {"sema", "wait"} BY <1>10 DEF Send
  <2> QED BY <1>10, <2>1, <2>3, <2>4, <2>5 DEF Send
<1>11. CASE MakeSema(c) BY <1>11 DEF MakeSema, Pending
<1>12. CASE Acquire(c) BY <1>12 DEF Acquire, Pending
<1>13. CASE WaitTimeout(c) BY <1>13 DEF WaitTimeout, Pending
<1>14. CASE Read(c) BY <1>14 DEF Read
<1>15. CASE Unlock(c) BY <1>15 DEF Unlock, Pending
<1> QED BY <1>1, <1>2, <1>3, <1>4, <1>5, <1>6, <1>7, <1>8, <1>9, <1>10, <1>11,
           <1>12, <1>13, <1>14, <1>15 DEF Caller

\* A line of the modem is for the caller that waits.
LEMMA InStepModem ==
  ASSUME TypeOK, OneAtATime, InStep, prvVirtAtRespCallback
  PROVE  InStep'
<1>1. work # <<>>
  BY DEF prvVirtAtRespCallback, DataLine, MergedLine, OkLine, ErrorLine
<1>2. PICK c \in Callers : pc[c] \in {"sema", "wait"} BY <1>1 DEF InStep
<1>3. Pending(c) BY <1>1, <1>2 DEF InStep, Answered
<1>4. Head(work) = work[1] /\ Tail(work) = <<>>
  <2>1. work \in Seq(Commands) /\ Len(work) = 1 BY <1>3 DEF TypeOK, Pending
  <2>2. Tail(work) \in Seq(Commands) /\ Len(Tail(work)) = 0 BY <2>1
  <2>3. Tail(work) = <<>> BY ONLY <2>2, EmptySeq
  <2>4. Head(work) = work[1] BY <2>1
  <2> QED BY <2>3, <2>4
<1>5. \A d \in Callers : d # c => pc[d] \notin {"sema", "wait", "read"}
  BY <1>2 DEF OneAtATime, Critical
<1>6. UNCHANGED <<pc, op, cmd>>
  BY DEF prvVirtAtRespCallback, DataLine, MergedLine, OkLine, ErrorLine
<1>7. sem' # -1 /\ (Pending(c)' \/ Answered(c)')
  <2>1. CASE DataLine
    <3>1. work' = <<Told(work[1])>> \o <<>> BY <2>1, <1>4 DEF DataLine
    <3>2. Len(work') = 1 /\ work'[1] = Told(work[1]) BY <3>1
    <3>3. buf'.of = cmd[c] BY <2>1, <1>3, <1>4 DEF DataLine, Answer, Pending
    <3> QED BY <2>1, <1>3, <1>6, <3>2, <3>3 DEF DataLine, Pending, Told, Mine
  <2>2. CASE MergedLine
    BY <2>2, <1>3, <1>4, <1>6 DEF MergedLine, Answer, Pending, Answered, Mine
  <2>3. CASE OkLine
    BY <2>3, <1>3, <1>4, <1>6 DEF OkLine, Pending, Answered, Mine, Give
  <2>4. CASE ErrorLine
    BY <2>4, <1>3, <1>4, <1>6 DEF ErrorLine, Answer, Pending, Answered, Mine, Give
  <2> QED BY <2>1, <2>2, <2>3, <2>4 DEF prvVirtAtRespCallback
<1> QED BY <1>2, <1>5, <1>6, <1>7 DEF InStep

\* Every step keeps callers and modem in step.
LEMMA InStepStep ==
  ASSUME "slow" \notin Faults
  PROVE  TypeOK /\ Held /\ InStep /\ [Next]_vars => InStep'
<1> SUFFICES ASSUME TypeOK, Held, InStep, [Next]_vars PROVE InStep' OBVIOUS
<1>1. OneAtATime BY HeldExcludes
<1>2. CASE \E c \in Callers : Caller(c) BY <1>1, <1>2, InStepCaller
<1>3. ASSUME NEW c \in Callers, NEW o \in Ops, Call(c, o) PROVE InStep'
  BY <1>3 DEF TypeOK, InStep, Mine, Answered, Pending, Call, Goto, global
<1>4. CASE prvVirtAtRespCallback BY <1>1, <1>4, InStepModem
<1>5. CASE UNCHANGED vars
  BY <1>5 DEF InStep, Mine, Answered, Pending, vars, global
<1> QED BY <1>2, <1>3, <1>4, <1>5 DEF Next

\* When no answer takes longer than the code waits, a caller always parses the
\* answer to its own command, although a swallowed OK makes waits time out,
\* allocations fail and tmp_buf is not cleared between commands.
THEOREM OwnAnswerHolds ==
  ASSUME Created, "slow" \notin Faults PROVE Spec => []OwnAnswer
<1>1. Init => Held /\ InStep
  BY DEF Init, Held, InStep, Critical
<1>2. InStep => OwnAnswer BY DEF InStep, OwnAnswer, Mine
<1> QED BY <1>1, <1>2, TypeInit, TypeStep, HeldStep, InStepStep, PTL DEF Spec
=============================================================================
