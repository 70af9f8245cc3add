--------------------------- MODULE NvStoreProofs ----------------------------
(***************************************************************************)
(* Proofs about NvStore for every number modulus, retry count and version  *)
(* bound.  Type correctness holds for any set of tasks; the recovery       *)
(* properties, and that a record is stored when its save has returned, are *)
(* proved for one saving task, which is what they need.                    *)
(***************************************************************************)
EXTENDS NvStore, TLAPS

Saving == {"creat", "write", "readback", "verify"}

\* One task saves at a time.
OneSaver == \A s, t \in Tasks : s = t

\* Every complete image in a file checks out: it was stamped before it was
\* written and nobody changed the record in between.
ImagesCheckOut == \A a \in Areas : file[a].kind = "img" => file[a].crc

\* Both files and the RAM record stay between the last durable version and
\* the newest one.
Bounded ==
  /\ durable <= ver
  /\ \A a \in Areas : Valid(file[a]) => durable <= file[a].data /\ file[a].data <= ver
  /\ ram.data <= ver
  /\ mode # "off" => durable <= ram.data /\ (Valid(file["main"]) => file["main"].data <= ram.data)
  /\ durable > 0 => file["main"].kind # "absent"

\* While read_user_nv_flash runs no task does, and what it writes is the
\* image of the other, good file.
Booting ==
  /\ mode # "run" => \A t \in Tasks : pc[t] = "idle"
  /\ mode = "off" => ram = Factory
  /\ mode \in {"rebuild", "rebuild_write"} =>
       /\ ram.crc
       /\ rebuilt = "main" => Valid(file["bak"]) /\ file["bak"].data = ram.data
       /\ rebuilt = "bak" => Valid(file["main"]) /\ file["main"].data = ram.data

\* The saver compares what it has just read, writes a stamped record, and
\* turns to the main file only with the RAM record safe in the backup.
SaverAt ==
  \A t \in Tasks :
    /\ pc[t] \in Saving => ram.crc
    /\ pc[t] \in {"compare", "verify"} => scratch = file[area[t]]
    /\ pc[t] \in {"idle", "entry"} => area[t] = "bak"
    /\ area[t] = "main" => Valid(file["bak"]) /\ file["bak"].data = ram.data

\* The main file is bad only while it is being rewritten from a good backup,
\* or between a power loss then and the rebuild at the next boot.
MainGood ==
  durable > 0 /\ ~mainErr =>
    \/ Valid(file["main"])
    \/ /\ Valid(file["bak"])
       /\ \/ mode = "off"
          \/ mode \in {"rebuild", "rebuild_write"} /\ rebuilt = "main"
          \/ \E t \in Tasks : pc[t] = "write" /\ area[t] = "main"

Recoverable ==
  ImagesCheckOut /\ Bounded /\ BackupLeads /\ Booting /\ SaverAt /\ MainGood

IInv == TypeOK /\ Recoverable
-----------------------------------------------------------------------------
\* write_to_flash_num stays within its width.
LEMMA PlusInRange ==
  ASSUME NEW n \in 0..(NumMod - 1), NEW k \in Nat
  PROVE  Plus(n, k) \in 0..(NumMod - 1)
  BY NvAssumption DEF Plus

\* The images and records the code builds have their types.
LEMMA ImageTypes ==
  /\ Absent \in Images /\ Torn \in Images /\ Factory \in Records
  /\ \A r \in Records : Img(r) \in Images
  /\ \A f \in Images : Rec(f) \in Records
  /\ \A r \in Records, n \in 0..(NumMod - 1) : Stamped(r, n) \in Records
  BY NvAssumption DEF Images, Records, Absent, Torn, Factory, Img, Rec, Stamped

\* MG_FS_Creat and MG_FS_Write leave each file with an image.
LEMMA CreatType ==
  ASSUME TypeOK, NEW a \in Areas, CreatOn(a)
  PROVE  file' \in [Areas -> Images]
  BY ImageTypes DEF TypeOK, CreatOn

\* MG_FS_Write, whatever it returns.
LEMMA WriteType ==
  ASSUME TypeOK, NEW a \in Areas, WriteOn(a, ram)
  PROVE  file' \in [Areas -> Images] /\ mainErr' \in BOOLEAN
<1>1. file' \in [Areas -> Images]
  BY ImageTypes DEF TypeOK, WriteOn
<1>2. mainErr' \in BOOLEAN
  BY Zenon DEF WriteOn
<1> QED BY <1>1, <1>2

\* Every step of every task and of read_user_nv_flash keeps the types, and in
\* particular keeps the retry counters of save_user_nv_flash in range.
LEMMA TypeStep == TypeOK /\ [Next]_vars => TypeOK'
<1> SUFFICES ASSUME TypeOK, [Next]_vars PROVE TypeOK'
  OBVIOUS
<1> USE NvAssumption, ImageTypes DEF TypeOK, Areas, Modes, Labels, Statuses, Goto
<1>1. ASSUME NEW t \in Tasks, ty_SaveDeviceSecret(t) PROVE TypeOK'
  <2>1. Plus(ram.num, 1) \in 0..(NumMod - 1)
    BY PlusInRange DEF Records
  <2>2. ram' \in Records
    BY <1>1, <2>1 DEF ty_SaveDeviceSecret, Records
  <2> QED BY <1>1, <2>2 DEF ty_SaveDeviceSecret
<1>2. ASSUME NEW t \in Tasks, ty_UpdateFOTAInfo(t) PROVE TypeOK'
  <2>1. CASE UNCHANGED <<ver, ram>>
    BY <1>2, <2>1 DEF ty_UpdateFOTAInfo
  <2>2. CASE ver' = ver + 1 /\ ram' = [num |-> ram.num, data |-> ver + 1, crc |-> FALSE]
    <3>1. ram' \in Records
      BY <2>2 DEF Records
    <3> QED BY <1>2, <2>2, <3>1 DEF ty_UpdateFOTAInfo
  <2> QED BY <1>2, <2>1, <2>2 DEF ty_UpdateFOTAInfo
<1>3. ASSUME NEW t \in Tasks, SaveEntry(t) PROVE TypeOK'
  <2>1. Plus(ram.num, 1) \in 0..(NumMod - 1)
    BY PlusInRange DEF Records
  <2> QED BY <1>3, <2>1 DEF SaveEntry, StartWith, history
<1>4. ASSUME NEW t \in Tasks, SaveGiveUp(t) PROVE TypeOK'
  BY <1>4 DEF SaveGiveUp, Return, history
<1>5. ASSUME NEW t \in Tasks, SaveRead(t) PROVE TypeOK'
  BY <1>5 DEF SaveRead, Attempt, history
<1>6. ASSUME NEW t \in Tasks, AreaDone(t) PROVE TypeOK'
  <2>1. ram.data \in Nat
    BY DEF Records
  <2>2. CASE area[t] = "bak"
    BY <1>6, <2>2, RetryCnt \in 0..RetryCnt DEF AreaDone
  <2>3. CASE area[t] # "bak"
    <3>1. durable' = ram.data /\ Return(t)
      BY <1>6, <2>3 DEF AreaDone
    <3> QED BY <1>6, <2>1, <3>1 DEF AreaDone, Return
  <2> QED BY <2>2, <2>3
<1>7. ASSUME NEW t \in Tasks, SaveStamp(t) PROVE TypeOK'
  BY <1>7 DEF SaveStamp, history
<1>8. ASSUME NEW t \in Tasks, SaveCreat(t) PROVE TypeOK'
  <2>1. area[t] \in Areas
    OBVIOUS
  <2>2. CASE CreatOn(area[t]) /\ Goto(t, "write") /\ UNCHANGED mainErr
    BY <1>8, <2>1, <2>2, CreatType DEF SaveCreat
  <2>3. CASE UNCHANGED file /\ Goto(t, "readback") /\ mainErr' = (mainErr \/ area[t] = "main")
    BY <1>8, <2>3 DEF SaveCreat
  <2> QED BY <1>8, <2>2, <2>3 DEF SaveCreat
<1>9. ASSUME NEW t \in Tasks, SaveWrite(t) PROVE TypeOK'
  BY <1>9, WriteType DEF SaveWrite
<1>10. ASSUME NEW t \in Tasks, SaveReadBack(t) PROVE TypeOK'
  BY <1>10 DEF SaveReadBack, history
<1>11. ASSUME NEW t \in Tasks, SaveRetry(t) PROVE TypeOK'
  BY <1>11 DEF SaveRetry, history
<1>12. CASE read_user_nv_flash
  <2>1. CASE BootFactory
    BY <2>1 DEF BootFactory, taskVars, history
  <2>2. CASE BootMainRebuild
    BY <2>2 DEF BootMainRebuild, MainFromBackup, taskVars, history
  <2>3. CASE BootBothBad
    BY <2>3 DEF BootBothBad, taskVars, history
  <2>4. CASE BootBakRebuild
    BY <2>4 DEF BootBakRebuild, taskVars, history
  <2>5. CASE BootBothGood
    BY <2>5 DEF BootBothGood, taskVars, history
  <2>6. CASE RebuildCreat
    BY <2>6, CreatType DEF RebuildCreat, taskVars, history
  <2>7. CASE RebuildWrite
    BY <2>7, WriteType DEF RebuildWrite, taskVars, history
  <2> QED BY <1>12, <2>1, <2>2, <2>3, <2>4, <2>5, <2>6, <2>7 DEF read_user_nv_flash
<1>13. CASE PowerLoss
  <2>1. file' \in [Areas -> Images]
    BY <1>13 DEF PowerLoss
  <2> QED BY <1>13, <2>1 DEF PowerLoss, history
<1>14. CASE UNCHANGED vars
  BY <1>14 DEF vars, taskVars, history
<1> QED
  BY <1>1, <1>2, <1>3, <1>4, <1>5, <1>6, <1>7, <1>8, <1>9, <1>10, <1>11,
     <1>12, <1>13, <1>14 DEF Next, Save, SaveNoUpdate, SaveVerified

\* The program starts in a well-typed state.
LEMMA TypeInit == Init => TypeOK
<1> SUFFICES ASSUME Init PROVE TypeOK
    OBVIOUS
<1>1. 0 \in 0..(NumMod - 1) /\ 0 \in 0..RetryCnt
    BY NvAssumption
<1>2. ram \in Records /\ scratch \in Images /\ file \in [Areas -> Images]
    BY ImageTypes DEF Init
<1>3. mode \in Modes /\ rebuilt \in Areas /\ status \in Statuses
    BY DEF Init, Modes, Areas, Statuses
<1>4. pc \in [Tasks -> Labels] /\ area \in [Tasks -> Areas]
    BY DEF Init, Labels, Areas
<1>5. left \in [Tasks -> 0..RetryCnt] /\ target \in [Tasks -> 0..(NumMod - 1)]
    BY <1>1 DEF Init
<1> QED BY <1>2, <1>3, <1>4, <1>5 DEF Init, TypeOK

\* Type correctness, for any number of tasks saving at once.
THEOREM TypeCorrect == Spec => []TypeOK
  BY TypeInit, TypeStep, PTL DEF Spec
-----------------------------------------------------------------------------
\* With one saver, every step of the program and every power loss keeps the
\* files recoverable.
LEMMA RecoverableStep ==
  ASSUME OneSaver, IInv, [Next]_vars PROVE Recoverable'
<1> USE NvAssumption DEF OneSaver, IInv, Recoverable, TypeOK, Images, Records,
        Areas, Valid, Img, Torn, Absent, Factory, Goto, Saving, ImagesCheckOut, Bounded,
        BackupLeads, Booting, SaverAt, MainGood
<1>0. TypeOK'
  BY TypeStep
<1>1. ASSUME NEW t \in Tasks, ty_SaveDeviceSecret(t) PROVE Recoverable'
  BY <1>0, <1>1 DEF ty_SaveDeviceSecret
<1>2. ASSUME NEW t \in Tasks, ty_UpdateFOTAInfo(t) PROVE Recoverable'
  BY <1>0, <1>2 DEF ty_UpdateFOTAInfo
<1>3. ASSUME NEW t \in Tasks, SaveEntry(t) PROVE Recoverable'
  BY <1>0, <1>3 DEF SaveEntry, StartWith, history
<1>4. ASSUME NEW t \in Tasks, SaveGiveUp(t) PROVE Recoverable'
  BY <1>0, <1>4 DEF SaveGiveUp, Return, history
<1>5. ASSUME NEW t \in Tasks, SaveRead(t) PROVE Recoverable'
  BY <1>0, <1>5 DEF SaveRead, Attempt, history
<1>6. ASSUME NEW t \in Tasks, SaveNoUpdate(t) PROVE Recoverable'
  BY <1>0, <1>6 DEF SaveNoUpdate, AreaDone, Return
<1>7. ASSUME NEW t \in Tasks, SaveStamp(t) PROVE Recoverable'
  BY <1>0, <1>7 DEF SaveStamp, Stamped, history
<1>8. ASSUME NEW t \in Tasks, SaveCreat(t) PROVE Recoverable'
  BY <1>0, <1>8 DEF SaveCreat, CreatOn
<1>9. ASSUME NEW t \in Tasks, SaveWrite(t) PROVE Recoverable'
  BY <1>0, <1>9 DEF SaveWrite, WriteOn
<1>10. ASSUME NEW t \in Tasks, SaveReadBack(t) PROVE Recoverable'
  BY <1>0, <1>10 DEF SaveReadBack, history
<1>11. ASSUME NEW t \in Tasks, SaveVerified(t) PROVE Recoverable'
  BY <1>0, <1>11 DEF SaveVerified, AreaDone, Return
<1>12. ASSUME NEW t \in Tasks, SaveRetry(t) PROVE Recoverable'
  BY <1>0, <1>12 DEF SaveRetry, history
<1>13. CASE BootFactory
  BY <1>0, <1>13 DEF BootFactory, taskVars, history
<1>14. CASE BootMainRebuild
  BY <1>0, <1>14 DEF BootMainRebuild, MainFromBackup, Rec, taskVars, history
<1>15. CASE BootBothBad
  BY <1>0, <1>15 DEF BootBothBad, taskVars, history
<1>16. CASE BootBakRebuild
  BY <1>0, <1>16 DEF BootBakRebuild, Rec, taskVars, history
<1>17. CASE BootBothGood
  BY <1>0, <1>17 DEF BootBothGood, Rec, Newer, taskVars, history
<1>18. CASE RebuildCreat
  BY <1>0, <1>18 DEF RebuildCreat, CreatOn, taskVars, history
<1>19. CASE RebuildWrite
  BY <1>0, <1>19 DEF RebuildWrite, WriteOn, taskVars, history
<1>20. CASE PowerLoss
  BY <1>0, <1>20 DEF PowerLoss, BeingWritten, history
<1>21. CASE UNCHANGED vars
  BY <1>21 DEF vars, taskVars, history
<1> QED
  BY <1>1, <1>2, <1>3, <1>4, <1>5, <1>6, <1>7, <1>8, <1>9, <1>10, <1>11,
     <1>12, <1>13, <1>14, <1>15, <1>16, <1>17, <1>18, <1>19, <1>20, <1>21
     DEF Next, Save, read_user_nv_flash

\* The inductive invariant holds in every reachable state.
LEMMA Invariance == ASSUME OneSaver PROVE Spec => []IInv
<1>1. Init => Recoverable
  BY NvAssumption DEF Init, Recoverable, ImagesCheckOut, Bounded, BackupLeads,
     Booting, SaverAt, MainGood, Valid, Absent, Factory, Areas, Saving
<1>2. Init => TypeOK
  BY TypeInit
<1>3. IInv /\ [Next]_vars => IInv'
  BY TypeStep, RecoverableStep DEF IInv
<1> QED BY <1>1, <1>2, <1>3, PTL DEF Spec, IInv

\* Once a save has verified both files, they are never both bad unless a write
\* of the main file reported an error: power may fail at any step of
\* save_user_nv_flash and of read_user_nv_flash, any number of times.
THEOREM NoTotalLossHolds == ASSUME OneSaver PROVE Spec => []NoTotalLoss
<1>1. IInv => NoTotalLoss
  BY DEF IInv, Recoverable, MainGood, NoTotalLoss, Areas
<1> QED BY <1>1, Invariance, PTL

\* The backup file is never behind a good main file.
THEOREM BackupLeadsHolds == ASSUME OneSaver PROVE Spec => []BackupLeads
<1>1. IInv => BackupLeads
  BY DEF IInv, Recoverable
<1> QED BY <1>1, Invariance, PTL

\* read_user_nv_flash never restores anything older than the last save that
\* verified both files, for every width of write_to_flash_num.
THEOREM BootKeepsDurableHolds == ASSUME OneSaver PROVE Spec => BootKeepsDurable
<1>1. IInv /\ IInv' /\ [Next]_vars
        => [mode = "off" /\ mode' # "off" /\ ~mainErr => ram'.data >= durable]_vars
  <2> SUFFICES ASSUME IInv, IInv', Next, mode = "off", mode' # "off", ~mainErr
               PROVE  ram'.data >= durable
    BY DEF vars
  <2>1. read_user_nv_flash
    BY DEF Next, PowerLoss, ty_SaveDeviceSecret, ty_UpdateFOTAInfo, Save,
       SaveEntry, StartWith, SaveGiveUp, SaveRead, Attempt, SaveNoUpdate,
       SaveStamp, SaveCreat, SaveWrite, SaveReadBack, SaveVerified, SaveRetry,
       AreaDone
  <2>2. durable' = durable \/ BootBothBad
    BY <2>1 DEF read_user_nv_flash, BootFactory, BootMainRebuild, MainFromBackup,
       BootBakRebuild, BootBothGood, RebuildCreat, RebuildWrite, history
  <2>3. CASE durable' = durable
    BY <2>3 DEF IInv, Recoverable, Bounded, TypeOK, Records
  <2>4. CASE BootBothBad
    <3>1. ~(durable > 0)
      BY <2>4 DEF BootBothBad, IInv, Recoverable, MainGood
    <3> QED BY <2>4, <3>1 DEF BootBothBad, Factory, IInv, TypeOK
  <2> QED BY <2>2, <2>3, <2>4
<1> QED BY <1>1, Invariance, PTL DEF Spec, BootKeepsDurable
-----------------------------------------------------------------------------
(* What a save that has returned leaves behind.                            *)

\* When no write fails, what one saver writes it also reads back, so that it
\* never has to try a file again, let alone to give it up.
FirstTry ==
  \A t \in Tasks :
    /\ pc[t] = "read" => left[t] > 0
    /\ pc[t] = "readback" => file[area[t]] = Img(ram)
    /\ pc[t] = "verify" => scratch = Img(ram)

\* Every step of the one saver and of a boot keeps that, and ends with the
\* record in a file.
LEMMA StoredStep ==
  ASSUME OneSaver, ~WriteErrors, IInv, FirstTry, SavedRecordStored, [Next]_vars
  PROVE  FirstTry' /\ SavedRecordStored'
<1> USE NvAssumption DEF OneSaver, IInv, TypeOK, Areas, Goto, FirstTry, SavedRecordStored
<1>1. ASSUME NEW t \in Tasks, ty_SaveDeviceSecret(t) \/ ty_UpdateFOTAInfo(t)
      PROVE  FirstTry' /\ SavedRecordStored'
  BY <1>1 DEF ty_SaveDeviceSecret, ty_UpdateFOTAInfo
<1>2. ASSUME NEW t \in Tasks, SaveEntry(t) PROVE FirstTry' /\ SavedRecordStored'
  BY <1>2 DEF SaveEntry, StartWith
<1>3. ASSUME NEW t \in Tasks, SaveGiveUp(t) \/ SaveRetry(t) PROVE FALSE
  BY <1>3 DEF SaveGiveUp, SaveRetry
<1>4. ASSUME NEW t \in Tasks, SaveRead(t) PROVE FirstTry' /\ SavedRecordStored'
  BY <1>4 DEF SaveRead, Attempt
<1>5. ASSUME NEW t \in Tasks, SaveNoUpdate(t) \/ SaveVerified(t)
      PROVE  FirstTry' /\ SavedRecordStored'
  <2>1. AreaDone(t) /\ pc[t] # "idle" /\ file[area[t]] = Img(ram)
    BY <1>5 DEF SaveNoUpdate, SaveVerified, Recoverable, SaverAt
  <2>2. Valid(file[area[t]]) /\ file[area[t]].data = ram.data
    BY <2>1 DEF Valid, Img, Recoverable, ImagesCheckOut
  <2>3. UNCHANGED <<file, ram>> BY <2>1 DEF AreaDone
  <2>4. SavedRecordStored' BY <2>2, <2>3
  <2>5. FirstTry' BY <2>1 DEF AreaDone, Return
  <2> QED BY <2>4, <2>5
<1>6. ASSUME NEW t \in Tasks, SaveStamp(t) PROVE FirstTry' /\ SavedRecordStored'
  BY <1>6 DEF SaveStamp
<1>7. ASSUME NEW t \in Tasks, SaveCreat(t) PROVE FirstTry' /\ SavedRecordStored'
  BY <1>7 DEF SaveCreat
<1>8. ASSUME NEW t \in Tasks, SaveWrite(t) PROVE FirstTry' /\ SavedRecordStored'
  BY <1>8 DEF SaveWrite, WriteOn
<1>9. ASSUME NEW t \in Tasks, SaveReadBack(t) PROVE FirstTry' /\ SavedRecordStored'
  BY <1>9 DEF SaveReadBack
<1>10. CASE read_user_nv_flash
  <2>1. UNCHANGED pc /\ \A t \in Tasks : pc[t] = "idle"
    BY <1>10 DEF read_user_nv_flash, BootFactory, BootMainRebuild, MainFromBackup,
       BootBothBad, BootBakRebuild, BootBothGood, RebuildCreat, RebuildWrite,
       taskVars, Recoverable, Booting
  <2>2. FirstTry' BY <2>1
  <2>3. CASE BootFactory
    <3>1. ~(durable' > 0) BY <2>3 DEF BootFactory, history, Recoverable, Bounded
    <3> QED BY <2>2, <3>1
  <2>4. CASE BootMainRebuild \/ BootBakRebuild
    <3>1. mode' # "run" BY <2>4 DEF BootMainRebuild, MainFromBackup, BootBakRebuild
    <3> QED BY <2>2, <3>1
  <2>5. CASE BootBothBad
    <3>1. ~(durable' > 0) BY <2>5 DEF BootBothBad
    <3> QED BY <2>2, <3>1
  <2>6. CASE BootBothGood
    <3>1. ram' = Rec(file["main"]) \/ ram' = Rec(file["bak"])
      BY <2>6 DEF BootBothGood
    <3>2. UNCHANGED file /\ Valid(file["main"]) /\ Valid(file["bak"])
      BY <2>6 DEF BootBothGood
    <3> QED BY <2>2, <3>1, <3>2 DEF Rec, Valid
  <2>7. CASE RebuildCreat BY <2>7, <2>2 DEF RebuildCreat
  <2>8. CASE RebuildWrite
    <3>1. ram.crc BY <2>8 DEF RebuildWrite, Recoverable, Booting
    <3>2. file'[rebuilt] = Img(ram) /\ ram' = ram
      BY <2>8 DEF RebuildWrite, WriteOn
    <3>3. Valid(file'[rebuilt]) /\ file'[rebuilt].data = ram.data
      BY <3>1, <3>2 DEF Valid, Img
    <3> QED BY <2>2, <3>2, <3>3 DEF Valid
  <2> QED BY <1>10, <2>2, <2>3, <2>4, <2>5, <2>6, <2>7, <2>8 DEF read_user_nv_flash
<1>11. CASE PowerLoss BY <1>11 DEF PowerLoss
<1>12. CASE UNCHANGED vars BY <1>12 DEF vars, taskVars, history, Valid
<1> QED BY <1>1, <1>2, <1>3, <1>4, <1>5, <1>6, <1>7, <1>8, <1>9, <1>10, <1>11, <1>12
        DEF Next, Save

\* With one task saving at a time and a file system that reports no error, a
\* save that has returned leaves the record in a file that checks out, and so
\* does every boot, whenever power is lost: where SavedRecordStored fails, the
\* missing lock around g_ty_cloud_nv is to blame.
THEOREM SavedRecordStoredHolds ==
  ASSUME OneSaver, ~WriteErrors PROVE Spec => []SavedRecordStored
<1>1. Init => FirstTry /\ SavedRecordStored
  BY DEF Init, FirstTry, SavedRecordStored
<1>2. IInv /\ FirstTry /\ SavedRecordStored /\ [Next]_vars
        => FirstTry' /\ SavedRecordStored'
  BY StoredStep
<1> QED BY <1>1, <1>2, Invariance, PTL DEF Spec
-----------------------------------------------------------------------------
\* A step of a saver leaves the register as it is, commits the version in RAM,
\* or reports or makes good a write error of the main file.
LEMMA SaverStep ==
  ASSUME IInv, NEW t \in Tasks, Save(t)
  PROVE  Register!Commit \/ Register!Damage \/ UNCHANGED Register!vars
<1> USE DEF IInv, TypeOK, Register!Commit, Register!Damage, Register!vars
<1>1. CASE SaveEntry(t) \/ SaveGiveUp(t) \/ SaveRead(t) \/ SaveReadBack(t) \/ SaveRetry(t)
  BY <1>1 DEF SaveEntry, StartWith, SaveGiveUp, SaveRead, Attempt, SaveReadBack,
     SaveRetry, history
<1>2. CASE SaveStamp(t)
  BY <1>2 DEF SaveStamp, Stamped, history
<1>3. CASE SaveNoUpdate(t) \/ SaveVerified(t)
  <2>1. AreaDone(t) /\ pc[t] # "idle"
    BY <1>3 DEF SaveNoUpdate, SaveVerified
  <2>2. mode # "off" /\ ram.data >= durable /\ durable \in Nat /\ ram.data \in Nat
    BY <2>1 DEF Recoverable, Booting, Bounded, Records
  <2>3. UNCHANGED <<mode, ram, ver, mainErr>> /\ (durable' = durable \/ durable' = ram.data)
    BY <2>1 DEF AreaDone, Return
  <2> QED BY <2>2, <2>3
<1>4. CASE SaveCreat(t) \/ SaveWrite(t)
  <2>1. UNCHANGED <<mode, ram, durable, ver>> /\ mode # "off"
    BY <1>4 DEF SaveCreat, SaveWrite, Recoverable, Booting
  <2>2. mainErr' = mainErr \/ mainErr' = ~mainErr
    BY <1>4, Zenon DEF SaveCreat, SaveWrite, WriteOn
  <2> QED BY <2>1, <2>2
<1> QED BY <1>1, <1>2, <1>3, <1>4 DEF Save

\* Coming up, read_user_nv_flash finds a version between the last committed one
\* and the newest, or nothing at all in a damaged register.
LEMMA BootStep ==
  ASSUME IInv, read_user_nv_flash
  PROVE  Register!Boot \/ Register!BootEmpty \/ Register!Damage \/ UNCHANGED Register!vars
<1> USE DEF IInv, TypeOK, Register!Boot, Register!BootEmpty, Register!Damage, Register!vars
<1>1. CASE BootFactory
  <2>1. durable = 0 /\ ram.data = 0 /\ ver \in Nat
    BY <1>1 DEF BootFactory, Recoverable, Bounded, Booting, Factory, Areas
  <2> QED BY <1>1, <2>1 DEF BootFactory, history
<1>2. CASE BootMainRebuild
  <2>1. ram'.data = file["bak"].data /\ Valid(file["bak"])
    BY <1>2 DEF BootMainRebuild, MainFromBackup, Rec
  <2>2. ram'.data \in durable..ver
    BY <2>1 DEF Recoverable, Bounded, Areas, Images
  <2> QED BY <1>2, <2>2 DEF BootMainRebuild, MainFromBackup, history
<1>3. CASE BootBothBad
  <2>1. ram'.data = 0 /\ durable' = 0 /\ mode = "off" /\ mode' # "off" /\ UNCHANGED <<ver, mainErr>>
    BY <1>3 DEF BootBothBad, Factory
  <2>2. CASE mainErr
    BY <2>1, <2>2
  <2>3. CASE ~mainErr
    <3>1. durable = 0
      BY <1>3, <2>3 DEF BootBothBad, Recoverable, MainGood
    <3> QED BY <2>1, <3>1
  <2> QED BY <2>2, <2>3
<1>4. CASE BootBakRebuild
  <2>1. ram'.data = file["main"].data /\ Valid(file["main"])
    BY <1>4 DEF BootBakRebuild, Rec
  <2>2. ram'.data \in durable..ver
    BY <2>1 DEF Recoverable, Bounded, Areas, Images
  <2> QED BY <1>4, <2>2 DEF BootBakRebuild, history
<1>5. CASE BootBothGood
  <2>1. ram'.data = file["main"].data \/ ram'.data = file["bak"].data
    BY <1>5 DEF BootBothGood, Rec
  <2>2. Valid(file["main"]) /\ Valid(file["bak"])
    BY <1>5 DEF BootBothGood
  <2>3. ram'.data \in durable..ver
    BY <2>1, <2>2 DEF Recoverable, Bounded, Areas, Images
  <2> QED BY <1>5, <2>3 DEF BootBothGood, history
<1>6. CASE RebuildCreat \/ RebuildWrite
  <2>1. UNCHANGED <<ram, durable, ver>> /\ mode # "off" /\ mode' # "off"
    BY <1>6 DEF RebuildCreat, RebuildWrite
  <2>2. mainErr' = mainErr \/ mainErr' = ~mainErr
    BY <1>6, Zenon DEF RebuildCreat, RebuildWrite, WriteOn
  <2> QED BY <2>1, <2>2
<1> QED BY <1>1, <1>2, <1>3, <1>4, <1>5, <1>6 DEF read_user_nv_flash

\* save_user_nv_flash and read_user_nv_flash implement the crash-safe register,
\* whatever the retry count, the width of write_to_flash_num and the faults, as
\* long as one task saves at a time.
THEOREM RegisterRefined == ASSUME OneSaver PROVE Spec => IsCrashSafeRegister
<1>1. Init => Register!Init
  BY DEF Init, Register!Init, Factory
<1>2. IInv /\ [Next]_vars => [Register!Next]_(Register!vars)
  <2> SUFFICES ASSUME IInv, [Next]_vars PROVE [Register!Next]_(Register!vars)
    OBVIOUS
  <2> USE DEF Register!Next
  <2>1. ASSUME NEW t \in Tasks, ty_SaveDeviceSecret(t) PROVE Register!Put
    BY <2>1 DEF ty_SaveDeviceSecret, Register!Put
  <2>2. ASSUME NEW t \in Tasks, ty_UpdateFOTAInfo(t)
        PROVE Register!Put \/ UNCHANGED Register!vars
    BY <2>2 DEF ty_UpdateFOTAInfo, Register!Put, Register!vars
  <2>3. ASSUME NEW t \in Tasks, Save(t) PROVE [Register!Next]_(Register!vars)
    BY <2>3, SaverStep
  <2>4. CASE read_user_nv_flash
    BY <2>4, BootStep
  <2>5. CASE PowerLoss
    BY <2>5 DEF PowerLoss, Factory, history, Register!Crash
  <2>6. CASE UNCHANGED vars
    BY <2>6 DEF vars, history, Register!vars
  <2> QED BY <2>1, <2>2, <2>3, <2>4, <2>5, <2>6 DEF Next
<1> QED BY <1>1, <1>2, Invariance, PTL DEF Spec, IsCrashSafeRegister, Register!Spec
=============================================================================
