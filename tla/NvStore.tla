------------------------------ MODULE NvStore ------------------------------
(***************************************************************************)
(* The double-banked non-volatile record of ty_ssnb/os/ty_devinfo.c and    *)
(* the file adapter plat/slm320/slm320_flash_adpt.c under it.              *)
(*                                                                         *)
(* One record, g_ty_cloud_nv, lives in RAM.  ty_flash_save copies it to    *)
(* the backup file and then to the main file; read_user_nv_flash rebuilds  *)
(* it from the two files at power-up.  Every task that saves shares the    *)
(* RAM record and one scratch record, g_ty_cloud_nv_calc, without a lock.  *)
(*                                                                         *)
(* The payload of the record is a version number: a caller that changes    *)
(* something produces the next version.  crc is TRUE when the crc32 field  *)
(* matches the fields it covers.                                           *)
(***************************************************************************)
EXTENDS Integers

CONSTANTS
  Tasks,        \* the tasks that call ty_flash_save
  NumMod,       \* write_to_flash_num is counted modulo NumMod (2^32 in the code)
  RetryCnt,     \* NV_WRITE_RETRY_CNT
  MaxVer,       \* bound on the versions the callers produce
  WriteErrors,  \* TRUE when the file system may report errors
  Outages       \* TRUE when power may be lost

ASSUME NvAssumption ==
  /\ NumMod \in Nat \ {0}
  /\ RetryCnt \in Nat \ {0}
  /\ MaxVer \in Nat
  /\ WriteErrors \in BOOLEAN
  /\ Outages \in BOOLEAN

VARIABLES
  ram,      \* g_ty_cloud_nv
  scratch,  \* g_ty_cloud_nv_calc
  file,     \* the two files, main and backup
  mode,     \* "off", "rebuild" (read_user_nv_flash is writing a file), "run"
  rebuilt,  \* the file read_user_nv_flash is writing
  status,   \* flash_status
  pc,       \* where each task is in save_user_nv_flash
  area,     \* the file it is working on: the first or the second loop
  left,     \* retryCNT_backup, then retryCNT
  target,   \* its local write_to_flash_num
  ver,      \* history: the newest version any caller has produced
  durable,  \* history: the version of the last save that verified both files
  mainErr   \* history: the last write of the main file reported an error

taskVars == <<pc, area, left, target>>
history  == <<ver, durable, mainErr>>
vars == <<ram, scratch, file, mode, rebuilt, status, taskVars, history>>

Areas == {"main", "bak"}
-----------------------------------------------------------------------------
(* Contents of a file, and of the scratch record after a read of it.       *)

Absent == [kind |-> "absent", num |-> 0, data |-> 0, crc |-> FALSE]
Torn   == [kind |-> "torn", num |-> 0, data |-> 0, crc |-> FALSE]
Img(r) == [kind |-> "img", num |-> r.num, data |-> r.data, crc |-> r.crc]

Images == [kind : {"absent", "torn", "img"}, num : 0..(NumMod - 1),
           data : Nat, crc : BOOLEAN]
Records == [num : 0..(NumMod - 1), data : Nat, crc : BOOLEAN]

\* A read of the full length whose crc32 matches.
Valid(f) == f.kind = "img" /\ f.crc

\* The initial value of g_ty_cloud_nv, and what NvStrcutInfoFactory restores.
Factory == [num |-> 0, data |-> 0, crc |-> FALSE]

Plus(n, k) == (n + k) % NumMod

\* The number is stored and crc32 recomputed over it.
Stamped(r, n) == [num |-> n, data |-> r.data, crc |-> TRUE]

\* memcpy of a file image into g_ty_cloud_nv.
Rec(f) == [num |-> f.num, data |-> f.data, crc |-> f.crc]
-----------------------------------------------------------------------------
Init ==
  /\ ram = Factory
  /\ scratch = Torn
  /\ file = [a \in Areas |-> Absent]
  /\ mode = "off"
  /\ rebuilt = "main"
  /\ status = "none"
  /\ pc = [t \in Tasks |-> "idle"]
  /\ area = [t \in Tasks |-> "bak"]
  /\ left = [t \in Tasks |-> 0]
  /\ target = [t \in Tasks |-> 0]
  /\ ver = 0
  /\ durable = 0
  /\ mainErr = FALSE

Goto(t, l) == pc' = [pc EXCEPT ![t] = l]

\* Back in the caller: the locals are dead.
Return(t) ==
  /\ Goto(t, "idle")
  /\ area' = [area EXCEPT ![t] = "bak"]
  /\ left' = [left EXCEPT ![t] = 0]
  /\ target' = [target EXCEPT ![t] = 0]

(***************************************************************************)
(* The callers.  A caller changes its fields of the RAM record in place    *)
(* and calls ty_flash_save.  Most count the write themselves, on top of    *)
(* the count save_user_nv_flash makes; the FOTA record's status bits are   *)
(* stored without counting, and may be stored unchanged.                   *)
(***************************************************************************)
ty_SaveDeviceSecret(t) ==
  /\ mode = "run" /\ pc[t] = "idle"
  /\ ver < MaxVer
  /\ ver' = ver + 1
  /\ ram' = [num |-> Plus(ram.num, 1), data |-> ver + 1, crc |-> FALSE]
  /\ Goto(t, "entry")
  /\ UNCHANGED <<scratch, file, mode, rebuilt, status, area, left, target,
                 durable, mainErr>>

ty_UpdateFOTAInfo(t) ==
  /\ mode = "run" /\ pc[t] = "idle"
  /\ \/ ver < MaxVer /\ ver' = ver + 1
        /\ ram' = [num |-> ram.num, data |-> ver + 1, crc |-> FALSE]
     \/ UNCHANGED <<ver, ram>>
  /\ Goto(t, "entry")
  /\ UNCHANGED <<scratch, file, mode, rebuilt, status, area, left, target,
                 durable, mainErr>>

-----------------------------------------------------------------------------
(* save_user_nv_flash: the two loops differ only in the file they write.   *)

StartWith(t, a) ==
  /\ pc[t] = "entry"
  /\ target' = [target EXCEPT ![t] = Plus(ram.num, 1)]
  /\ scratch' = Torn
  /\ area' = [area EXCEPT ![t] = a]
  /\ left' = [left EXCEPT ![t] = RetryCnt]
  /\ Goto(t, "read")
  /\ UNCHANGED <<ram, file, mode, rebuilt, status, history>>

\* Variant: only the main file is written.
SaveEntryMainOnly(t) == StartWith(t, "main")

SaveEntry(t) == StartWith(t, "bak")

\* An attempt: read the file into the scratch record.
Attempt(t, remaining) ==
  /\ pc[t] = "read"
  /\ left' = [left EXCEPT ![t] = remaining]
  /\ scratch' = file[area[t]]
  /\ Goto(t, "compare")
  /\ UNCHANGED <<ram, file, mode, rebuilt, status, area, target, history>>

\* Variants: the retry counter is tested but never counted down; it is
\* counted down without being tested.
SaveReadUncounted(t) == left[t] > 0 /\ Attempt(t, left[t])
SaveReadUntested(t) == Attempt(t, left[t] - 1)

SaveRead(t) == left[t] > 0 /\ Attempt(t, left[t] - 1)

\* The file already holds the RAM record, or has just been verified: go on
\* to the main file, or return.
AreaDone(t) ==
  /\ IF area[t] = "bak"
     THEN /\ area' = [area EXCEPT ![t] = "main"]
          /\ left' = [left EXCEPT ![t] = RetryCnt]
          /\ Goto(t, "read")
          /\ UNCHANGED <<target, durable>>
     ELSE Return(t) /\ durable' = ram.data
  /\ UNCHANGED <<ram, scratch, file, mode, rebuilt, status, ver, mainErr>>

\* Variant: when the attempts on the backup are used up, go on to the main file.
SaveGiveUpOnward(t) ==
  /\ pc[t] = "read" /\ left[t] = 0
  /\ AreaDone(t)

\* if(!retryCNT--) goto exit: nobody is told that nothing was saved.
SaveGiveUp(t) ==
  /\ pc[t] = "read" /\ left[t] = 0
  /\ Return(t)
  /\ UNCHANGED <<ram, scratch, file, mode, rebuilt, status, history>>

SaveNoUpdate(t) ==
  /\ pc[t] = "compare" /\ scratch = Img(ram)
  /\ AreaDone(t)

SaveStamp(t) ==
  /\ pc[t] = "compare" /\ scratch # Img(ram)
  /\ ram' = Stamped(ram, target[t])
  /\ Goto(t, "creat")
  /\ UNCHANGED <<scratch, file, mode, rebuilt, status, area, left, target,
                 history>>

\* MG_FS_Creat leaves an empty file, or an existing one as it is; when it
\* fails nothing is written, and the caller does not look at the result.
CreatOn(a) ==
  file' \in {[file EXCEPT ![a] = Torn]}
            \cup (IF file[a] = Absent THEN {} ELSE {file})

SaveCreat(t) ==
  /\ pc[t] = "creat"
  /\ \/ CreatOn(area[t]) /\ Goto(t, "write") /\ UNCHANGED mainErr
     \/ /\ WriteErrors
        /\ Goto(t, "readback")
        /\ mainErr' = (mainErr \/ area[t] = "main")
        /\ UNCHANGED file
  /\ UNCHANGED <<ram, scratch, mode, rebuilt, status, area, left, target,
                 ver, durable>>

\* MG_FS_Write stores the RAM record, or fails part of the way.
WriteOn(a, r) ==
  \/ file' = [file EXCEPT ![a] = Img(r)]
     /\ mainErr' = (mainErr /\ a # "main")
  \/ /\ WriteErrors
     /\ file' = [file EXCEPT ![a] = Torn]
     /\ mainErr' = (mainErr \/ a = "main")

SaveWrite(t) ==
  /\ pc[t] = "write"
  /\ WriteOn(area[t], ram)
  /\ Goto(t, "readback")
  /\ UNCHANGED <<ram, scratch, mode, rebuilt, status, area, left, target,
                 ver, durable>>

SaveReadBack(t) ==
  /\ pc[t] = "readback"
  /\ scratch' = file[area[t]]
  /\ Goto(t, "verify")
  /\ UNCHANGED <<ram, file, mode, rebuilt, status, area, left, target, history>>

SaveVerified(t) ==
  /\ pc[t] = "verify" /\ scratch = Img(ram)
  /\ AreaDone(t)

\* Variant: a failed verification is ignored.
SaveRetryIgnored(t) ==
  /\ pc[t] = "verify" /\ scratch # Img(ram)
  /\ AreaDone(t)

SaveRetry(t) ==
  /\ pc[t] = "verify" /\ scratch # Img(ram)
  /\ Goto(t, "read")
  /\ UNCHANGED <<ram, scratch, file, mode, rebuilt, status, area, left,
                 target, history>>

Save(t) ==
  \/ SaveEntry(t) \/ SaveGiveUp(t) \/ SaveRead(t) \/ SaveNoUpdate(t)
  \/ SaveStamp(t) \/ SaveCreat(t) \/ SaveWrite(t) \/ SaveReadBack(t)
  \/ SaveVerified(t) \/ SaveRetry(t)

-----------------------------------------------------------------------------
(* read_user_nv_flash, called once at power-up before any task runs.       *)

\* ty_flash_check_factory: neither file exists.
BootFactory ==
  /\ mode = "off"
  /\ \A a \in Areas : file[a].kind = "absent"
  /\ mode' = "run"
  /\ UNCHANGED <<ram, scratch, file, rebuilt, status, taskVars, history>>

\* The main file is bad and the backup good: restore and rewrite the main file.
MainFromBackup(restored) ==
  /\ mode = "off"
  /\ ~Valid(file["main"]) /\ Valid(file["bak"])
  /\ scratch' = file["bak"]
  /\ ram' = restored
  /\ status' = "main_rebuild"
  /\ mode' = "rebuild" /\ rebuilt' = "main"
  /\ UNCHANGED <<file, taskVars, history>>

\* Variant: the record read is not copied to g_ty_cloud_nv.
BootMainRebuildKeepsRam == MainFromBackup(ram)

BootMainRebuild == MainFromBackup(Rec(file["bak"]))

\* Both are bad: factory values, and what was stored is gone.
BootBothBad ==
  /\ mode = "off"
  /\ \E a \in Areas : file[a].kind # "absent"
  /\ ~Valid(file["main"]) /\ ~Valid(file["bak"])
  /\ scratch' = file["bak"]
  /\ ram' = Factory
  /\ status' = "main_bak_err"
  /\ mode' = "run"
  /\ durable' = 0
  /\ UNCHANGED <<file, rebuilt, taskVars, ver, mainErr>>

BootBakRebuild ==
  /\ mode = "off"
  /\ Valid(file["main"]) /\ ~Valid(file["bak"])
  /\ ram' = Rec(file["main"])
  /\ scratch' = file["main"]
  /\ status' = "bak_rebuild"
  /\ mode' = "rebuild" /\ rebuilt' = "bak"
  /\ UNCHANGED <<file, taskVars, history>>

\* Both are good: the higher write number wins, the main file on a tie.
Newer(bak, main) == bak.num > main.num

BootBothGood ==
  /\ mode = "off"
  /\ Valid(file["main"]) /\ Valid(file["bak"])
  /\ LET m == file["main"]
         b == file["bak"]
     IN \/ b = m /\ status' = "crc_ok" /\ ram' = Rec(m) /\ scratch' = b
        \/ b # m /\ Newer(b, m) /\ status' = "bak_newer"
           /\ ram' = Rec(b) /\ scratch' = b
        \/ b # m /\ b.num < m.num /\ status' = "main_newer"
           /\ ram' = Rec(m) /\ scratch' = m
        \/ b # m /\ b.num = m.num /\ status' = "unkown"
           /\ ram' = Rec(m) /\ scratch' = b
  /\ mode' = "run"
  /\ UNCHANGED <<file, rebuilt, taskVars, history>>

\* The rebuild writes once: MG_FS_Creat, then MG_FS_Write, neither checked.
RebuildCreat ==
  /\ mode = "rebuild"
  /\ \/ CreatOn(rebuilt) /\ mode' = "rebuild_write" /\ UNCHANGED mainErr
     \/ WriteErrors /\ mode' = "run" /\ UNCHANGED file
        /\ mainErr' = (mainErr \/ rebuilt = "main")
  /\ UNCHANGED <<ram, scratch, rebuilt, status, taskVars, ver, durable>>

RebuildWrite ==
  /\ mode = "rebuild_write"
  /\ WriteOn(rebuilt, ram)
  /\ mode' = "run"
  /\ UNCHANGED <<ram, scratch, rebuilt, status, taskVars, ver, durable>>

read_user_nv_flash ==
  \/ BootFactory \/ BootMainRebuild \/ BootBothBad \/ BootBakRebuild
  \/ BootBothGood \/ RebuildCreat \/ RebuildWrite

-----------------------------------------------------------------------------
(* Power is lost at any moment: RAM and every task are gone, and a file    *)
(* that was being written is left torn or as it was.                       *)

BeingWritten(a) ==
  \/ mode = "rebuild_write" /\ rebuilt = a
  \/ \E t \in Tasks : pc[t] = "write" /\ area[t] = a

PowerLoss ==
  /\ Outages /\ mode # "off"
  /\ mode' = "off"
  /\ ram' = Factory
  /\ scratch' = Torn
  /\ status' = "none"
  /\ pc' = [t \in Tasks |-> "idle"]
  /\ area' = [t \in Tasks |-> "bak"]
  /\ left' = [t \in Tasks |-> 0]
  /\ target' = [t \in Tasks |-> 0]
  /\ rebuilt' = "main"
  /\ file' \in {f \in [Areas -> {file[a] : a \in Areas} \cup {Torn}] :
                  \A a \in Areas : f[a] = file[a] \/ (BeingWritten(a) /\ f[a] = Torn)}
  /\ UNCHANGED history

Next ==
  \/ \E t \in Tasks : ty_SaveDeviceSecret(t) \/ ty_UpdateFOTAInfo(t) \/ Save(t)
  \/ read_user_nv_flash
  \/ PowerLoss

\* The scheduler runs every ready task, and boot is not preempted.
Fairness ==
  /\ \A t \in Tasks : WF_vars(Save(t))
  /\ WF_vars(read_user_nv_flash)

Spec == Init /\ [][Next]_vars
FairSpec == Spec /\ Fairness
-----------------------------------------------------------------------------
Modes == {"off", "rebuild", "rebuild_write", "run"}
Labels == {"idle", "entry", "read", "compare", "creat", "write", "readback",
           "verify"}
Statuses == {"none", "crc_ok", "main_rebuild", "bak_newer", "main_bak_err",
             "bak_rebuild", "main_newer", "unkown"}

\* Every variable has its type; the retry counter of save_user_nv_flash never
\* passes NV_WRITE_RETRY_CNT.
TypeOK ==
  /\ ram \in Records
  /\ scratch \in Images
  /\ file \in [Areas -> Images]
  /\ mode \in Modes
  /\ rebuilt \in Areas
  /\ status \in Statuses
  /\ pc \in [Tasks -> Labels]
  /\ area \in [Tasks -> Areas]
  /\ left \in [Tasks -> 0..RetryCnt]
  /\ target \in [Tasks -> 0..(NumMod - 1)]
  /\ ver \in Nat /\ durable \in Nat
  /\ mainErr \in BOOLEAN

\* Once a save has verified both files, one power loss after another, at any
\* point of save_user_nv_flash or of the rebuild in read_user_nv_flash, never
\* leaves the two files bad together, whatever errors the backup file meets:
\* losing the record takes a write error on the main file as well.
NoTotalLoss ==
  durable > 0 /\ ~mainErr => \E a \in Areas : Valid(file[a])

\* Whatever file read_user_nv_flash chooses, the record it restores is never
\* older than the last save that verified both files, even when
\* write_to_flash_num has wrapped around between the two files.
BootKeepsDurable ==
  [][mode = "off" /\ mode' # "off" /\ ~mainErr => ram'.data >= durable]_vars

\* The backup is always written first: when both files check out, the backup
\* is at least as new as the main file, so rewriting the main file from it
\* (main_rebuild) or preferring it (bak_newer) never steps back.
BackupLeads ==
  Valid(file["main"]) /\ Valid(file["bak"])
    => file["bak"].data >= file["main"].data

\* ty_flash_save is the "double backup save" of the record.  Once every save
\* has returned, and neither power nor a write failed, a file checks out and
\* holds what the callers put into g_ty_cloud_nv.
SavedRecordStored ==
  mode = "run" /\ durable > 0 /\ (\A t \in Tasks : pc[t] = "idle")
    => \E a \in Areas : Valid(file[a]) /\ file[a].data = ram.data

\* save_user_nv_flash returns: its two retry loops end whatever the file
\* system reports, or power is lost.
SaveReturns ==
  \A t \in Tasks : pc[t] = "entry" ~> pc[t] = "idle"

\* What the callers may rely on, whatever step power is lost at and however
\* often: ty_flash_save and read_user_nv_flash together are the crash-safe
\* register of NvRegister.
Register ==
  INSTANCE NvRegister WITH
    up <- (mode # "off"), cache <- ram.data, committed <- durable,
    newest <- ver, damaged <- mainErr

\* save_user_nv_flash and read_user_nv_flash implement that register: every
\* step of theirs is one of its steps or changes nothing a caller can see.
IsCrashSafeRegister == Register!Spec
=============================================================================
