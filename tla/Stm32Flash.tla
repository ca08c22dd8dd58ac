------------------------------- MODULE Stm32Flash -------------------------------
(***************************************************************************)
(* The update of the STM32: stm32/stm32_flash.cc, esp32/stm32_flash.cc and *)
(* the download of net/esp32/http_client.cc, with the serial line and the  *)
(* boot loader they use.                                                   *)
(*                                                                         *)
(* stm32ota_doUpdate starts a task that downloads a file, restarts the     *)
(* chip into its boot loader, copies the file to its flash, and restarts   *)
(* it into the firmware.  The state that refuses a second update is set by *)
(* the new task, so two tasks may run: they share the file, and the file   *)
(* descriptor of the download.  The program may be started again at any    *)
(* moment, the chip is not.                                                *)
(***************************************************************************)
EXTENDS Stm32Bootloader

CONSTANTS
  Images,      \* the files on the server: sequences of blocks
  DiskBlocks   \* the room for the file

\* What the images consist of
Contents == UNION {{img[i] : i \in DOMAIN img} : img \in Images}

ASSUME FlashConstantsOK ==
  /\ \A img \in Images : img \in Seq(Contents) /\ img # <<>>
  /\ NULL \notin Seq(Contents)
  /\ DiskBlocks \in Nat \ {0}

VARIABLES
  state,     \* stm32ota_state_T: "NONE", "RUN", "FAIL" or "DONE"
  fd         \* the descriptor of the download: NULL, or the offset it writes at

vars == <<uartVars, blVars, state, fd>>

Idle == [image |-> <<>>, received |-> 0, phase |-> "start", size |-> 0,
         written |-> <<>>, block |-> NULL, ok |-> FALSE]

---------------------------------------------------------------------------
\* stm32ota_doUpdate looks at the state and creates the task.
stm32ota_doUpdate(u) ==
  /\ up /\ pc[u] = "idle"
  /\ state # "RUN"
  /\ \E img \in Images : upd' = [upd EXCEPT ![u] = [Idle EXCEPT !.image = img]]
  /\ GoTo(u, "begin")
  /\ UNCHANGED <<up, driver, boot_pin, chip, mutexes, op, stranded, flash, file, state, fd>>

BeginUpdate(u) ==
  /\ pc[u] = "begin"
  /\ state' = "RUN"
  /\ GoTo(u, "download")
  /\ UNCHANGED <<up, driver, boot_pin, chip, mutexes, op, stranded, blVars, fd>>

\* The file after a write at an offset
Overwritten(f, offset, block) ==
  [i \in 1 .. (IF offset < Len(f) THEN Len(f) ELSE offset + 1) |->
     IF i = offset + 1 THEN block ELSE f[i]]

\* HTTP_EVENT_ON_DATA: the first data opens and truncates the file; without a
\* descriptor, or without room, the data is dropped and nobody is told.
DownloadData(u) ==
  /\ pc[u] = "download" /\ upd[u].received < Len(upd[u].image)
  /\ LET next == upd[u].received + 1
         block == upd[u].image[next]
     IN  /\ upd' = [upd EXCEPT ![u].received = next]
         /\ \/ /\ fd = NULL
               /\ \/ file' = <<block>> /\ fd' = 1
                  \/ UNCHANGED <<file, fd>>
            \/ /\ fd # NULL
               /\ IF fd < DiskBlocks
                  THEN file' = Overwritten(file, fd, block) /\ fd' = fd + 1
                  ELSE UNCHANGED <<file, fd>>
  /\ UNCHANGED <<uartVars, flash, state>>

\* HTTP_EVENT_ON_FINISH closes the file, and the update begins.
DownloadFinishes(u) ==
  /\ pc[u] = "download" /\ upd[u].received = Len(upd[u].image)
  /\ fd' = NULL
  /\ op' = [op EXCEPT ![u] = "update"]
  /\ upd' = [upd EXCEPT ![u] = Idle]
  /\ GoTo(u, "look")
  /\ UNCHANGED <<up, driver, boot_pin, chip, mutexes, stranded, flash, file, state>>

\* A bug: the state is forgotten on the way out.
DownloadFailsSilently(u) ==
  /\ pc[u] = "download"
  /\ upd' = [upd EXCEPT ![u] = Idle]
  /\ op' = [op EXCEPT ![u] = "runFirmware"]
  /\ GoTo(u, "look")
  /\ UNCHANGED <<up, driver, boot_pin, chip, mutexes, stranded, flash, file, state, fd>>

\* The request fails; a file that is open stays open.
DownloadFails(u) ==
  /\ pc[u] = "download"
  /\ state' = "FAIL"
  /\ upd' = [upd EXCEPT ![u] = Idle]
  /\ op' = [op EXCEPT ![u] = "runFirmware"]
  /\ GoTo(u, "look")
  /\ UNCHANGED <<up, driver, boot_pin, chip, mutexes, stranded, flash, file, fd>>

---------------------------------------------------------------------------
(* stm32Ota_firmwareUpdate, with both mutexes held *)

BootIntoBootLoader(u) ==
  /\ pc[u] = "locked" /\ op[u] = "update"
  /\ RestartChip(1, 3)
  /\ GoTo(u, "configBootLoader")
  /\ UNCHANGED <<up, mutexes, op, stranded, blVars, state, fd>>

ConfigBootLoader(u) ==
  /\ pc[u] = "configBootLoader"
  /\ stm32_configSerial("BOOTLOADER")
  /\ stranded' = FALSE
  /\ GoTo(u, "send")
  /\ UNCHANGED <<up, boot_pin, chip, mutexes, op, blVars, state, fd>>

\* A bug: the boot pin stays as it is.
BootAgain(u) ==
  /\ pc[u] = "leave"
  /\ RestartChip(boot_pin, 3)
  /\ upd' = [upd EXCEPT ![u] = [Idle EXCEPT !.ok = upd[u].ok]]
  /\ GoTo(u, "leaveConfig")
  /\ UNCHANGED <<up, mutexes, op, stranded, flash, file, state, fd>>

BootIntoFirmware(u) ==
  /\ pc[u] = "leave"
  /\ RestartChip(0, 3)
  /\ upd' = [upd EXCEPT ![u] = [Idle EXCEPT !.ok = upd[u].ok]]
  /\ GoTo(u, "leaveConfig")
  /\ UNCHANGED <<up, mutexes, op, stranded, flash, file, state, fd>>

EndOfUpdate(u) ==
  /\ pc[u] = "leaveConfig"
  /\ stm32_configSerial("FIRMWARE")
  /\ UnlockBoth
  /\ GoTo(u, "report")
  /\ UNCHANGED <<up, boot_pin, chip, op, stranded, blVars, state, fd>>

\* The task reports, restarts the chip once more, and is gone.
Report(u) ==
  /\ pc[u] = "report"
  /\ state' = IF upd[u].ok THEN "DONE" ELSE "FAIL"
  /\ upd' = [upd EXCEPT ![u] = Idle]
  /\ op' = [op EXCEPT ![u] = "runFirmware"]
  /\ GoTo(u, "look")
  /\ UNCHANGED <<up, driver, boot_pin, chip, mutexes, stranded, flash, file, fd>>

---------------------------------------------------------------------------
Init ==
  /\ UartInit
  /\ flash = [a \in Addresses |-> "blank"]
  /\ file = NULL
  /\ upd = [u \in Updaters |-> Idle]
  /\ state = "NONE" /\ fd = NULL

Restart ==
  /\ UartRestart
  /\ upd' = [u \in Updaters |-> Idle]
  /\ state' = "NONE" /\ fd' = NULL
  /\ UNCHANGED <<flash, file>>

Next ==
  \/ UartNext /\ UNCHANGED <<blVars, state, fd>>
  \/ (ChipAnswers \/ ChipIsSilent) /\ UNCHANGED <<state, fd>>
  \/ \E u \in Updaters :
        \/ /\ \/ SendFrame(u) \/ Acked(u) \/ NotAcked(u)
              \/ OpenFile(u) \/ ReadFile(u)
           /\ UNCHANGED <<state, fd>>
        \/ stm32ota_doUpdate(u) \/ BeginUpdate(u)
        \/ DownloadData(u) \/ DownloadFinishes(u) \/ DownloadFails(u)
        \/ BootIntoBootLoader(u) \/ ConfigBootLoader(u)
        \/ BootIntoFirmware(u) \/ EndOfUpdate(u) \/ Report(u)
  \/ Restart

Spec == Init /\ [][Next]_vars

---------------------------------------------------------------------------
(* Properties *)

Blocks == {"blank", "garbled"} \cup Contents

Steps == {"idle", "look", "wake", "lockRead", "lockWrite", "locked", "config",
          "writeLock", "writeCheck", "writeSend", "readLock", "read",
          "lineLock", "receive", "begin", "download", "configBootLoader",
          "send", "await", "open", "readFile", "leave", "leaveConfig", "report"}

\* The type of every variable; the queue and the buffer keep their bounds.
TypeOK ==
  /\ up \in BOOLEAN /\ stranded \in BOOLEAN /\ boot_pin \in {0, 1}
  /\ stm32_mode \in {"NONE", "FIRMWARE", "BOOTLOADER"}
  /\ uart0_queue # NULL => Len(uart0_queue) <= QueueLen
                           /\ \A i \in DOMAIN uart0_queue : uart0_queue[i] \in Events
  /\ Len(rx) <= RxLen /\ \A i \in DOMAIN rx : rx[i] \in Bytes
  /\ patterns \in 0 .. RxLen
  /\ chip.mode \in {"firmware", "bootloader"} /\ chip.stage \in DOMAIN Expected
  /\ stm32_read_mutex \in Tasks \cup {NULL} /\ stm32_write_mutex \in Tasks \cup {NULL}
  /\ pc \in [Tasks -> Steps]
  /\ op \in [Tasks -> {"none", "reset", "runFirmware", "update"}]
  /\ flash \in [Addresses -> Blocks]
  /\ file # NULL => Len(file) <= DiskBlocks
  /\ state \in {"NONE", "RUN", "FAIL", "DONE"}
  /\ fd \in {NULL} \cup 0 .. DiskBlocks

\* The steps of an update between its two restarts of the chip
InSession(u) == pc[u] \in {"configBootLoader", "send", "await", "open", "readFile", "leave"}

\* From the restart into the boot loader to the restart into the firmware no
\* text reaches the chip, no reader waits for a line or takes bytes away, and
\* there is no second session: the mutexes and the mode keep all of them out.
SessionIsExclusive ==
  \A u \in Updaters : InSession(u) =>
    /\ chip.mode = "bootloader" /\ ~chip.intruded
    /\ \A t \in Tasks \ {u} : ~(t \in Updaters /\ InSession(t))
                              /\ pc[t] \notin {"receive", "read", "writeSend"}

\* What stm32_read and stm32_read_line may take comes from the firmware, never
\* from the boot loader: an answer that comes late, after the task has given up,
\* is thrown away with the old driver.
TextComesFromFirmware ==
  \A t \in Tasks : pc[t] \in {"read", "receive"} =>
    stranded \/ \A i \in DOMAIN rx : rx[i] = "line"

\* When the task takes its copy of the file for complete, the chip holds all the
\* blocks that were read, each written to a page that had been erased: a late or
\* a foreign answer is never taken for the acknowledgement of another frame.
SuccessMeansWritten ==
  \A u \in Updaters : pc[u] = "leave" /\ upd[u].ok =>
    /\ Len(upd[u].written) = upd[u].size
    /\ \A i \in DOMAIN upd[u].written :
         i \in Addresses /\ flash[i] = upd[u].written[i]

\* Whenever no task holds a mutex the boot pin is low, the line is configured for
\* the firmware or not at all, and the queue is there exactly when it is
\* configured: every way out of an update leads back to the firmware.
UnlockedMeansFirmware ==
  up /\ stm32_read_mutex = NULL /\ stm32_write_mutex = NULL =>
    /\ boot_pin = 0
    /\ stm32_mode # "BOOTLOADER"
    /\ (uart0_queue # NULL) <=> (stm32_mode = "FIRMWARE")

\* Two tasks never wait for each other's mutex: whoever waits for the read mutex
\* does not hold the write mutex.
WantsRead(t)  == pc[t] \in {"lockRead", "readLock", "lineLock"}
WantsWrite(t) == pc[t] \in {"lockWrite", "writeLock"}

LocksCannotDeadlock ==
  \A s, t \in Tasks : ~ /\ stm32_read_mutex = s /\ WantsWrite(s)
                        /\ stm32_write_mutex = t /\ WantsRead(t)

\* The state says RUN only while some task is on its way to a report: an update
\* that failed never locks out the next one.
RunMeansRunning ==
  state = "RUN" =>
    \E u \in Updaters :
      \/ pc[u] \in {"download", "report"} \/ InSession(u) \/ pc[u] = "leaveConfig"
      \/ op[u] = "update" /\ pc[u] \in {"look", "wake", "lockRead", "lockWrite", "locked"}

\* stm32_ota.h: "update the STM32 firmware from a FILE".  When the state says that
\* an update is done, the chip holds some image of the server.
DoneMeansUpdated ==
  state = "DONE" =>
    \E img \in Images : \A i \in DOMAIN img : i \in Addresses /\ flash[i] = img[i]

\* stm32.h: "Check if the STM32 is currently running the firmware".  The answer is
\* stm32_mode = FIRMWARE; with no restart going on the chip should agree.
stm32_isFirmwareRunning == stm32_mode = "FIRMWARE"

FirmwareIsRunning ==
  stm32_read_mutex = NULL /\ stm32_write_mutex = NULL /\ stm32_isFirmwareRunning
    => chip.mode = "firmware"
===============================================================================
