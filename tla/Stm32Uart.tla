------------------------------- MODULE Stm32Uart -------------------------------
(***************************************************************************)
(* The serial line to the STM32: stm32/esp32/stm32_uart.cc behind the      *)
(* thread-safe wrapper of stm32_uart_ts.hh.                                *)
(*                                                                         *)
(* Any task may write to the chip, read from it, or restart it.  Two       *)
(* recursive mutexes keep the tasks apart; only the outermost lock of a    *)
(* task is a step here, the locks it takes again inside are not.  A reader *)
(* waits for a line with the read mutex held, so that a task which needs   *)
(* both mutexes first posts a wake-up event to the queue of the driver,    *)
(* and that queue exists only while the driver is configured for the       *)
(* firmware.  The operations that hold both mutexes are completed in the   *)
(* modules that extend this one.                                           *)
(***************************************************************************)
EXTENDS Naturals, Sequences

CONSTANTS
  Readers,      \* tasks that wait for lines
  Apps,         \* tasks that write, read and restart the chip
  Updaters,     \* tasks that flash the chip
  NULL,         \* the null pointer, no task, nothing
  QueueLen,     \* PATTERN_NUM_MAX, the length of the event queue
  RxLen         \* the receive buffer of the driver, in lines

Tasks  == Readers \cup Apps \cup Updaters
Events == {"wake", "other", "overflow", "full", "line"}
Bytes  == {"line", "ack", "nack"}

ASSUME UartConstantsOK ==
  /\ (Readers \cup Apps) \cap Updaters = {}
  /\ NULL \notin Tasks /\ NULL \notin Seq(Events)
  /\ QueueLen \in Nat \ {0} /\ RxLen \in Nat \ {0}

VARIABLES
  up,                 \* stm32_setup has run since the program started
  stm32_mode,         \* "NONE", "FIRMWARE" or "BOOTLOADER"
  uart0_queue,        \* the pointer: NULL, or the events in the queue
  rx, patterns,       \* the driver: what it has received, line ends it has noted
  boot_pin,           \* the level of the boot pin, 0 for firmware
  chip,               \* the STM32
  stm32_read_mutex,   \* the task that holds it, or NULL
  stm32_write_mutex,
  pc, op,             \* per task: the step it is at, the operation it runs
  stranded            \* History: the program was started again while the chip ran its
                      \* boot loader, and nobody has restarted the chip into it since

driver  == <<stm32_mode, uart0_queue, rx, patterns>>
mutexes == <<stm32_read_mutex, stm32_write_mutex>>
uartVars == <<up, driver, boot_pin, chip, mutexes, pc, op, stranded>>

GoTo(t, step) == pc' = [pc EXCEPT ![t] = step]
Return(t)     == GoTo(t, "idle") /\ op' = [op EXCEPT ![t] = "none"]

---------------------------------------------------------------------------
(* The external parts: the driver and the chip. *)

\* The queue after n more events of this kind: what does not fit is dropped.
Posted(event, n) ==
  IF uart0_queue = NULL THEN NULL
  ELSE LET room == QueueLen - Len(uart0_queue)
       IN  uart0_queue \o [i \in 1 .. (IF n < room THEN n ELSE room) |-> event]

\* The firmware sends a line of text: its end is noted, and the driver posts an
\* event, unless the buffer is full.
ChipSendsLine ==
  /\ chip.mode = "firmware" /\ stm32_mode # "NONE"
  /\ IF Len(rx) < RxLen
     THEN /\ rx' = Append(rx, "line")
          /\ patterns' = IF stm32_mode = "FIRMWARE" THEN patterns + 1 ELSE patterns
          /\ uart0_queue' = Posted("line", 1)
     ELSE /\ \E event \in {"overflow", "full"} : uart0_queue' = Posted(event, 1)
          /\ UNCHANGED <<rx, patterns>>
  /\ UNCHANGED <<up, stm32_mode, boot_pin, chip, mutexes, pc, op, stranded>>

\* A part of a line, a break, a parity or a frame error
ChipSendsOther ==
  /\ chip.mode = "firmware" /\ uart0_queue # NULL
  /\ uart0_queue' = Posted("other", 1)
  /\ UNCHANGED <<up, stm32_mode, rx, patterns, boot_pin, chip, mutexes, pc, op, stranded>>

\* Text reaches the chip.  The boot loader takes it for commands.
ChipGetsText ==
  chip' = IF chip.mode = "bootloader" THEN [chip EXCEPT !.intruded = TRUE] ELSE chip

\* The reset pin goes down and up: the boot pin decides what is started.
ChipAfterReset(level) ==
  [chip EXCEPT !.mode = IF level = 1 THEN "bootloader" ELSE "firmware",
               !.stage = "off", !.in = NULL, !.intruded = FALSE]

\* What a reader takes out of the driver, or throws away
TakeNothing == UNCHANGED <<rx, patterns>>
TakeAll     == rx' = <<>> /\ patterns' = 0
TakeLine    == rx' = Tail(rx) /\ patterns' = patterns - 1

---------------------------------------------------------------------------
(* The lock guards *)

\* WakeUpLockGuard(stm32_read_mutex) is three steps: it looks at the pointer
\* to the queue, posts the event, and waits for the mutex.
LookAtQueue(t) ==
  /\ pc[t] = "look"
  /\ GoTo(t, IF uart0_queue = NULL THEN "lockRead" ELSE "wake")
  /\ UNCHANGED <<up, driver, boot_pin, chip, mutexes, op, stranded>>

WakeUpQueue(t) ==
  /\ pc[t] = "wake" /\ uart0_queue # NULL
  /\ uart0_queue' = Posted("wake", 1)
  /\ GoTo(t, "lockRead")
  /\ UNCHANGED <<up, stm32_mode, rx, patterns, boot_pin, chip, mutexes, op, stranded>>

\* The guard for the write mutex of an update wakes the queue once more.
LockRead(t) ==
  /\ pc[t] = "lockRead" /\ stm32_read_mutex = NULL
  /\ stm32_read_mutex' = t
  /\ uart0_queue' = IF op[t] = "update" THEN Posted("wake", 1) ELSE uart0_queue
  /\ GoTo(t, "lockWrite")
  /\ UNCHANGED <<up, stm32_mode, rx, patterns, boot_pin, chip, stm32_write_mutex,
                 op, stranded>>

\* A bug: the guard for the write mutex is missing.
LockWriteWithoutGuard(t) ==
  /\ pc[t] = "lockWrite"
  /\ GoTo(t, "locked")
  /\ UNCHANGED <<up, driver, boot_pin, chip, mutexes, op, stranded>>

LockWrite(t) ==
  /\ pc[t] = "lockWrite" /\ stm32_write_mutex = NULL
  /\ stm32_write_mutex' = t
  /\ GoTo(t, "locked")
  /\ UNCHANGED <<up, driver, boot_pin, chip, stm32_read_mutex, op, stranded>>

UnlockBoth == stm32_read_mutex' = NULL /\ stm32_write_mutex' = NULL

---------------------------------------------------------------------------
(* Operations with both mutexes held *)

\* The boot pin and stm32_reset.  The guards inside wake the queue again.
RestartChip(level, wakeups) ==
  /\ boot_pin' = level
  /\ chip' = ChipAfterReset(level)
  /\ uart0_queue' = Posted("wake", wakeups)
  /\ UNCHANGED <<stm32_mode, rx, patterns>>

\* stm32_configSerial: the old driver is deleted, the new one may fail.
Installed(mode) ==
  /\ stm32_mode' = mode
  /\ uart0_queue' = IF mode = "FIRMWARE" THEN <<>> ELSE NULL
  /\ rx' = <<>> /\ patterns' = 0

stm32_configSerial(mode) ==
  IF mode = stm32_mode THEN UNCHANGED driver
  ELSE Installed(mode) \/ Installed("NONE")

\* stm32_setup, called by the program before its tasks run.
stm32_setup ==
  /\ ~up /\ up' = TRUE
  /\ boot_pin' = 0
  /\ stm32_configSerial("FIRMWARE")
  /\ UNCHANGED <<chip, mutexes, pc, op, stranded>>

\* stm32_reset() on its own
stm32_reset(t) ==
  /\ pc[t] = "locked" /\ op[t] = "reset"
  /\ RestartChip(boot_pin, 0)
  /\ UnlockBoth
  /\ Return(t)
  /\ UNCHANGED <<up, stranded>>

\* stm32_runFirmware(): restart, then configure.
RunFirmwareRestart(t) ==
  /\ pc[t] = "locked" /\ op[t] = "runFirmware"
  /\ RestartChip(0, 2)
  /\ GoTo(t, "config")
  /\ UNCHANGED <<up, mutexes, op, stranded>>

RunFirmwareConfig(t) ==
  /\ pc[t] = "config"
  /\ stm32_configSerial("FIRMWARE")
  /\ UnlockBoth
  /\ Return(t)
  /\ UNCHANGED <<up, boot_pin, chip, stranded>>

---------------------------------------------------------------------------
(* Calls of a task that restarts the chip, writes or reads *)

Call(t, operation, step) ==
  /\ up /\ pc[t] = "idle"
  /\ op' = [op EXCEPT ![t] = operation]
  /\ GoTo(t, step)
  /\ UNCHANGED <<up, driver, boot_pin, chip, mutexes, stranded>>

AppCalls(a) ==
  \/ Call(a, "reset", "look")
  \/ Call(a, "runFirmware", "look")
  \/ Call(a, "none", "writeLock")
  \/ Call(a, "none", "readLock")

\* stm32_write: lock, look at the mode, send.
WriteLock(a) ==
  /\ pc[a] = "writeLock" /\ stm32_write_mutex = NULL
  /\ stm32_write_mutex' = a
  /\ GoTo(a, "writeCheck")
  /\ UNCHANGED <<up, driver, boot_pin, chip, stm32_read_mutex, op, stranded>>

WriteCheck(a) ==
  /\ pc[a] = "writeCheck"
  /\ IF stm32_mode = "FIRMWARE"
     THEN GoTo(a, "writeSend") /\ UNCHANGED stm32_write_mutex
     ELSE GoTo(a, "idle") /\ stm32_write_mutex' = NULL
  /\ UNCHANGED <<up, driver, boot_pin, chip, stm32_read_mutex, op, stranded>>

\* A bug: the answer is read before the write mutex is given back.
WriteSendAndRead(a) ==
  /\ pc[a] = "writeSend"
  /\ ChipGetsText
  /\ GoTo(a, "readLock")
  /\ UNCHANGED <<up, driver, boot_pin, mutexes, op, stranded>>

WriteSend(a) ==
  /\ pc[a] = "writeSend"
  /\ ChipGetsText
  /\ stm32_write_mutex' = NULL
  /\ GoTo(a, "idle")
  /\ UNCHANGED <<up, driver, boot_pin, stm32_read_mutex, op, stranded>>

\* A bug: the guard is missing.
ReadWithoutLock(a) ==
  /\ pc[a] = "readLock"
  /\ GoTo(a, IF stm32_mode = "FIRMWARE" THEN "read" ELSE "idle")
  /\ UNCHANGED <<up, driver, boot_pin, chip, mutexes, op, stranded>>

\* stm32_read and stm32_getc: lock, look at the mode, take what is there.
ReadLock(a) ==
  /\ pc[a] = "readLock" /\ stm32_read_mutex = NULL
  /\ IF stm32_mode = "FIRMWARE"
     THEN GoTo(a, "read") /\ stm32_read_mutex' = a
     ELSE GoTo(a, "idle") /\ UNCHANGED stm32_read_mutex
  /\ UNCHANGED <<up, driver, boot_pin, chip, stm32_write_mutex, op, stranded>>

ReadBytes(a) ==
  /\ pc[a] = "read"
  /\ TakeAll
  /\ stm32_read_mutex' = NULL
  /\ GoTo(a, "idle")
  /\ UNCHANGED <<up, stm32_mode, uart0_queue, boot_pin, chip, stm32_write_mutex, op,
                 stranded>>

---------------------------------------------------------------------------
(* stm32_read_line, called again and again by a reader *)

\* The pointer is looked at before the mutex is taken.
ReadLineLook(r) ==
  /\ up /\ pc[r] = "idle" /\ uart0_queue # NULL
  /\ GoTo(r, "lineLock")
  /\ UNCHANGED <<up, driver, boot_pin, chip, mutexes, op, stranded>>

ReadLineLock(r) ==
  /\ pc[r] = "lineLock" /\ stm32_read_mutex = NULL
  /\ stm32_read_mutex' = r
  /\ GoTo(r, "receive")
  /\ UNCHANGED <<up, driver, boot_pin, chip, stm32_write_mutex, op, stranded>>

\* One event, or none within a second; then the mutex is given back and the
\* loop looks at the pointer again, or the caller calls again.
Receive(r) ==
  /\ pc[r] = "receive" /\ uart0_queue # NULL
  /\ IF uart0_queue = <<>>
     THEN UNCHANGED <<uart0_queue, rx, patterns>>
     ELSE LET event == Head(uart0_queue) IN
          /\ uart0_queue' = IF event \in {"overflow", "full"} THEN <<>>
                            ELSE Tail(uart0_queue)
          /\ CASE event \in {"overflow", "full"} -> TakeAll
               [] event = "line" -> IF patterns = 0 THEN TakeAll ELSE TakeLine
               [] OTHER          -> TakeNothing
  /\ stm32_read_mutex' = NULL
  /\ GoTo(r, "idle")
  /\ UNCHANGED <<up, stm32_mode, boot_pin, chip, stm32_write_mutex, op, stranded>>

---------------------------------------------------------------------------
UartInit ==
  /\ up = FALSE
  /\ stm32_mode = "NONE" /\ uart0_queue = NULL /\ rx = <<>> /\ patterns = 0
  /\ boot_pin = 0
  /\ chip = [mode |-> "firmware", stage |-> "off", in |-> NULL, at |-> 0,
             intruded |-> FALSE]
  /\ stm32_read_mutex = NULL /\ stm32_write_mutex = NULL
  /\ pc = [t \in Tasks |-> "idle"] /\ op = [t \in Tasks |-> "none"]
  /\ stranded = FALSE

UartNext ==
  \/ ChipSendsLine \/ ChipSendsOther \/ stm32_setup
  \/ \E t \in Apps \cup Updaters :
        \/ LookAtQueue(t) \/ WakeUpQueue(t) \/ LockRead(t) \/ LockWrite(t)
        \/ stm32_reset(t) \/ RunFirmwareRestart(t) \/ RunFirmwareConfig(t)
  \/ \E a \in Apps : \/ AppCalls(a) \/ WriteLock(a) \/ WriteCheck(a) \/ WriteSend(a)
                     \/ ReadLock(a) \/ ReadBytes(a)
  \/ \E r \in Readers : ReadLineLook(r) \/ ReadLineLock(r) \/ Receive(r)

\* The program is started again: after a power cut, or because the queue was
\* used through a null pointer or after its deletion.  The chip runs on.
UartRestart ==
  /\ up /\ up' = FALSE
  /\ stm32_mode' = "NONE" /\ uart0_queue' = NULL /\ rx' = <<>> /\ patterns' = 0
  /\ UnlockBoth
  /\ pc' = [t \in Tasks |-> "idle"] /\ op' = [t \in Tasks |-> "none"]
  /\ stranded' = (stranded \/ chip.mode = "bootloader")
  /\ UNCHANGED <<boot_pin, chip>>
===============================================================================
