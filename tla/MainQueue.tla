------------------------------- MODULE MainQueue -------------------------------
(***************************************************************************)
(* The queue of function calls of main_loop/esp32/main_queue.cc.           *)
(*                                                                         *)
(* Tasks, interrupts and timers have functions called from the main task:  *)
(* they send a function pointer to a bounded queue and set an event bit;   *)
(* the main task waits for the bit (clearing it) and then calls            *)
(* mainLoop_processMessages(), which calls functions until the queue is    *)
(* empty.  A function may itself send, start timers and stop them.         *)
(*                                                                         *)
(* Timers belong to the timer service task of FreeRTOS: starting, stopping *)
(* and deleting one, and setting an event bit from an interrupt, are       *)
(* commands in a bounded queue of that task, and the timer's call-back     *)
(* runs in it.                                                             *)
(***************************************************************************)
EXTENDS Naturals, Sequences, FiniteSets

CONSTANTS
  Tasks,       \* tasks that call into the module, Main not among them
  Main,        \* the main task
  Daemon,      \* the timer service task
  Isr,         \* the interrupt handlers
  Timers,      \* the timers that may be created
  NoArg,       \* a task that is in no call
  Length,      \* queue_length of mainLoop_setup
  CmdLength,   \* configTIMER_QUEUE_LENGTH
  MaxPosts     \* bound: per sender, the functions it sends in a behaviour

Senders == Tasks \cup {Main, Isr} \cup Timers
Callers == Tasks \cup {Main, Daemon}

\* A function pointer on its way to the main task, told apart by who sent it.
Calls == UNION {{s} \X (1 .. MaxPosts[s]) : s \in Senders}

ASSUME ConstantsOK ==
  /\ Length \in Nat \ {0} /\ CmdLength \in Nat \ {0} /\ MaxPosts \in [Senders -> Nat]
  /\ {Main, Daemon, Isr} \cap (Tasks \cup Timers) = {}
  /\ Tasks \cap Timers = {}
  /\ Main # Daemon /\ Main # Isr /\ Daemon # Isr
  /\ NoArg \notin Calls \cup Timers

VARIABLES
  queue,      \* mainLoop_msgQueue
  bit,        \* mainLoop_eventBits in mainLoop_eventGroup
  cmds,       \* the command queue of the timer service task
  timer,      \* per timer: what the timer service knows of it
  periodic,   \* per timer: auto-reload
  op, arg,    \* per caller: the step of its call into the module
  main,       \* the main task: waiting, in processMessages or in a function
  \* History, for the properties alone:
  posts,      \* per sender: how many functions it has sent
  done,       \* the calls the main task has made
  accepted,   \* the calls for which the sender was told "true"
  refused,    \* the calls for which the sender was told "false"
  stopped     \* the timers for which mainLoop_stopFun returned "true"

sends   == <<posts, accepted, refused>>
timing  == <<cmds, timer, periodic, stopped>>
vars    == <<queue, bit, timing, op, arg, main, sends, done>>

--------------------------------------------------------------------------------
(* A call into the module *)

\* The main task calls from the functions it runs, the timer service from
\* the call-backs of the timers only.
MayCall(t) == op[t] = "idle" /\ (t \in Tasks \/ (t = Main /\ main = "run"))

Enter(t, step, x) ==
  /\ op' = [op EXCEPT ![t] = step]
  /\ arg' = [arg EXCEPT ![t] = x]

Leave(t) ==
  /\ op' = [op EXCEPT ![t] = "idle"]
  /\ arg' = [arg EXCEPT ![t] = NoArg]

\* The next function of this sender.
Post(s) == posts' = [posts EXCEPT ![s] = @ + 1]
NextCall(s) == <<s, posts[s] + 1>>

--------------------------------------------------------------------------------
(* mainLoop_callFun *)

CallFun(t) ==
  /\ MayCall(t)
  /\ posts[t] < MaxPosts[t]
  /\ Post(t)
  /\ Enter(t, "send", NextCall(t))
  /\ UNCHANGED <<queue, bit, timing, main, accepted, refused, done>>

\* A bug: the message overtakes the ones that are waiting.
SendToFront(t) ==
  /\ op[t] = "send"
  /\ Len(queue) < Length
  /\ queue' = <<arg[t]>> \o queue
  /\ Enter(t, "signal", arg[t])
  /\ UNCHANGED <<bit, timing, main, sends, done>>

\* xQueueSend: to the back.
Send(t) ==
  /\ op[t] = "send"
  /\ Len(queue) < Length
  /\ queue' = Append(queue, arg[t])
  /\ Enter(t, "signal", arg[t])
  /\ UNCHANGED <<bit, timing, main, sends, done>>

\* A bug: portMAX_DELAY, the caller waits for ever.
SendNeverTimesOut(t) ==
  /\ op[t] = "send"
  /\ Len(queue) > Length
  /\ Leave(t)
  /\ UNCHANGED <<queue, bit, timing, main, sends, done>>

\* The queue has been full for ten ticks: mainLoop_callFun returns false.
SendTimesOut(t) ==
  /\ op[t] = "send"
  /\ Len(queue) >= Length
  /\ refused' = refused \cup {arg[t]}
  /\ Leave(t)
  /\ UNCHANGED <<queue, bit, timing, main, posts, accepted, done>>

\* xEventGroupSetBits: a main task that waits is given the bit and clears it in
\* the same step; otherwise the bit stays set.
SetBit ==
  IF main = "wait" THEN main' = "process" /\ UNCHANGED bit
                   ELSE bit' = TRUE /\ UNCHANGED main

Signal(t) ==
  /\ op[t] = "signal"
  /\ SetBit
  /\ Enter(t, "result", arg[t])
  /\ UNCHANGED <<queue, timing, sends, done>>

\* xEventGroupSetBits returns the bits as they are when it returns, and zero is
\* taken for a failure.
Result(t) ==
  /\ op[t] = "result"
  /\ accepted' = IF bit THEN accepted \cup {arg[t]} ELSE accepted
  /\ refused' = IF bit THEN refused ELSE refused \cup {arg[t]}
  /\ Leave(t)
  /\ UNCHANGED <<queue, bit, timing, main, posts, done>>

--------------------------------------------------------------------------------
(* mainLoop_callFun_fromISR: no task runs meanwhile *)

\* A bug: the result of xQueueSendToFrontFromISR is not looked at.
CallFunFromIsrUnchecked ==
  /\ posts[Isr] < MaxPosts[Isr]
  /\ Post(Isr)
  /\ queue' = IF Len(queue) < Length THEN <<NextCall(Isr)>> \o queue ELSE queue
  /\ Len(cmds) < CmdLength
  /\ cmds' = Append(cmds, <<"bits", NoArg>>)
  /\ accepted' = accepted \cup {NextCall(Isr)}
  /\ UNCHANGED <<bit, timer, periodic, stopped, op, arg, main, refused, done>>

\* To the front of the queue.  The bit is set by the timer service task, on a
\* command that is lost when its queue is full: false, but the message is sent.
CallFunFromIsr ==
  /\ posts[Isr] < MaxPosts[Isr]
  /\ Post(Isr)
  /\ LET x == NextCall(Isr)
         signalled == Len(queue) < Length /\ Len(cmds) < CmdLength
     IN  /\ queue' = IF Len(queue) < Length THEN <<x>> \o queue ELSE queue
         /\ cmds' = IF signalled THEN Append(cmds, <<"bits", NoArg>>) ELSE cmds
         /\ accepted' = IF signalled THEN accepted \cup {x} ELSE accepted
         /\ refused' = IF signalled THEN refused ELSE refused \cup {x}
  /\ UNCHANGED <<bit, timer, periodic, stopped, op, arg, main, done>>

--------------------------------------------------------------------------------
(* mainLoop_callFunByTimer and mainLoop_stopFun *)

\* A bug: xTimerStart is called on the null pointer of a failed xTimerCreate.
CallFunByTimerUnchecked(t) ==
  /\ MayCall(t)
  /\ Enter(t, "start", NoArg)
  /\ UNCHANGED <<queue, bit, timing, main, sends, done>>

\* xTimerCreate; the start command follows.  (When it fails the call returns a
\* null pointer and nothing has changed.)
CallFunByTimer(t) ==
  /\ MayCall(t)
  /\ \E tm \in Timers :
       /\ timer[tm] = "none"
       /\ timer' = [timer EXCEPT ![tm] = "dormant"]
       /\ \E reload \in BOOLEAN : periodic' = [periodic EXCEPT ![tm] = reload]
       /\ Enter(t, "start", tm)
  /\ UNCHANGED <<queue, bit, cmds, stopped, main, sends, done>>

\* The caller has the handle of a timer that mainLoop_callFunByTimer returned,
\* and hands it over once.
Handed(tm) ==
  /\ timer[tm] \in {"dormant", "active"}
  /\ tm \notin stopped
  /\ \A t \in Callers : arg[t] # tm

StopFun(t) ==
  /\ MayCall(t)
  /\ \E tm \in Timers : Handed(tm) /\ Enter(t, "stop", tm)
  /\ UNCHANGED <<queue, bit, timing, main, sends, done>>

\* A bug: the timer is deleted first and then stopped.
DeleteThenStop(t) ==
  \/ /\ op[t] \in {"stop", "delete"}
     /\ Enter(t, IF op[t] = "stop" THEN "delete" ELSE "stop", arg[t])
     /\ UNCHANGED stopped
  \/ Leave(t) /\ stopped' = stopped \cup ({arg[t]} \cap {x \in Timers : op[t] # "start"})

\* What the call goes on with once its command has been queued: mainLoop_stopFun
\* may stop at the stop command or have the timer deleted as well.
Commanded(t) ==
  \/ op[t] = "stop" /\ Enter(t, "delete", arg[t]) /\ UNCHANGED stopped
  \/ /\ Leave(t)
     /\ stopped' = IF op[t] = "start" THEN stopped ELSE stopped \cup {arg[t]}

Command(t) ==
  /\ op[t] \in {"start", "stop", "delete"}
  /\ Len(cmds) < CmdLength
  /\ cmds' = Append(cmds, <<op[t], arg[t]>>)
  /\ Commanded(t)
  /\ UNCHANGED <<queue, bit, timer, periodic, main, sends, done>>

\* A bug: the result of xTimerStop is not looked at.
CommandUnchecked(t) ==
  /\ op[t] \in {"start", "stop", "delete"}
  /\ Len(cmds) >= CmdLength
  /\ Commanded(t)
  /\ UNCHANGED <<queue, bit, cmds, timer, periodic, main, sends, done>>

\* The command queue has been full for ten ticks: false, or a null pointer while
\* the timer that was created stays behind.
CommandTimesOut(t) ==
  /\ op[t] \in {"start", "stop", "delete"}
  /\ Len(cmds) >= CmdLength
  /\ timer' = IF op[t] = "start" THEN [timer EXCEPT ![arg[t]] = "lost"] ELSE timer
  /\ Leave(t)
  /\ UNCHANGED <<queue, bit, cmds, periodic, stopped, main, sends, done>>

--------------------------------------------------------------------------------
(* The timer service task *)

DaemonIdle == op[Daemon] = "idle"

NewState(command) ==
  CASE command = "start"  -> "active"
    [] command = "stop"   -> "dormant"
    [] command = "delete" -> "deleted"

DaemonCommand ==
  /\ DaemonIdle
  /\ cmds # <<>>
  /\ cmds' = Tail(cmds)
  /\ LET command == Head(cmds)[1]  tm == Head(cmds)[2]
     IN  IF command = "bits"
         THEN SetBit /\ UNCHANGED timer
         ELSE timer' = [timer EXCEPT ![tm] = NewState(command)] /\ UNCHANGED <<bit, main>>
  /\ UNCHANGED <<queue, periodic, stopped, op, arg, sends, done>>

\* The call-back of a timer calls mainLoop_callFun and ignores its result.
Expire(tm) ==
  /\ DaemonIdle
  /\ timer[tm] = "active"
  /\ posts[tm] < MaxPosts[tm]
  /\ Post(tm)
  /\ timer' = [timer EXCEPT ![tm] = IF periodic[tm] THEN "active" ELSE "dormant"]
  /\ Enter(Daemon, "send", NextCall(tm))
  /\ UNCHANGED <<queue, bit, cmds, periodic, stopped, main, accepted, refused, done>>

--------------------------------------------------------------------------------
(* The main task *)

\* xEventGroupWaitBits with clear-on-exit, before it blocks.
TakeBit ==
  /\ main = "wait"
  /\ bit
  /\ bit' = FALSE
  /\ main' = "process"
  /\ UNCHANGED <<queue, timing, op, arg, sends, done>>

\* mainLoop_processMessages(0): receive and call.
Receive ==
  /\ main = "process"
  /\ queue # <<>>
  /\ queue' = Tail(queue)
  /\ done' = done \cup {Head(queue)}
  /\ main' = "run"
  /\ UNCHANGED <<bit, timing, op, arg, sends>>

\* The function returns.
RunReturns ==
  /\ main = "run"
  /\ op[Main] = "idle"
  /\ main' = "process"
  /\ UNCHANGED <<queue, bit, timing, op, arg, sends, done>>

\* A bug: the loop ends before the queue is empty.
DrainedEarly ==
  /\ main = "process"
  /\ main' = "wait"
  /\ UNCHANGED <<queue, bit, timing, op, arg, sends, done>>

\* mainLoop_processMessages returns on an empty queue.
Drained ==
  /\ main = "process"
  /\ queue = <<>>
  /\ main' = "wait"
  /\ UNCHANGED <<queue, bit, timing, op, arg, sends, done>>

--------------------------------------------------------------------------------

Init ==
  /\ queue = <<>> /\ bit = FALSE
  /\ cmds = <<>>
  /\ timer = [tm \in Timers |-> "none"]
  /\ periodic = [tm \in Timers |-> FALSE]
  /\ stopped = {}
  /\ op = [t \in Callers |-> "idle"]
  /\ arg = [t \in Callers |-> NoArg]
  /\ main = "wait"
  /\ posts = [s \in Senders |-> 0]
  /\ accepted = {} /\ refused = {} /\ done = {}

InCall(t) ==
  \/ Send(t) \/ SendTimesOut(t) \/ Signal(t) \/ Result(t)
  \/ Command(t) \/ CommandTimesOut(t)

Caller(t) == CallFun(t) \/ CallFunByTimer(t) \/ StopFun(t) \/ InCall(t)

Next ==
  \/ \E t \in Callers : Caller(t)
  \/ CallFunFromIsr
  \/ DaemonCommand
  \/ \E tm \in Timers : Expire(tm)
  \/ TakeBit \/ Receive \/ RunReturns \/ Drained

Spec == Init /\ [][Next]_vars

\* Every task keeps running: a call into the module goes on or times out, the
\* timer service takes its commands, the main task runs its loop.  A function makes
\* finitely many calls and returns.  No sender has to send and no timer has to
\* expire.
Fairness ==
  /\ \A t \in Callers : WF_vars(InCall(t))
  /\ WF_vars(DaemonCommand)
  /\ WF_vars(TakeBit \/ Receive \/ Drained)
  /\ SF_vars(RunReturns)

FairSpec == Spec /\ Fairness

--------------------------------------------------------------------------------
(* Properties *)

Commands == {<<"bits", NoArg>>} \cup ({"start", "stop", "delete"} \X Timers)

\* Every variable has its type: the queues keep their bounds, and a caller holds
\* what the step it is at needs.
TypeOK ==
  /\ queue \in Seq(Calls) /\ Len(queue) <= Length
  /\ cmds \in Seq(Commands) /\ Len(cmds) <= CmdLength
  /\ bit \in BOOLEAN
  /\ timer \in [Timers -> {"none", "dormant", "active", "deleted", "lost"}]
  /\ periodic \in [Timers -> BOOLEAN]
  /\ op \in [Callers -> {"idle", "send", "signal", "result", "start", "stop", "delete"}]
  /\ arg \in [Callers -> Calls \cup Timers \cup {NoArg}]
  /\ \A t \in Callers :
       /\ op[t] \in {"send", "signal", "result"} => arg[t] \in Calls
       /\ op[t] \in {"start", "stop", "delete"} => arg[t] \in Timers
  /\ main \in {"wait", "process", "run"}
  /\ op[Main] # "idle" => main = "run"
  /\ posts \in [Senders -> Nat] /\ \A s \in Senders : posts[s] <= MaxPosts[s]
  /\ done \subseteq Calls /\ accepted \subseteq Calls /\ refused \subseteq Calls
  /\ stopped \subseteq Timers

\* The functions one task, one timer or the main task sends are called in the order
\* they were sent and none is called twice, although interrupts put theirs in
\* front of the queue.
InOrder ==
  \A i \in 1 .. Len(queue) : queue[i][1] # Isr =>
    /\ \A j \in 1 .. Len(queue) : i < j /\ queue[j][1] = queue[i][1] =>
         queue[i][2] < queue[j][2]
    /\ \A x \in done : x[1] = queue[i][1] => x[2] < queue[i][2]

\* The timer service never gets a command for a timer it has deleted, whichever
\* commands time out: mainLoop_stopFun queues the stop before the delete, and a
\* handle is dead once its delete command is queued.
NoCommandAfterDelete ==
  \A i \in 1 .. Len(cmds) : cmds[i][1] # "bits" =>
    /\ timer[cmds[i][2]] \notin {"none", "lost", "deleted"}
    /\ \A j \in 1 .. Len(cmds) : j < i /\ cmds[j][1] = "delete" => cmds[j][2] # cmds[i][2]

\* When mainLoop_stopFun has returned true the timer is stopped, or the command that
\* stops it is in the timer service's queue with none behind it that starts the
\* timer again: it may expire until that command is read and never after.
StopIsFinal ==
  \A tm \in stopped : timer[tm] = "active" \/ (\E i \in 1 .. Len(cmds) : cmds[i] = <<"start", tm>>) =>
    \E i \in 1 .. Len(cmds) :
      /\ cmds[i][1] \in {"stop", "delete"} /\ cmds[i][2] = tm
      /\ \A j \in i .. Len(cmds) : cmds[j] # <<"start", tm>>

\* Somebody is about to set the bit.
SignalPending ==
  \/ \E t \in Callers : op[t] = "signal"
  \/ \E i \in 1 .. Len(cmds) : cmds[i] = <<"bits", NoArg>>

\* The main task does not sleep on a queue that holds a function, unless the sender
\* of each one was told "false": the bit is set, or is going to be.
NoLostWakeup ==
  main = "wait" /\ ~bit /\ ~SignalPending =>
    \A i \in 1 .. Len(queue) : queue[i] \in refused

\* A function is called if the sender was told "true": it does not lie in the queue
\* until another sender happens to wake the main task.
AcceptedIsCalled ==
  \A x \in Calls : x \in accepted ~> x \in done

\* No call into the module blocks for good, not even the main task's own on a queue
\* that only the main task empties, while the timer service waits for room in
\* that queue and the main task for room in the timer service's.
CallsReturn ==
  \A t \in Callers : op[t] # "idle" ~> op[t] = "idle"

\* "\return success" (main_queue.hh): a function for which mainLoop_callFun returned
\* false is not called.
FailureMeansNotSent ==
  \A x \in refused : x \notin done /\ \A i \in 1 .. Len(queue) : queue[i] # x
================================================================================
