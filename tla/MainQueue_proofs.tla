---------------------------- MODULE MainQueue_proofs ----------------------------
(* Theorems about the main loop's queue, for queues of every length and any     *)
(* number of tasks, timers and functions sent.                                  *)
EXTENDS MainQueue, TLAPS, SequenceTheorems

--------------------------------------------------------------------------------
(* Sequences as queues *)

\* What Append does to the elements of a queue.
LEMMA AppendElements ==
  ASSUME NEW T, NEW s \in Seq(T), NEW x \in T
  PROVE  /\ Append(s, x) \in Seq(T)
         /\ Len(Append(s, x)) = Len(s) + 1
         /\ \A i \in 1 .. Len(s) : Append(s, x)[i] = s[i]
         /\ Append(s, x)[Len(s) + 1] = x
  OBVIOUS

\* What Tail does to the elements of a queue.
LEMMA TailElements ==
  ASSUME NEW T, NEW s \in Seq(T), s # <<>>
  PROVE  /\ Tail(s) \in Seq(T)
         /\ Len(s) \in Nat \ {0} /\ Len(Tail(s)) = Len(s) - 1
         /\ Head(s) \in T /\ Head(s) = s[1]
         /\ \A i \in 1 .. Len(s) - 1 : Tail(s)[i] = s[i + 1] /\ i + 1 \in 2 .. Len(s)
<1>1. Len(s) \in Nat \ {0}
  BY EmptySeq
<1>2. /\ Tail(s) \in Seq(T) /\ Len(Tail(s)) = Len(s) - 1 /\ Head(s) \in T
      /\ \A i \in 1 .. Len(Tail(s)) : Tail(s)[i] = s[i + 1]
  BY HeadTailProperties
<1>3. Head(s) = s[1]
  OBVIOUS
<1> QED
  BY <1>1, <1>2, <1>3

\* What putting a message in front does to the elements of a queue.
LEMMA PushElements ==
  ASSUME NEW T, NEW s \in Seq(T), NEW x \in T
  PROVE  /\ <<x>> \o s \in Seq(T)
         /\ Len(<<x>> \o s) = Len(s) + 1
         /\ (<<x>> \o s)[1] = x
         /\ \A i \in 1 .. Len(s) + 1 : i # 1 => i - 1 \in 1 .. Len(s) /\ (<<x>> \o s)[i] = s[i - 1]
<1>1. <<x>> \in Seq(T) /\ Len(<<x>>) = 1 /\ <<x>>[1] = x
  OBVIOUS
<1>2. /\ <<x>> \o s \in Seq(T) /\ Len(<<x>> \o s) = 1 + Len(s)
      /\ \A i \in 1 .. 1 + Len(s) : (<<x>> \o s)[i] = IF i <= 1 THEN <<x>>[i] ELSE s[i - 1]
  BY <1>1, ConcatProperties
<1>3. Len(s) \in Nat
  OBVIOUS
<1> QED
  BY <1>1, <1>2, <1>3

--------------------------------------------------------------------------------
(* Functions on their way *)

\* A function pointer is told apart by its sender and its number.
LEMMA CallParts ==
  /\ \A x \in Calls : x[1] \in Senders /\ x[2] \in Nat
  /\ \A s \in Senders, n \in Nat : n < MaxPosts[s] => <<s, n + 1>> \in Calls
<1>1. ASSUME NEW x \in Calls PROVE x[1] \in Senders /\ x[2] \in Nat
  <2>1. PICK s \in Senders : x \in {s} \X (1 .. MaxPosts[s])
    BY DEF Calls
  <2> QED
    BY <2>1, ConstantsOK
<1>2. ASSUME NEW s \in Senders, NEW n \in Nat, n < MaxPosts[s]
      PROVE  <<s, n + 1>> \in Calls
  <2>1. MaxPosts[s] \in Nat
    BY ConstantsOK
  <2>2. n + 1 \in 1 .. MaxPosts[s]
    BY <1>2, <2>1
  <2>3. <<s, n + 1>> \in {s} \X (1 .. MaxPosts[s])
    BY <2>2
  <2> QED
    BY <2>3 DEF Calls
<1> QED
  BY <1>1, <1>2

--------------------------------------------------------------------------------
(* Type correctness *)

\* The part of TypeOK about the callers.
CallersTyped ==
  /\ op \in [Callers -> {"idle", "send", "signal", "result", "start", "stop", "delete"}]
  /\ arg \in [Callers -> Calls \cup Timers \cup {NoArg}]
  /\ \A t \in Callers :
       /\ op[t] \in {"send", "signal", "result"} => arg[t] \in Calls
       /\ op[t] \in {"start", "stop", "delete"} => arg[t] \in Timers

\* Going on to a step with an argument of the right kind keeps the callers' types.
LEMMA EnterTyped ==
  ASSUME CallersTyped, NEW t \in Callers, NEW step, NEW x, Enter(t, step, x),
         \/ step \in {"send", "signal", "result"} /\ x \in Calls
         \/ step \in {"start", "stop", "delete"} /\ x \in Timers
  PROVE  CallersTyped'
BY DEF CallersTyped, Enter

\* Returning keeps the callers' types.
LEMMA LeaveTyped ==
  ASSUME CallersTyped, NEW t \in Callers, Leave(t)
  PROVE  CallersTyped'
BY DEF CallersTyped, Leave

\* Every step keeps the types.
LEMMA TypeStep ==
  ASSUME TypeOK, [Next]_vars
  PROVE  TypeOK'
<1> USE ConstantsOK, CallParts
<1> DEFINE
  QueueTyped == queue \in Seq(Calls) /\ Len(queue) <= Length
  CmdsTyped  == cmds \in Seq(Commands) /\ Len(cmds) <= CmdLength
  TimersTyped ==
    /\ timer \in [Timers -> {"none", "dormant", "active", "deleted", "lost"}]
    /\ periodic \in [Timers -> BOOLEAN]
    /\ stopped \subseteq Timers
  MainTyped ==
    /\ bit \in BOOLEAN
    /\ main \in {"wait", "process", "run"}
    /\ op[Main] # "idle" => main = "run"
  SendsTyped ==
    /\ posts \in [Senders -> Nat] /\ \A s \in Senders : posts[s] <= MaxPosts[s]
    /\ done \subseteq Calls /\ accepted \subseteq Calls /\ refused \subseteq Calls
<1>1. CallersTyped /\ QueueTyped /\ CmdsTyped /\ TimersTyped /\ MainTyped /\ SendsTyped
  BY DEF TypeOK, CallersTyped
<1>2. SUFFICES CallersTyped' /\ QueueTyped' /\ CmdsTyped' /\ TimersTyped' /\ MainTyped' /\ SendsTyped'
  BY DEF TypeOK, CallersTyped
<1> USE DEF sends, timing
<1>3. \A s \in Senders : posts[s] < MaxPosts[s] =>
        /\ NextCall(s) \in Calls
        /\ Post(s) => posts' \in [Senders -> Nat] /\ \A r \in Senders : posts'[r] <= MaxPosts[r]
  <2> SUFFICES ASSUME NEW s \in Senders, posts[s] < MaxPosts[s]
               PROVE  /\ NextCall(s) \in Calls
                      /\ Post(s) => /\ posts' \in [Senders -> Nat]
                                   /\ \A r \in Senders : posts'[r] <= MaxPosts[r]
    OBVIOUS
  <2>1. posts[s] \in Nat /\ MaxPosts[s] \in Nat
    BY <1>1
  <2>2. NextCall(s) \in Calls
    BY <2>1 DEF NextCall
  <2>3. ASSUME Post(s)
        PROVE  posts' \in [Senders -> Nat] /\ \A r \in Senders : posts'[r] <= MaxPosts[r]
    BY <1>1, <2>1, <2>3 DEF Post
  <2> QED
    BY <2>2, <2>3
<1>4. Main \in Callers /\ Daemon \in Callers /\ Tasks \cup {Main} \subseteq Senders
      /\ Isr \in Senders /\ Timers \subseteq Senders
  BY DEF Callers, Senders
<1>5. ASSUME SetBit, op'[Main] # "idle" => op[Main] # "idle"
      PROVE  MainTyped'
  BY <1>1, <1>5 DEF SetBit
<1>6. <<"bits", NoArg>> \in Commands /\ \A c \in {"start", "stop", "delete"}, tm \in Timers : <<c, tm>> \in Commands
  BY DEF Commands
<1>7. ASSUME NEW t \in Callers, CallFun(t) PROVE <1>2!1
  <2>1. t \in Senders /\ posts[t] < MaxPosts[t] /\ Post(t) /\ op[t] = "idle"
        /\ (t = Main => main = "run")
    BY <1>4, <1>7 DEF CallFun, MayCall
  <2>2. Enter(t, "send", NextCall(t))
    BY <1>7 DEF CallFun
  <2>3. CallersTyped'
    BY <1>1, <1>3, <2>1, <2>2, EnterTyped
  <2>4. MainTyped'
    BY <1>1, <1>7, <2>1, <2>2 DEF CallFun, Enter, CallersTyped
  <2> QED
    BY <1>1, <1>3, <1>7, <2>1, <2>3, <2>4 DEF CallFun
<1>8. ASSUME NEW t \in Callers, Send(t) PROVE <1>2!1
  <2>1. arg[t] \in Calls /\ op[t] # "idle"
    BY <1>1, <1>8 DEF Send, CallersTyped
  <2>2. CallersTyped'
    BY <1>1, <1>8, <2>1, EnterTyped DEF Send
  <2>3. QueueTyped'
    BY <1>1, <1>8, <2>1, AppendElements, LenProperties DEF Send
  <2>4. MainTyped'
    BY <1>1, <1>8, <2>1 DEF Send, Enter, CallersTyped
  <2> QED
    BY <1>1, <1>8, <2>2, <2>3, <2>4 DEF Send
<1>9. ASSUME NEW t \in Callers, SendTimesOut(t) \/ Result(t) PROVE <1>2!1
  <2>1. arg[t] \in Calls
    BY <1>1, <1>9 DEF SendTimesOut, Result, CallersTyped
  <2>2. CallersTyped'
    BY <1>1, <1>9, LeaveTyped DEF SendTimesOut, Result
  <2>3. MainTyped'
    <3>1. UNCHANGED <<main, bit>> /\ op' = [op EXCEPT ![t] = "idle"]
      BY <1>9 DEF SendTimesOut, Result, Leave
    <3> QED
      BY <1>1, <3>1 DEF CallersTyped
  <2>4. SendsTyped'
    BY <1>1, <1>9, <2>1 DEF SendTimesOut, Result
  <2> QED
    BY <1>1, <1>9, <2>2, <2>3, <2>4 DEF SendTimesOut, Result
<1>10. ASSUME NEW t \in Callers, Signal(t) PROVE <1>2!1
  <2>1. arg[t] \in Calls /\ op[t] = "signal"
    BY <1>1, <1>10 DEF Signal, CallersTyped
  <2>2. CallersTyped'
    BY <1>1, <1>10, <2>1, EnterTyped DEF Signal
  <2>3. op'[Main] # "idle" => op[Main] # "idle"
    BY <1>1, <1>4, <1>10, <2>1 DEF Signal, Enter, CallersTyped
  <2>4. SetBit
    BY <1>10 DEF Signal
  <2> QED
    BY <1>1, <1>5, <1>10, <2>2, <2>3, <2>4 DEF Signal
<1>11. ASSUME CallFunFromIsr PROVE <1>2!1
  <2>1. posts[Isr] < MaxPosts[Isr] /\ Post(Isr) /\ NextCall(Isr) \in Calls
    BY <1>3, <1>4, <1>11 DEF CallFunFromIsr
  <2>2. QueueTyped'
    BY <1>1, <1>11, <2>1, PushElements, LenProperties DEF CallFunFromIsr
  <2>3. CmdsTyped'
    BY <1>1, <1>6, <1>11, AppendElements, LenProperties DEF CallFunFromIsr
  <2>4. SendsTyped'
    BY <1>1, <1>3, <1>4, <1>11, <2>1 DEF CallFunFromIsr
  <2>5. CallersTyped' /\ MainTyped' /\ TimersTyped'
    BY <1>1, <1>11 DEF CallFunFromIsr, CallersTyped
  <2> QED
    BY <2>2, <2>3, <2>4, <2>5
<1>12. ASSUME NEW t \in Callers, CallFunByTimer(t) \/ StopFun(t) PROVE <1>2!1
  <2>1. PICK tm \in Timers, step \in {"start", "stop"} : Enter(t, step, tm)
    BY <1>12 DEF CallFunByTimer, StopFun
  <2>2. CallersTyped'
    BY <1>1, <2>1, EnterTyped
  <2>3. t = Main => main = "run"
    BY <1>12 DEF CallFunByTimer, StopFun, MayCall
  <2>4. MainTyped'
    BY <1>1, <1>12, <2>1, <2>3 DEF CallFunByTimer, StopFun, Enter, CallersTyped
  <2>5. TimersTyped'
    BY <1>1, <1>12 DEF CallFunByTimer, StopFun
  <2> QED
    BY <1>1, <1>12, <2>2, <2>4, <2>5 DEF CallFunByTimer, StopFun
<1>13. ASSUME NEW t \in Callers, Command(t) PROVE <1>2!1
  <2>1. op[t] \in {"start", "stop", "delete"} /\ arg[t] \in Timers
    BY <1>1, <1>13 DEF Command, CallersTyped
  <2>2. CmdsTyped'
    BY <1>1, <1>6, <1>13, <2>1, AppendElements, LenProperties DEF Command
  <2>3. Leave(t) \/ Enter(t, "delete", arg[t])
    BY <1>13 DEF Command, Commanded
  <2>4. CallersTyped'
    BY <1>1, <2>1, <2>3, EnterTyped, LeaveTyped
  <2>5. MainTyped'
    <3>1. UNCHANGED <<main, bit>>
      BY <1>13 DEF Command
    <3>2. \E step \in {"idle", "delete"} : op' = [op EXCEPT ![t] = step]
      BY <2>3 DEF Enter, Leave
    <3> QED
      BY <1>1, <2>1, <3>1, <3>2 DEF CallersTyped
  <2>6. TimersTyped'
    BY <1>1, <1>13, <2>1 DEF Command, Commanded
  <2> QED
    BY <1>1, <1>13, <2>2, <2>4, <2>5, <2>6 DEF Command
<1>14. ASSUME NEW t \in Callers, CommandTimesOut(t) PROVE <1>2!1
  <2>1. op[t] \in {"start", "stop", "delete"} /\ arg[t] \in Timers
    BY <1>1, <1>14 DEF CommandTimesOut, CallersTyped
  <2>2. CallersTyped'
    BY <1>1, <1>14, LeaveTyped DEF CommandTimesOut
  <2>3. MainTyped'
    BY <1>1, <1>14 DEF CommandTimesOut, Leave, CallersTyped
  <2>4. TimersTyped'
    BY <1>1, <1>14, <2>1 DEF CommandTimesOut
  <2> QED
    BY <1>1, <1>14, <2>2, <2>3, <2>4 DEF CommandTimesOut
<1>15. ASSUME DaemonCommand PROVE <1>2!1
  <2>1. cmds # <<>> /\ Head(cmds) \in Commands /\ CmdsTyped'
    BY <1>1, <1>15, TailElements, LenProperties DEF DaemonCommand
  <2>2. CASE Head(cmds)[1] = "bits"
    <3>1. SetBit /\ UNCHANGED <<timer, op>>
      BY <1>15, <2>2 DEF DaemonCommand
    <3> QED
      BY <1>1, <1>5, <1>15, <2>1, <3>1 DEF DaemonCommand, CallersTyped
  <2>3. CASE Head(cmds)[1] # "bits"
    <3>1. Head(cmds)[1] \in {"start", "stop", "delete"} /\ Head(cmds)[2] \in Timers
      BY <2>1, <2>3 DEF Commands
    <3>2. NewState(Head(cmds)[1]) \in {"active", "dormant", "deleted"}
      BY <3>1 DEF NewState
    <3>3. timer' = [timer EXCEPT ![Head(cmds)[2]] = NewState(Head(cmds)[1])] /\ UNCHANGED <<bit, main, op>>
      BY <1>15, <2>3 DEF DaemonCommand
    <3>4. TimersTyped' /\ MainTyped'
      BY <1>1, <1>15, <3>1, <3>2, <3>3 DEF DaemonCommand
    <3> QED
      BY <1>1, <1>15, <2>1, <3>4 DEF DaemonCommand, CallersTyped
  <2> QED
    BY <2>2, <2>3
<1>16. ASSUME NEW tm \in Timers, Expire(tm) PROVE <1>2!1
  <2>1. posts[tm] < MaxPosts[tm] /\ Post(tm) /\ NextCall(tm) \in Calls /\ Enter(Daemon, "send", NextCall(tm))
    BY <1>3, <1>4, <1>16 DEF Expire
  <2>2. CallersTyped'
    BY <1>1, <1>4, <2>1, EnterTyped
  <2>3. MainTyped'
    BY <1>1, <1>4, <1>16, <2>1 DEF Expire, Enter, CallersTyped
  <2>4. TimersTyped'
    BY <1>1, <1>16 DEF Expire
  <2>5. SendsTyped'
    BY <1>1, <1>3, <1>4, <1>16, <2>1 DEF Expire
  <2> QED
    BY <1>1, <1>16, <2>2, <2>3, <2>4, <2>5 DEF Expire
<1>17. ASSUME TakeBit \/ RunReturns \/ Drained PROVE <1>2!1
  BY <1>1, <1>17 DEF TakeBit, RunReturns, Drained, CallersTyped
<1>18. ASSUME Receive PROVE <1>2!1
  <2>1. Head(queue) \in Calls /\ QueueTyped'
    BY <1>1, <1>18, TailElements, LenProperties DEF Receive
  <2> QED
    BY <1>1, <1>18, <2>1 DEF Receive, CallersTyped
<1>19. ASSUME UNCHANGED vars PROVE <1>2!1
  BY <1>1, <1>19 DEF vars, CallersTyped
<1> QED
  BY <1>7, <1>8, <1>9, <1>10, <1>11, <1>12, <1>13, <1>14, <1>15, <1>16, <1>17, <1>18, <1>19
  DEF Next, Caller, InCall

\* Every variable keeps its type: the two queues are never longer than they were
\* made, and a caller holds what the step it is at needs.
THEOREM TypeCorrect == Spec => []TypeOK
<1>1. Init => TypeOK
  <2> SUFFICES ASSUME Init PROVE TypeOK
    OBVIOUS
  <2> USE ConstantsOK DEF Init
  <2>1. queue \in Seq(Calls) /\ Len(queue) = 0 /\ cmds \in Seq(Commands) /\ Len(cmds) = 0
    BY EmptySeq
  <2>2. posts \in [Senders -> Nat] /\ \A s \in Senders : posts[s] <= MaxPosts[s]
    OBVIOUS
  <2>3. op[Main] = "idle"
    BY DEF Callers
  <2>4. CallersTyped
    BY DEF CallersTyped
  <2>5. timer \in [Timers -> {"none", "dormant", "active", "deleted", "lost"}]
        /\ periodic \in [Timers -> BOOLEAN]
    OBVIOUS
  <2>6. bit \in BOOLEAN /\ main = "wait"
        /\ done \subseteq Calls /\ accepted \subseteq Calls /\ refused \subseteq Calls
        /\ stopped \subseteq Timers
    OBVIOUS
  <2>7. Len(queue) <= Length /\ Len(cmds) <= CmdLength
    BY <2>1
  <2> HIDE DEF Init
  <2> QED
    BY <2>1, <2>2, <2>3, <2>4, <2>5, <2>6, <2>7 DEF TypeOK, CallersTyped
<1>2. TypeOK /\ [Next]_vars => TypeOK'
  BY TypeStep
<1> QED
  BY <1>1, <1>2, PTL DEF Spec

--------------------------------------------------------------------------------
(* The main task is woken *)

\* A step that keeps what is pending, puts nothing on the queue that was not there or
\* is not refused, and does not send the main task to sleep, loses no wake-up.
LEMMA WakeKept ==
  ASSUME TypeOK, NoLostWakeup,
         main' = "wait" => main = "wait", ~bit' => ~bit,
         SignalPending => SignalPending',
         refused \subseteq refused',
         \A i \in 1 .. Len(queue') :
           queue'[i] \in refused' \/ \E j \in 1 .. Len(queue) : queue'[i] = queue[j]
  PROVE  NoLostWakeup'
BY DEF NoLostWakeup

\* A command that is appended or a head that is no "bits" command leaves what is
\* pending, and so does a caller that is not about to signal.
LEMMA PendingKept ==
  ASSUME TypeOK, SignalPending,
         \A t \in Callers : op[t] = "signal" => op'[t] = "signal",
         \/ UNCHANGED cmds
         \/ \E c \in Commands : cmds' = Append(cmds, c)
         \/ cmds # <<>> /\ Head(cmds) # <<"bits", NoArg>> /\ cmds' = Tail(cmds)
  PROVE  SignalPending'
<1>1. CASE \E t \in Callers : op[t] = "signal"
  BY <1>1 DEF SignalPending
<1>2. CASE \E i \in 1 .. Len(cmds) : cmds[i] = <<"bits", NoArg>>
  <2>1. cmds \in Seq(Commands) /\ Len(cmds) \in Nat
    BY LenProperties DEF TypeOK
  <2>2. PICK i \in 1 .. Len(cmds) : cmds[i] = <<"bits", NoArg>>
    BY <1>2
  <2>3. CASE UNCHANGED cmds
    BY <2>2, <2>3 DEF SignalPending
  <2>4. CASE \E c \in Commands : cmds' = Append(cmds, c)
    <3>1. i \in 1 .. Len(cmds') /\ cmds'[i] = cmds[i]
      BY <2>1, <2>4, AppendElements
    <3> QED
      BY <2>2, <3>1 DEF SignalPending
  <2>5. CASE cmds # <<>> /\ Head(cmds) # <<"bits", NoArg>> /\ cmds' = Tail(cmds)
    <3>1. i # 1
      BY <2>1, <2>2, <2>5, TailElements
    <3>2. i - 1 \in 1 .. Len(cmds')
      BY <2>1, <2>5, <3>1, TailElements
    <3>3. cmds'[i - 1] = cmds[i]
      BY <2>1, <2>5, <3>1, <3>2, TailElements
    <3> QED
      BY <2>2, <3>2, <3>3 DEF SignalPending
  <2> QED
    BY <2>3, <2>4, <2>5
<1> QED
  BY <1>1, <1>2 DEF SignalPending

\* No step loses a wake-up.
LEMMA WakeStep ==
  ASSUME TypeOK, NoLostWakeup, [Next]_vars
  PROVE  NoLostWakeup'
<1> USE ConstantsOK DEF sends, timing
<1>1. /\ queue \in Seq(Calls) /\ cmds \in Seq(Commands) /\ bit \in BOOLEAN
      /\ op \in [Callers -> {"idle", "send", "signal", "result", "start", "stop", "delete"}]
      /\ Len(queue) \in Nat
  BY LenProperties DEF TypeOK
<1>2. ASSUME SetBit PROVE main' # "wait" \/ bit'
  BY <1>2 DEF SetBit
<1>3. ASSUME NEW t \in Callers, Send(t) PROVE NoLostWakeup'
  <2>1. op'[t] = "signal"
    BY <1>1, <1>3 DEF Send, Enter
  <2> QED
    BY <2>1 DEF NoLostWakeup, SignalPending
<1>4. ASSUME NEW t \in Callers, Signal(t) PROVE NoLostWakeup'
  BY <1>2, <1>4 DEF Signal, NoLostWakeup
<1>5. ASSUME NEW t \in Callers, NEW step, step # "signal", op[t] # "signal",
             op' = [op EXCEPT ![t] = step]
      PROVE  \A u \in Callers : op[u] = "signal" => op'[u] = "signal"
  BY <1>1, <1>5
<1>6. ASSUME NEW t \in Callers,
             CallFun(t) \/ SendTimesOut(t) \/ Result(t) \/ CallFunByTimer(t) \/ StopFun(t)
             \/ Command(t) \/ CommandTimesOut(t)
      PROVE  NoLostWakeup'
  <2>1. op[t] # "signal"
    BY <1>6 DEF CallFun, SendTimesOut, Result, CallFunByTimer, StopFun, MayCall, Command, CommandTimesOut
  <2>2. PICK step : step # "signal" /\ op' = [op EXCEPT ![t] = step]
    BY <1>6 DEF CallFun, SendTimesOut, Result, CallFunByTimer, StopFun, Command, Commanded,
       CommandTimesOut, Enter, Leave
  <2>3. \A u \in Callers : op[u] = "signal" => op'[u] = "signal"
    BY <1>5, <2>1, <2>2
  <2>4. UNCHANGED cmds \/ \E c \in Commands : cmds' = Append(cmds, c)
    <3>1. CASE Command(t)
      <4>1. <<op[t], arg[t]>> \in Commands
        BY <3>1 DEF TypeOK, Command, Commands
      <4> QED
        BY <3>1, <4>1 DEF Command
    <3>2. CASE ~Command(t)
      BY <1>6, <3>2 DEF CallFun, SendTimesOut, Result, CallFunByTimer, StopFun, CommandTimesOut
    <3> QED
      BY <3>1, <3>2
  <2>5. SignalPending => SignalPending'
    BY <2>3, <2>4, PendingKept
  <2>6. UNCHANGED <<queue, bit, main>> /\ refused \subseteq refused'
    BY <1>6 DEF CallFun, SendTimesOut, Result, CallFunByTimer, StopFun, Command, CommandTimesOut
  <2> QED
    BY <2>5, <2>6, WakeKept
<1>7. ASSUME CallFunFromIsr PROVE NoLostWakeup'
  <2>1. CASE Len(queue) < Length /\ Len(cmds) < CmdLength
    <3>1. cmds' = Append(cmds, <<"bits", NoArg>>)
      BY <1>7, <2>1 DEF CallFunFromIsr
    <3>2. <<"bits", NoArg>> \in Commands /\ Len(cmds) \in Nat
      BY <1>1, LenProperties DEF Commands
    <3>3. Len(cmds) + 1 \in 1 .. Len(cmds') /\ cmds'[Len(cmds) + 1] = <<"bits", NoArg>>
      BY <1>1, <3>1, <3>2, AppendElements
    <3> QED
      BY <3>3 DEF NoLostWakeup, SignalPending
  <2>2. CASE ~(Len(queue) < Length /\ Len(cmds) < CmdLength)
    <3>1. UNCHANGED <<cmds, bit, main, op>> /\ refused' = refused \cup {NextCall(Isr)}
      BY <1>7, <2>2 DEF CallFunFromIsr
    <3>2. queue' = queue \/ queue' = <<NextCall(Isr)>> \o queue
      BY <1>7 DEF CallFunFromIsr
    <3>3. NextCall(Isr) \in Calls
      BY <1>7, CallParts DEF CallFunFromIsr, NextCall, TypeOK, Senders
    <3>4. \A i \in 1 .. Len(queue') :
            queue'[i] \in refused' \/ \E j \in 1 .. Len(queue) : queue'[i] = queue[j]
      BY <1>1, <3>1, <3>2, <3>3, PushElements
    <3>5. SignalPending => SignalPending'
      BY <3>1, PendingKept
    <3> QED
      BY <3>1, <3>4, <3>5, WakeKept
  <2> QED
    BY <2>1, <2>2
<1>8. ASSUME DaemonCommand PROVE NoLostWakeup'
  <2>1. CASE Head(cmds)[1] = "bits"
    BY <1>2, <1>8, <2>1 DEF DaemonCommand, NoLostWakeup
  <2>2. CASE Head(cmds)[1] # "bits"
    <3>1. UNCHANGED <<queue, bit, main, op, refused>> /\ cmds # <<>> /\ cmds' = Tail(cmds)
      BY <1>8, <2>2 DEF DaemonCommand
    <3>2. Head(cmds) # <<"bits", NoArg>>
      BY <2>2
    <3>3. SignalPending => SignalPending'
      BY <3>1, <3>2, PendingKept
    <3> QED
      BY <3>1, <3>3, WakeKept
  <2> QED
    BY <2>1, <2>2
<1>9. ASSUME NEW tm \in Timers, Expire(tm) PROVE NoLostWakeup'
  <2>1. UNCHANGED <<queue, bit, main, cmds, refused>> /\ op[Daemon] = "idle"
        /\ op' = [op EXCEPT ![Daemon] = "send"] /\ Daemon \in Callers
    BY <1>9 DEF Expire, DaemonIdle, Enter, Callers
  <2>2. SignalPending => SignalPending'
    BY <1>5, <2>1, PendingKept
  <2> QED
    BY <2>1, <2>2, WakeKept
<1>10. ASSUME TakeBit \/ Receive \/ RunReturns PROVE NoLostWakeup'
  <2>1. main' # "wait"
    BY <1>10 DEF TakeBit, Receive, RunReturns
  <2> QED
    BY <2>1 DEF NoLostWakeup
<1>11. ASSUME Drained PROVE NoLostWakeup'
  <2>1. Len(queue') = 0
    BY <1>11 DEF Drained
  <2> QED
    BY <2>1 DEF NoLostWakeup
<1>12. ASSUME UNCHANGED vars PROVE NoLostWakeup'
  BY <1>12 DEF vars, NoLostWakeup, SignalPending
<1> QED
  BY <1>3, <1>4, <1>6, <1>7, <1>8, <1>9, <1>10, <1>11, <1>12 DEF Next, Caller, InCall

\* The main task never sleeps on a queue that holds a function which a sender was not
\* told to have failed, unless somebody is about to wake it: neither a full queue
\* of the timer service nor a bit that is cleared between two messages loses one.
THEOREM NoWakeupIsLost == Spec => []NoLostWakeup
<1>1. Init => NoLostWakeup
  BY DEF Init, NoLostWakeup
<1>2. TypeOK /\ NoLostWakeup /\ [Next]_vars => NoLostWakeup'
  BY WakeStep
<1> QED
  BY <1>1, <1>2, TypeCorrect, PTL DEF Spec

--------------------------------------------------------------------------------
(* Functions are called in order *)

Sent(y) == y \in done \/ \E i \in 1 .. Len(queue) : queue[i] = y

\* Numbers are given in order, and a call that is about to send belongs to its caller
\* and is later than all that its sender has sent.  The functions an expired timer
\* sends are sent by the timer service.
OrderInv ==
  /\ InOrder
  /\ \A y \in Calls : Sent(y) => y[2] <= posts[y[1]]
  /\ \A t \in Callers : op[t] = "send" =>
       /\ IF t = Daemon THEN arg[t][1] \in Timers ELSE arg[t][1] = t
       /\ arg[t][2] <= posts[arg[t][1]]
       /\ \A y \in Calls : Sent(y) /\ y[1] = arg[t][1] => y[2] < arg[t][2]

\* Steps that touch neither the queue nor the calls about to be sent.
LEMMA OrderKept ==
  ASSUME TypeOK, OrderInv, UNCHANGED <<queue, done, posts>>,
         \A t \in Callers : op'[t] = "send" => op[t] = "send" /\ arg'[t] = arg[t]
  PROVE  OrderInv'
<1>1. InOrder'
  BY DEF OrderInv, InOrder
<1>2. \A y : Sent(y)' <=> Sent(y)
  BY DEF Sent
<1> QED
  BY <1>1, <1>2 DEF OrderInv

\* A new call has a number above all that its sender has sent.
LEMMA OrderPost ==
  ASSUME TypeOK, OrderInv, UNCHANGED <<queue, done>>, NEW t \in Callers, NEW s \in Senders,
         IF t = Daemon THEN s \in Timers ELSE s = t,
         op[t] = "idle", posts[s] < MaxPosts[s], Post(s), Enter(t, "send", NextCall(s))
  PROVE  OrderInv'
<1> USE ConstantsOK
<1>1. InOrder'
  BY DEF OrderInv, InOrder
<1>2. \A y : Sent(y)' <=> Sent(y)
  BY DEF Sent
<1>3. posts \in [Senders -> Nat] /\ posts' = [posts EXCEPT ![s] = posts[s] + 1]
  BY DEF TypeOK, Post
<1>4. \A y \in Calls : y[1] \in Senders /\ y[2] \in Nat /\ posts[y[1]] \in Nat /\ posts[y[1]] <= posts'[y[1]]
  BY <1>3, CallParts
<1>5. \A y \in Calls : Sent(y) => y[2] <= posts[y[1]]
  BY DEF OrderInv
<1>6. \A y \in Calls : Sent(y)' => y[2] <= posts'[y[1]]
  <2> SUFFICES ASSUME NEW y \in Calls, Sent(y) PROVE y[2] <= posts'[y[1]]
    BY <1>2
  <2>1. y[2] <= posts[y[1]] /\ posts[y[1]] <= posts'[y[1]] /\ y[2] \in Nat /\ posts[y[1]] \in Nat
        /\ posts'[y[1]] \in Nat
    BY <1>3, <1>4, <1>5
  <2> QED
    BY <2>1
<1>7. op \in [Callers -> {"idle", "send", "signal", "result", "start", "stop", "delete"}]
      /\ arg \in [Callers -> Calls \cup Timers \cup {NoArg}]
      /\ \A u \in Callers : op[u] = "send" => arg[u] \in Calls
  BY DEF TypeOK
<1>8. ASSUME NEW u \in Callers, op'[u] = "send"
      PROVE  /\ IF u = Daemon THEN arg'[u][1] \in Timers ELSE arg'[u][1] = u
             /\ arg'[u][2] <= posts'[arg'[u][1]]
             /\ \A y \in Calls : Sent(y)' /\ y[1] = arg'[u][1] => y[2] < arg'[u][2]
  <2>1. CASE u = t
    <3>1. arg'[u] = <<s, posts[s] + 1>>
      BY <1>7, <2>1 DEF Enter, NextCall
    <3>2. posts'[s] = posts[s] + 1 /\ posts[s] \in Nat
      BY <1>3
    <3>3. ASSUME NEW y \in Calls, Sent(y)', y[1] = s PROVE y[2] < posts[s] + 1
      BY <1>2, <1>4, <1>5, <3>2, <3>3
    <3> QED
      BY <2>1, <3>1, <3>2, <3>3
  <2>2. CASE u # t
    <3>1. op[u] = "send" /\ arg'[u] = arg[u] /\ arg[u] \in Calls
      BY <1>7, <1>8, <2>2 DEF Enter
    <3>2. /\ IF u = Daemon THEN arg[u][1] \in Timers ELSE arg[u][1] = u
          /\ arg[u][2] <= posts[arg[u][1]]
          /\ \A y \in Calls : Sent(y) /\ y[1] = arg[u][1] => y[2] < arg[u][2]
      BY <3>1 DEF OrderInv
    <3>3. arg[u][2] <= posts'[arg[u][1]]
      <4>1. /\ arg[u][2] \in Nat /\ posts[arg[u][1]] \in Nat /\ posts'[arg[u][1]] \in Nat
            /\ posts[arg[u][1]] <= posts'[arg[u][1]]
        BY <1>3, <1>4, <3>1
      <4> QED
        BY <3>2, <4>1
    <3> QED
      BY <1>2, <3>1, <3>2, <3>3
  <2> QED
    BY <2>1, <2>2
<1> QED
  BY <1>1, <1>6, <1>8 DEF OrderInv

\* A call that is sent goes behind all that its sender has sent.
LEMMA OrderSend ==
  ASSUME TypeOK, OrderInv, NEW t \in Callers, Send(t)
  PROVE  OrderInv'
<1> USE ConstantsOK DEF sends, timing
<1> DEFINE x == arg[t]
<1>1. /\ queue \in Seq(Calls) /\ Len(queue) \in Nat /\ op[t] = "send" /\ x \in Calls
      /\ queue' = Append(queue, x) /\ UNCHANGED <<done, posts>>
      /\ op' = [op EXCEPT ![t] = "signal"] /\ arg' = [arg EXCEPT ![t] = x]
      /\ op \in [Callers -> {"idle", "send", "signal", "result", "start", "stop", "delete"}]
      /\ arg \in [Callers -> Calls \cup Timers \cup {NoArg}]
      /\ \A u \in Callers : op[u] = "send" => arg[u] \in Calls
  BY LenProperties DEF TypeOK, Send, Enter
<1>2. /\ Len(queue') = Len(queue) + 1 /\ queue'[Len(queue) + 1] = x
      /\ \A i \in 1 .. Len(queue) : queue'[i] = queue[i]
  BY <1>1, AppendElements
<1>3. \A y : Sent(y)' <=> Sent(y) \/ y = x
  BY <1>1, <1>2 DEF Sent
<1>4. /\ IF t = Daemon THEN x[1] \in Timers ELSE x[1] = t
      /\ x[2] <= posts[x[1]]
      /\ \A y \in Calls : Sent(y) /\ y[1] = x[1] => y[2] < x[2]
  BY <1>1 DEF OrderInv
<1>5. InOrder'
  <2> SUFFICES ASSUME NEW i \in 1 .. Len(queue) + 1, queue'[i][1] # Isr
               PROVE  /\ \A j \in 1 .. Len(queue) + 1 : i < j /\ queue'[j][1] = queue'[i][1] =>
                           queue'[i][2] < queue'[j][2]
                      /\ \A y \in done : y[1] = queue'[i][1] => y[2] < queue'[i][2]
    BY <1>1, <1>2 DEF InOrder
  <2>1. CASE i = Len(queue) + 1
    <3>1. \A y \in done : y \in Calls /\ Sent(y)
      BY DEF TypeOK, Sent
    <3> QED
      BY <1>1, <1>2, <1>4, <2>1, <3>1
  <2>2. CASE i # Len(queue) + 1
    <3>1. i \in 1 .. Len(queue) /\ queue'[i] = queue[i]
      BY <1>1, <1>2, <2>2
    <3>2. queue[i] \in Calls /\ Sent(queue[i])
      BY <1>1, <3>1, ElementOfSeq DEF Sent
    <3>3. /\ \A j \in 1 .. Len(queue) : i < j /\ queue[j][1] = queue[i][1] => queue[i][2] < queue[j][2]
          /\ \A y \in done : y[1] = queue[i][1] => y[2] < queue[i][2]
      BY <3>1 DEF OrderInv, InOrder
    <3>4. queue[i][1] = x[1] => queue[i][2] < x[2]
      BY <1>4, <3>2
    <3>5. \A j \in 1 .. Len(queue) + 1 : j \in 1 .. Len(queue) \/ j = Len(queue) + 1
      BY <1>1
    <3> QED
      BY <1>2, <3>1, <3>3, <3>4, <3>5
  <2> QED
    BY <2>1, <2>2
<1>6. ASSUME NEW y \in Calls, Sent(y)' PROVE y[2] <= posts'[y[1]]
  BY <1>1, <1>3, <1>4, <1>6 DEF OrderInv
<1>7. ASSUME NEW u \in Callers, op'[u] = "send"
      PROVE  /\ IF u = Daemon THEN arg'[u][1] \in Timers ELSE arg'[u][1] = u
             /\ arg'[u][2] <= posts'[arg'[u][1]]
             /\ \A y \in Calls : Sent(y)' /\ y[1] = arg'[u][1] => y[2] < arg'[u][2]
  <2>1. u # t /\ op[u] = "send" /\ arg'[u] = arg[u]
    BY <1>1, <1>7
  <2>2. /\ IF u = Daemon THEN arg[u][1] \in Timers ELSE arg[u][1] = u
        /\ arg[u][2] <= posts[arg[u][1]]
        /\ \A y \in Calls : Sent(y) /\ y[1] = arg[u][1] => y[2] < arg[u][2]
    BY <2>1 DEF OrderInv
  <2>3. x[1] # arg[u][1]
    <3>1. Callers \cap Timers = {}
      BY DEF Callers
    <3> QED
      BY <1>4, <2>1, <2>2, <3>1
  <2> QED
    BY <1>1, <1>3, <2>1, <2>2, <2>3
<1> QED
  BY <1>5, <1>6, <1>7 DEF OrderInv

\* A function an interrupt puts in front of the queue changes no other sender's order.
LEMMA OrderIsr ==
  ASSUME TypeOK, OrderInv, CallFunFromIsr
  PROVE  OrderInv'
<1> USE ConstantsOK DEF sends, timing
<1> DEFINE x == NextCall(Isr)
<1>1. /\ queue \in Seq(Calls) /\ Len(queue) \in Nat /\ Isr \in Senders
      /\ posts \in [Senders -> Nat] /\ posts[Isr] < MaxPosts[Isr]
      /\ posts' = [posts EXCEPT ![Isr] = posts[Isr] + 1]
      /\ UNCHANGED <<done, op, arg>>
      /\ \A u \in Callers : op[u] = "send" => arg[u] \in Calls
  BY LenProperties DEF TypeOK, CallFunFromIsr, Post, Senders
<1>2. x \in Calls /\ x[1] = Isr /\ x[2] = posts[Isr] + 1
  BY <1>1, CallParts DEF NextCall
<1>3. queue' = queue \/ queue' = <<x>> \o queue
  BY DEF CallFunFromIsr
<1> HIDE DEF x
<1>4. \A i \in 1 .. Len(queue') :
        \/ queue' # queue /\ i = 1 /\ queue'[i] = x
        \/ i \in 1 .. Len(queue) /\ queue' = queue
        \/ i - 1 \in 1 .. Len(queue) /\ queue'[i] = queue[i - 1] /\ queue' # queue
  <2>1. CASE queue' = queue
    BY <2>1
  <2>2. CASE queue' # queue
    BY <1>1, <1>2, <1>3, <2>2, PushElements
  <2> QED
    BY <2>1, <2>2
<1>5. \A y : Sent(y)' => Sent(y) \/ y = x
  BY <1>1, <1>4 DEF Sent
<1>6. InOrder'
  <2> SUFFICES ASSUME NEW i \in 1 .. Len(queue'), queue'[i][1] # Isr
               PROVE  /\ \A j \in 1 .. Len(queue') : i < j /\ queue'[j][1] = queue'[i][1] =>
                           queue'[i][2] < queue'[j][2]
                      /\ \A y \in done : y[1] = queue'[i][1] => y[2] < queue'[i][2]
    BY <1>1 DEF InOrder
  <2>1. CASE queue' = queue
    BY <2>1 DEF OrderInv, InOrder
  <2>2. CASE queue' # queue
    <3>1. i - 1 \in 1 .. Len(queue) /\ queue'[i] = queue[i - 1]
      BY <1>2, <1>4, <2>2
    <3>2. \A j \in 1 .. Len(queue') : i < j =>
            j - 1 \in 1 .. Len(queue) /\ i - 1 < j - 1 /\ queue'[j] = queue[j - 1]
      <4> SUFFICES ASSUME NEW j \in 1 .. Len(queue'), i < j
                   PROVE  j - 1 \in 1 .. Len(queue) /\ i - 1 < j - 1 /\ queue'[j] = queue[j - 1]
        OBVIOUS
      <4>1. j # 1 /\ i \in Int /\ j \in Int
        BY <1>1, <3>1
      <4> QED
        BY <1>4, <2>2, <4>1
    <3>3. /\ \A j \in 1 .. Len(queue) : i - 1 < j /\ queue[j][1] = queue[i - 1][1] => queue[i - 1][2] < queue[j][2]
          /\ \A y \in done : y[1] = queue[i - 1][1] => y[2] < queue[i - 1][2]
      BY <3>1 DEF OrderInv, InOrder
    <3> QED
      BY <3>1, <3>2, <3>3
  <2> QED
    BY <2>1, <2>2
<1>7. ASSUME NEW y \in Calls, Sent(y)' PROVE y[2] <= posts'[y[1]]
  <2>1. y[1] \in Senders /\ y[2] \in Nat /\ posts[y[1]] \in Nat
    BY <1>1, CallParts
  <2>2. CASE y = x
    BY <1>1, <1>2, <2>2
  <2>3. CASE Sent(y)
    <3>1. y[2] <= posts[y[1]]
      BY <2>3 DEF OrderInv
    <3>2. posts'[y[1]] \in Nat /\ posts[y[1]] <= posts'[y[1]]
      BY <1>1, <2>1
    <3> QED
      BY <2>1, <3>1, <3>2
  <2> QED
    BY <1>5, <1>7, <2>2, <2>3
<1>8. ASSUME NEW u \in Callers, op'[u] = "send"
      PROVE  /\ IF u = Daemon THEN arg'[u][1] \in Timers ELSE arg'[u][1] = u
             /\ arg'[u][2] <= posts'[arg'[u][1]]
             /\ \A y \in Calls : Sent(y)' /\ y[1] = arg'[u][1] => y[2] < arg'[u][2]
  <2>1. op[u] = "send" /\ arg'[u] = arg[u] /\ arg[u] \in Calls
    BY <1>1, <1>8
  <2>2. /\ IF u = Daemon THEN arg[u][1] \in Timers ELSE arg[u][1] = u
        /\ arg[u][2] <= posts[arg[u][1]]
        /\ \A y \in Calls : Sent(y) /\ y[1] = arg[u][1] => y[2] < arg[u][2]
    BY <2>1 DEF OrderInv
  <2>3. arg[u][1] # Isr /\ arg[u][1] \in Senders
    BY <2>1, <2>2, CallParts DEF Callers
  <2>4. posts'[arg[u][1]] = posts[arg[u][1]]
    BY <1>1, <2>3
  <2> QED
    BY <1>2, <1>5, <2>1, <2>2, <2>3, <2>4
<1> QED
  BY <1>6, <1>7, <1>8 DEF OrderInv

\* The function that the main task calls is the first that its sender has on the queue.
LEMMA OrderReceive ==
  ASSUME TypeOK, OrderInv, Receive
  PROVE  OrderInv'
<1> USE ConstantsOK DEF sends, timing
<1>1. /\ queue \in Seq(Calls) /\ queue # <<>> /\ queue' = Tail(queue)
      /\ done' = done \cup {Head(queue)} /\ UNCHANGED <<posts, op, arg>>
  BY DEF TypeOK, Receive
<1>2. /\ Len(queue) \in Nat \ {0} /\ Len(queue') = Len(queue) - 1 /\ Head(queue) = queue[1]
      /\ \A i \in 1 .. Len(queue) - 1 : queue'[i] = queue[i + 1] /\ i + 1 \in 2 .. Len(queue)
  BY <1>1, TailElements
<1>3. \A y : Sent(y)' => Sent(y)
  <2> SUFFICES ASSUME NEW y, Sent(y)' PROVE Sent(y)
    OBVIOUS
  <2>1. CASE y \in done'
    <3>1. 1 \in 1 .. Len(queue)
      BY <1>2
    <3> QED
      BY <1>1, <1>2, <2>1, <3>1 DEF Sent
  <2>2. CASE \E i \in 1 .. Len(queue') : queue'[i] = y
    <3>1. PICK i \in 1 .. Len(queue) - 1 : queue'[i] = y
      BY <1>2, <2>2
    <3>2. i + 1 \in 1 .. Len(queue) /\ queue[i + 1] = y
      BY <1>2, <3>1
    <3> QED
      BY <3>2 DEF Sent
  <2> QED
    BY <2>1, <2>2 DEF Sent
<1>4. InOrder'
  <2> SUFFICES ASSUME NEW i \in 1 .. Len(queue) - 1, queue'[i][1] # Isr
               PROVE  /\ \A j \in 1 .. Len(queue) - 1 : i < j /\ queue'[j][1] = queue'[i][1] =>
                           queue'[i][2] < queue'[j][2]
                      /\ \A y \in done' : y[1] = queue'[i][1] => y[2] < queue'[i][2]
    BY <1>2 DEF InOrder
  <2>1. i + 1 \in 1 .. Len(queue) /\ queue'[i] = queue[i + 1] /\ 1 \in 1 .. Len(queue) /\ 1 < i + 1
    BY <1>2
  <2>2. /\ \A j \in 1 .. Len(queue) : i + 1 < j /\ queue[j][1] = queue[i + 1][1] => queue[i + 1][2] < queue[j][2]
        /\ \A y \in done : y[1] = queue[i + 1][1] => y[2] < queue[i + 1][2]
    BY <2>1 DEF OrderInv, InOrder
  <2>3. queue[1][1] = queue[i + 1][1] => queue[1][2] < queue[i + 1][2]
    <3> SUFFICES ASSUME queue[1][1] = queue[i + 1][1] PROVE queue[1][2] < queue[i + 1][2]
      OBVIOUS
    <3>1. queue[1][1] # Isr
      BY <2>1
    <3> QED
      BY <2>1, <3>1 DEF OrderInv, InOrder
  <2>4. \A j \in 1 .. Len(queue) - 1 : i < j =>
          j + 1 \in 1 .. Len(queue) /\ i + 1 < j + 1 /\ queue'[j] = queue[j + 1]
    BY <1>2
  <2> QED
    BY <1>1, <1>2, <2>1, <2>2, <2>3, <2>4
<1> QED
  BY <1>1, <1>3, <1>4 DEF OrderInv

\* Every step keeps the order.
LEMMA OrderStep ==
  ASSUME TypeOK, OrderInv, [Next]_vars
  PROVE  OrderInv'
<1> USE ConstantsOK DEF sends, timing
<1>1. op \in [Callers -> {"idle", "send", "signal", "result", "start", "stop", "delete"}]
      /\ arg \in [Callers -> Calls \cup Timers \cup {NoArg}]
  BY DEF TypeOK
<1>2. ASSUME NEW t \in Callers, CallFun(t) PROVE OrderInv'
  <2>1. t \in Senders /\ t # Daemon
    BY <1>2 DEF CallFun, MayCall, Senders, Callers
  <2> QED
    BY <1>2, <2>1, OrderPost DEF CallFun, MayCall
<1>3. ASSUME NEW tm \in Timers, Expire(tm) PROVE OrderInv'
  <2>1. tm \in Senders /\ Daemon \in Callers
    BY DEF Senders, Callers
  <2> QED
    BY <1>3, <2>1, OrderPost DEF Expire, DaemonIdle
<1>4. ASSUME NEW t \in Callers,
             SendTimesOut(t) \/ Signal(t) \/ Result(t) \/ CallFunByTimer(t) \/ StopFun(t)
             \/ Command(t) \/ CommandTimesOut(t)
      PROVE  OrderInv'
  <2>1. UNCHANGED <<queue, done, posts>>
    BY <1>4 DEF SendTimesOut, Signal, Result, CallFunByTimer, StopFun, Command, CommandTimesOut
  <2>2. PICK step, x : /\ step # "send" /\ op' = [op EXCEPT ![t] = step]
                       /\ arg' = [arg EXCEPT ![t] = x]
    BY <1>4 DEF SendTimesOut, Signal, Result, CallFunByTimer, StopFun, Command, Commanded,
       CommandTimesOut, Enter, Leave
  <2>3. \A u \in Callers : op'[u] = "send" => op[u] = "send" /\ arg'[u] = arg[u]
    BY <1>1, <2>2
  <2> QED
    BY <2>1, <2>3, OrderKept
<1>5. ASSUME DaemonCommand \/ TakeBit \/ RunReturns \/ Drained \/ UNCHANGED vars
      PROVE  OrderInv'
  <2>1. UNCHANGED <<queue, done, posts, op, arg>>
    BY <1>5 DEF DaemonCommand, TakeBit, RunReturns, Drained, vars
  <2> QED
    BY <2>1, OrderKept
<1> QED
  BY <1>2, <1>3, <1>4, <1>5, OrderSend, OrderIsr, OrderReceive DEF Next, Caller, InCall

\* What one task, one timer or the main task sends is called in the order it was sent
\* and never twice, although interrupts put theirs in front of the queue.
THEOREM CallsAreInOrder == Spec => []InOrder
<1>1. Init => OrderInv
  BY DEF Init, OrderInv, InOrder, Sent
<1>2. TypeOK /\ OrderInv /\ [Next]_vars => OrderInv'
  BY OrderStep
<1>3. OrderInv => InOrder
  BY DEF OrderInv
<1> QED
  BY <1>1, <1>2, <1>3, TypeCorrect, PTL DEF Spec

--------------------------------------------------------------------------------
(* Timers that are stopped stay stopped, and deleted ones are left alone *)

Commanding(t) == op[t] \in {"start", "stop", "delete"}
Is(i, command, tm) == cmds[i] = <<command, tm>>
Concerns(i, tm) == \E command \in {"start", "stop", "delete"} : Is(i, command, tm)

\* A call that is about to start its timer is the first to mention it, one that is
\* about to stop or delete it the only one to hold it; commands for a timer are in
\* the order start, stop, delete, and none follows the delete.
CallersTimers ==
  \A t \in Callers : Commanding(t) =>
    /\ timer[arg[t]] \in {"dormant", "active"}
    /\ arg[t] \notin stopped
    /\ \A i \in 1 .. Len(cmds) :
         /\ op[t] = "start" => ~Concerns(i, arg[t])
         /\ ~Is(i, "delete", arg[t])
    /\ \A u \in Callers : Commanding(u) /\ arg[u] = arg[t] => u = t

CommandsTimers ==
  \A tm \in Timers : \A i \in 1 .. Len(cmds) : Concerns(i, tm) =>
    /\ timer[tm] \in {"dormant", "active"}
    /\ \A j \in 1 .. Len(cmds) : j < i =>
         /\ ~Is(j, "delete", tm)
         /\ ~Is(i, "start", tm) \/ ~Concerns(j, tm)
    /\ Is(i, "delete", tm) => tm \in stopped

Final(tm) ==
  \E i \in 1 .. Len(cmds) :
    /\ Is(i, "stop", tm) \/ Is(i, "delete", tm)
    /\ \A j \in i .. Len(cmds) : ~Is(j, "start", tm)

\* StopIsFinal, in these words.
StoppedTimers ==
  \A tm \in stopped :
    /\ timer[tm] \notin {"none", "lost"}
    /\ timer[tm] = "active" => Final(tm)
    /\ (\E i \in 1 .. Len(cmds) : Is(i, "start", tm)) => Final(tm)

TimerInv == CallersTimers /\ CommandsTimers /\ StoppedTimers

\* Steps that add no command, give no caller a timer, and change timers only from
\* active to dormant.
LEMMA TimerKept ==
  ASSUME TypeOK, TimerInv, UNCHANGED <<cmds, stopped>>,
         timer' \in [Timers -> {"none", "dormant", "active", "deleted", "lost"}],
         \A tm \in Timers : timer'[tm] = timer[tm] \/ (timer[tm] = "active" /\ timer'[tm] = "dormant"),
         \A t \in Callers : Commanding(t)' => Commanding(t) /\ op'[t] = op[t] /\ arg'[t] = arg[t]
  PROVE  TimerInv'
<1>1. /\ timer \in [Timers -> {"none", "dormant", "active", "deleted", "lost"}]
      /\ stopped \subseteq Timers
      /\ \A t \in Callers : Commanding(t) => arg[t] \in Timers
  BY DEF TypeOK, Commanding
<1>2. \A i, c, tm : Is(i, c, tm)' <=> Is(i, c, tm)
  BY DEF Is
<1>3. \A i, tm : Concerns(i, tm)' <=> Concerns(i, tm)
  BY <1>2 DEF Concerns
<1>4. CallersTimers'
  <2> SUFFICES ASSUME NEW t \in Callers, Commanding(t)'
               PROVE  /\ timer'[arg[t]] \in {"dormant", "active"}
                      /\ arg[t] \notin stopped
                      /\ \A i \in 1 .. Len(cmds) :
                           /\ op[t] = "start" => ~Concerns(i, arg[t])
                           /\ ~Is(i, "delete", arg[t])
                      /\ \A u \in Callers : Commanding(u)' /\ arg'[u] = arg[t] => u = t
    BY <1>2, <1>3 DEF CallersTimers
  <2> QED
    BY <1>1 DEF TimerInv, CallersTimers
<1>5. CommandsTimers'
  <2> SUFFICES ASSUME NEW tm \in Timers, NEW i \in 1 .. Len(cmds), Concerns(i, tm)
               PROVE  timer'[tm] \in {"dormant", "active"}
    BY <1>2, <1>3 DEF TimerInv, CommandsTimers
  <2> QED
    BY DEF TimerInv, CommandsTimers
<1>6. StoppedTimers'
  <2>1. \A tm : Final(tm)' <=> Final(tm)
    BY <1>2 DEF Final
  <2>2. \A tm \in stopped : timer'[tm] = timer[tm] \/ (timer[tm] = "active" /\ timer'[tm] = "dormant")
    BY <1>1
  <2> QED
    BY <1>2, <2>1, <2>2 DEF TimerInv, StoppedTimers
<1> QED
  BY <1>4, <1>5, <1>6 DEF TimerInv

\* A call takes a timer that no caller and no command has, or that was handed to it.
LEMMA TimerTaken ==
  ASSUME TypeOK, TimerInv, UNCHANGED <<cmds, stopped>>, NEW t \in Callers, NEW tm \in Timers,
         NEW step \in {"start", "stop"}, Enter(t, step, tm), ~Commanding(t),
         \/ step = "start" /\ timer[tm] = "none" /\ timer' = [timer EXCEPT ![tm] = "dormant"]
         \/ step = "stop" /\ Handed(tm) /\ UNCHANGED timer
  PROVE  TimerInv'
<1>1. /\ timer \in [Timers -> {"none", "dormant", "active", "deleted", "lost"}]
      /\ stopped \subseteq Timers
      /\ op \in [Callers -> {"idle", "send", "signal", "result", "start", "stop", "delete"}]
      /\ arg \in [Callers -> Calls \cup Timers \cup {NoArg}]
      /\ \A u \in Callers : Commanding(u) => arg[u] \in Timers
  BY DEF TypeOK, Commanding
<1>2. \A i, c, x : Is(i, c, x)' <=> Is(i, c, x)
  BY DEF Is
<1>3. \A i, x : Concerns(i, x)' <=> Concerns(i, x)
  BY <1>2 DEF Concerns
<1>4. /\ op'[t] = step /\ arg'[t] = tm
      /\ \A u \in Callers : u # t => op'[u] = op[u] /\ arg'[u] = arg[u]
  BY <1>1 DEF Enter
<1>5. \A u \in Callers : u # t => (Commanding(u)' <=> Commanding(u))
  BY <1>4 DEF Commanding
<1>6. /\ tm \notin stopped
      /\ timer'[tm] \in {"dormant", "active"}
      /\ \A x \in Timers : x # tm => timer'[x] = timer[x]
      /\ \A u \in Callers : Commanding(u) => arg[u] # tm
      /\ \A i \in 1 .. Len(cmds) : Concerns(i, tm) => step = "stop"
  BY <1>1 DEF TimerInv, CallersTimers, CommandsTimers, StoppedTimers, Handed
<1>7. \A i \in 1 .. Len(cmds) : ~Is(i, "delete", tm)
  BY <1>6 DEF TimerInv, CommandsTimers, Concerns
<1>8. CallersTimers'
  <2> SUFFICES ASSUME NEW u \in Callers, Commanding(u)'
               PROVE  /\ timer'[arg'[u]] \in {"dormant", "active"}
                      /\ arg'[u] \notin stopped
                      /\ \A i \in 1 .. Len(cmds) :
                           /\ op'[u] = "start" => ~Concerns(i, arg'[u])
                           /\ ~Is(i, "delete", arg'[u])
                      /\ \A v \in Callers : Commanding(v)' /\ arg'[v] = arg'[u] => v = u
    BY <1>2, <1>3 DEF CallersTimers
  <2>1. CASE u = t
    BY <1>4, <1>5, <1>6, <1>7, <2>1
  <2>2. CASE u # t
    <3>1. Commanding(u) /\ arg'[u] = arg[u] /\ op'[u] = op[u] /\ arg[u] # tm /\ arg[u] \in Timers
      BY <1>1, <1>4, <1>5, <1>6, <2>2
    <3>2. timer'[arg[u]] = timer[arg[u]]
      BY <1>6, <3>1
    <3>3. \A v \in Callers : Commanding(v)' /\ arg'[v] = arg[u] => v = u
      BY <1>4, <1>5, <3>1 DEF TimerInv, CallersTimers
    <3> QED
      BY <3>1, <3>2, <3>3 DEF TimerInv, CallersTimers
  <2> QED
    BY <2>1, <2>2
<1>9. CommandsTimers'
  <2> SUFFICES ASSUME NEW x \in Timers, NEW i \in 1 .. Len(cmds), Concerns(i, x)
               PROVE  timer'[x] \in {"dormant", "active"}
    BY <1>2, <1>3 DEF TimerInv, CommandsTimers
  <2> QED
    BY <1>6 DEF TimerInv, CommandsTimers
<1>10. \A x \in stopped : timer'[x] = timer[x]
  BY <1>1, <1>6
<1>11. StoppedTimers'
  <2>1. \A x : Final(x)' <=> Final(x)
    BY <1>2 DEF Final
  <2> QED
    BY <1>2, <1>10, <2>1 DEF TimerInv, StoppedTimers
<1> QED
  BY <1>8, <1>9, <1>11 DEF TimerInv

\* The timer whose start command cannot be queued has no commands.
LEMMA TimerLost ==
  ASSUME TypeOK, TimerInv, UNCHANGED <<cmds, stopped>>, NEW t \in Callers, op[t] = "start",
         timer' = [timer EXCEPT ![arg[t]] = "lost"], Leave(t)
  PROVE  TimerInv'
<1>1. /\ timer \in [Timers -> {"none", "dormant", "active", "deleted", "lost"}]
      /\ stopped \subseteq Timers
      /\ op \in [Callers -> {"idle", "send", "signal", "result", "start", "stop", "delete"}]
      /\ arg \in [Callers -> Calls \cup Timers \cup {NoArg}]
      /\ \A u \in Callers : Commanding(u) => arg[u] \in Timers
      /\ Commanding(t)
  BY DEF TypeOK, Commanding
<1>2. \A i, c, x : Is(i, c, x)' <=> Is(i, c, x)
  BY DEF Is
<1>3. \A i, x : Concerns(i, x)' <=> Concerns(i, x)
  BY <1>2 DEF Concerns
<1>4. ~Commanding(t)' /\ \A u \in Callers : u # t => op'[u] = op[u] /\ arg'[u] = arg[u]
  BY <1>1 DEF Leave, Commanding
<1>5. \A u \in Callers : Commanding(u)' => u # t /\ Commanding(u)
  BY <1>4 DEF Commanding
<1>6. /\ arg[t] \in Timers /\ arg[t] \notin stopped
      /\ \A i \in 1 .. Len(cmds) : ~Concerns(i, arg[t])
      /\ \A u \in Callers : Commanding(u) /\ u # t => arg[u] # arg[t]
      /\ \A x \in Timers : x # arg[t] => timer'[x] = timer[x]
  BY <1>1 DEF TimerInv, CallersTimers
<1>7. CallersTimers'
  <2> SUFFICES ASSUME NEW u \in Callers, Commanding(u)'
               PROVE  /\ timer'[arg'[u]] \in {"dormant", "active"}
                      /\ arg'[u] \notin stopped
                      /\ \A i \in 1 .. Len(cmds) :
                           /\ op'[u] = "start" => ~Concerns(i, arg'[u])
                           /\ ~Is(i, "delete", arg'[u])
                      /\ \A v \in Callers : Commanding(v)' /\ arg'[v] = arg'[u] => v = u
    BY <1>2, <1>3 DEF CallersTimers
  <2>1. u # t /\ Commanding(u) /\ arg'[u] = arg[u] /\ op'[u] = op[u] /\ timer'[arg[u]] = timer[arg[u]]
    BY <1>1, <1>4, <1>5, <1>6
  <2>2. \A v \in Callers : Commanding(v)' /\ arg'[v] = arg[u] => v = u
    BY <1>4, <1>5, <2>1 DEF TimerInv, CallersTimers
  <2> QED
    BY <2>1, <2>2 DEF TimerInv, CallersTimers
<1>8. CommandsTimers'
  <2> SUFFICES ASSUME NEW x \in Timers, NEW i \in 1 .. Len(cmds), Concerns(i, x)
               PROVE  timer'[x] \in {"dormant", "active"}
    BY <1>2, <1>3 DEF TimerInv, CommandsTimers
  <2> QED
    BY <1>6 DEF TimerInv, CommandsTimers
<1>9. \A x \in stopped : timer'[x] = timer[x]
  BY <1>1, <1>6
<1>10. StoppedTimers'
  <2>1. \A x : Final(x)' <=> Final(x)
    BY <1>2 DEF Final
  <2> QED
    BY <1>2, <1>9, <2>1 DEF TimerInv, StoppedTimers
<1> QED
  BY <1>7, <1>8, <1>10 DEF TimerInv

\* A command to set the bit concerns no timer.
LEMMA TimerBits ==
  ASSUME TypeOK, TimerInv, cmds' = Append(cmds, <<"bits", NoArg>>),
         UNCHANGED <<timer, stopped, op, arg>>
  PROVE  TimerInv'
<1>0. PICK n \in Nat : n = Len(cmds)
  BY LenProperties DEF TypeOK
<1>1. /\ cmds \in Seq(Commands) /\ n \in Nat /\ n = Len(cmds) /\ <<"bits", NoArg>> \in Commands
      /\ stopped \subseteq Timers
  BY <1>0 DEF TypeOK, Commands
<1>2. /\ Len(cmds') = n + 1 /\ cmds'[n + 1] = <<"bits", NoArg>>
      /\ \A i \in 1 .. n : cmds'[i] = cmds[i]
  BY <1>1, AppendElements
<1>3. /\ \A i \in 1 .. n : \A c, tm : Is(i, c, tm)' <=> Is(i, c, tm)
      /\ \A c \in {"start", "stop", "delete"} : \A tm : ~Is(n + 1, c, tm)'
  BY <1>2 DEF Is
<1>4. /\ \A i \in 1 .. n : \A tm : Concerns(i, tm)' <=> Concerns(i, tm)
      /\ \A tm : ~Concerns(n + 1, tm)'
  BY <1>3 DEF Concerns
<1>5. \A i \in 1 .. Len(cmds') : i \in 1 .. n \/ i = n + 1
  BY <1>1, <1>2
<1>6. \A t : Commanding(t)' <=> Commanding(t)
  BY DEF Commanding
<1>7. CallersTimers'
  BY <1>1, <1>3, <1>4, <1>5, <1>6 DEF TimerInv, CallersTimers
<1>8. CommandsTimers'
  <2> SUFFICES ASSUME NEW tm \in Timers, NEW i \in 1 .. Len(cmds'), Concerns(i, tm)'
               PROVE  /\ timer[tm] \in {"dormant", "active"}
                      /\ \A j \in 1 .. Len(cmds') : j < i =>
                           /\ ~Is(j, "delete", tm)'
                           /\ ~Is(i, "start", tm)' \/ ~Concerns(j, tm)'
                      /\ Is(i, "delete", tm)' => tm \in stopped
    BY DEF CommandsTimers
  <2>1. i \in 1 .. n /\ Concerns(i, tm)
    BY <1>4, <1>5
  <2>2. \A j \in 1 .. Len(cmds') : j < i => j \in 1 .. n
    BY <1>1, <1>2, <2>1
  <2> QED
    BY <1>1, <1>3, <1>4, <2>1, <2>2 DEF TimerInv, CommandsTimers
<1>9. StoppedTimers'
  <2>1. ASSUME NEW tm, Final(tm) PROVE Final(tm)'
    <3>1. PICK i \in 1 .. n :
            /\ Is(i, "stop", tm) \/ Is(i, "delete", tm)
            /\ \A j \in i .. n : ~Is(j, "start", tm)
      BY <1>1, <2>1 DEF Final
    <3>2. i \in 1 .. Len(cmds') /\ \A j \in i .. Len(cmds') : (j \in i .. n /\ j \in 1 .. n) \/ j = n + 1
      BY <1>1, <1>2
    <3> QED
      BY <1>3, <3>1, <3>2 DEF Final
  <2> QED
    BY <1>1, <1>3, <1>5, <2>1 DEF TimerInv, StoppedTimers
<1> QED
  BY <1>7, <1>8, <1>9 DEF TimerInv

\* A command that a caller queues comes after the others for its timer, in the order
\* start, stop, delete, and the caller holds the timer no longer or goes on to delete it.
LEMMA TimerCommand ==
  ASSUME TypeOK, TimerInv, NEW t \in Callers, Command(t), NEW tm, tm = arg[t]
  PROVE  TimerInv'
<1>0. PICK n \in Nat : n = Len(cmds)
  BY LenProperties DEF TypeOK
<1>1. /\ cmds \in Seq(Commands) /\ n \in Nat /\ n = Len(cmds) /\ stopped \subseteq Timers
      /\ op \in [Callers -> {"idle", "send", "signal", "result", "start", "stop", "delete"}]
      /\ arg \in [Callers -> Calls \cup Timers \cup {NoArg}]
      /\ \A u \in Callers : Commanding(u) => arg[u] \in Timers
      /\ op[t] \in {"start", "stop", "delete"} /\ Commanding(t) /\ tm \in Timers
      /\ <<op[t], tm>> \in Commands /\ cmds' = Append(cmds, <<op[t], tm>>) /\ timer' = timer
  BY <1>0 DEF TypeOK, Command, Commands, Commanding
<1>2. /\ Len(cmds') = n + 1 /\ cmds'[n + 1] = <<op[t], tm>>
      /\ \A i \in 1 .. n : cmds'[i] = cmds[i]
  BY <1>1, AppendElements
<1>3. /\ \A i \in 1 .. n : \A c, x : Is(i, c, x)' <=> Is(i, c, x)
      /\ \A c, x : Is(n + 1, c, x)' <=> c = op[t] /\ x = tm
  BY <1>2 DEF Is
<1>4. /\ \A i \in 1 .. n : \A x : Concerns(i, x)' <=> Concerns(i, x)
      /\ \A x : Concerns(n + 1, x)' <=> x = tm
  BY <1>1, <1>3 DEF Concerns
<1>5. \A i \in 1 .. Len(cmds') : i \in 1 .. n \/ i = n + 1
  BY <1>1, <1>2
<1>6. \/ /\ op[t] = "stop" /\ op'[t] = "delete" /\ arg'[t] = tm /\ stopped' = stopped
      \/ /\ ~Commanding(t)'
         /\ stopped' = IF op[t] = "start" THEN stopped ELSE stopped \cup {tm}
  BY <1>1 DEF Command, Commanded, Enter, Leave, Commanding
<1>7. \A u \in Callers : u # t => op'[u] = op[u] /\ arg'[u] = arg[u] /\ (Commanding(u)' <=> Commanding(u))
  BY <1>1 DEF Command, Commanded, Enter, Leave, Commanding
<1>8. /\ timer[tm] \in {"dormant", "active"} /\ tm \notin stopped
      /\ \A i \in 1 .. n : (op[t] = "start" => ~Concerns(i, tm)) /\ ~Is(i, "delete", tm)
      /\ \A u \in Callers : Commanding(u) /\ u # t => arg[u] # tm
  BY <1>1 DEF TimerInv, CallersTimers
<1>9. CallersTimers'
  <2> SUFFICES ASSUME NEW u \in Callers, Commanding(u)', NEW x, x = arg'[u]
               PROVE  /\ timer[x] \in {"dormant", "active"}
                      /\ x \notin stopped'
                      /\ \A i \in 1 .. Len(cmds') :
                           /\ op'[u] = "start" => ~Concerns(i, x)'
                           /\ ~Is(i, "delete", x)'
                      /\ \A v \in Callers : Commanding(v)' /\ arg'[v] = x => v = u
    BY <1>1 DEF CallersTimers
  <2>1. CASE u = t
    <3>1. op[t] = "stop" /\ op'[t] = "delete" /\ arg'[t] = tm /\ stopped' = stopped
      BY <1>6, <2>1
    <3>2. \A i \in 1 .. Len(cmds') : ~Is(i, "delete", tm)'
      BY <1>3, <1>5, <1>8, <3>1
    <3>3. \A v \in Callers : Commanding(v)' /\ arg'[v] = tm => v = t
      BY <1>7, <1>8
    <3> QED
      BY <1>8, <2>1, <3>1, <3>2, <3>3
  <2>2. CASE u # t
    <3>1. Commanding(u) /\ x = arg[u] /\ op'[u] = op[u] /\ x # tm
      BY <1>7, <1>8, <2>2
    <3>2. x \notin stopped'
      BY <1>6, <3>1 DEF TimerInv, CallersTimers
    <3>3. \A i \in 1 .. Len(cmds') : (op[u] = "start" => ~Concerns(i, x)') /\ ~Is(i, "delete", x)'
      BY <1>1, <1>3, <1>4, <1>5, <3>1 DEF TimerInv, CallersTimers
    <3>4. \A v \in Callers : Commanding(v)' /\ arg'[v] = x => v = u
      <4> SUFFICES ASSUME NEW v \in Callers, Commanding(v)', arg'[v] = x PROVE v = u
        OBVIOUS
      <4>1. v # t
        BY <1>6, <3>1
      <4> QED
        BY <1>7, <3>1, <4>1 DEF TimerInv, CallersTimers
    <3> QED
      BY <3>1, <3>2, <3>3, <3>4 DEF TimerInv, CallersTimers
  <2> QED
    BY <2>1, <2>2
<1>10. CommandsTimers'
  <2> SUFFICES ASSUME NEW x \in Timers, NEW i \in 1 .. Len(cmds'), Concerns(i, x)'
               PROVE  /\ timer[x] \in {"dormant", "active"}
                      /\ \A j \in 1 .. Len(cmds') : j < i =>
                           /\ ~Is(j, "delete", x)'
                           /\ ~Is(i, "start", x)' \/ ~Concerns(j, x)'
                      /\ Is(i, "delete", x)' => x \in stopped'
    BY <1>1 DEF CommandsTimers
  <2>1. \A j \in 1 .. Len(cmds') : j < i => j \in 1 .. n
    BY <1>1, <1>2
  <2>2. CASE i \in 1 .. n
    <3>1. stopped \subseteq stopped'
      BY <1>6
    <3> QED
      BY <1>1, <1>3, <1>4, <2>1, <2>2, <3>1 DEF TimerInv, CommandsTimers
  <2>3. CASE i = n + 1
    <3>1. x = tm
      BY <1>4, <2>3
    <3>2. Is(i, "delete", x)' => x \in stopped'
      BY <1>3, <1>6, <2>3, <3>1
    <3>3. \A j \in 1 .. n : ~Is(j, "delete", tm)' /\ (op[t] = "start" => ~Concerns(j, tm)')
      BY <1>3, <1>4, <1>8
    <3>4. Is(i, "start", x)' => op[t] = "start"
      BY <1>3, <2>3
    <3> QED
      BY <1>8, <2>1, <3>1, <3>2, <3>3, <3>4
  <2> QED
    BY <1>5, <2>2, <2>3
<1>11. StoppedTimers'
  <2> SUFFICES ASSUME NEW x \in stopped'
               PROVE  /\ timer[x] \notin {"none", "lost"}
                      /\ timer[x] = "active" => Final(x)'
                      /\ (\E i \in 1 .. Len(cmds') : Is(i, "start", x)') => Final(x)'
    BY <1>1 DEF StoppedTimers
  <2>1. CASE x = tm
    <3>1. op[t] \in {"stop", "delete"}
      BY <1>1, <1>6, <1>8, <2>1
    <3>2. Is(n + 1, "stop", x)' \/ Is(n + 1, "delete", x)'
      BY <1>3, <2>1, <3>1
    <3>3. n + 1 \in 1 .. Len(cmds') /\ \A j \in n + 1 .. Len(cmds') : j = n + 1
      BY <1>1, <1>2
    <3>4. ~Is(n + 1, "start", x)'
      BY <1>3, <3>1
    <3>5. Final(x)'
      BY <3>2, <3>3, <3>4 DEF Final
    <3> QED
      BY <1>8, <2>1, <3>5
  <2>2. CASE x # tm
    <3>1. x \in stopped
      BY <1>6, <2>2
    <3>2. ASSUME Final(x) PROVE Final(x)'
      <4>1. PICK i \in 1 .. n :
              /\ Is(i, "stop", x) \/ Is(i, "delete", x)
              /\ \A j \in i .. n : ~Is(j, "start", x)
        BY <1>1, <3>2 DEF Final
      <4>2. i \in 1 .. Len(cmds') /\ \A j \in i .. Len(cmds') : (j \in i .. n /\ j \in 1 .. n) \/ j = n + 1
        BY <1>1, <1>2
      <4> QED
        BY <1>3, <2>2, <4>1, <4>2 DEF Final
    <3> QED
      BY <1>1, <1>3, <1>5, <2>2, <3>1, <3>2 DEF TimerInv, StoppedTimers
  <2> QED
    BY <2>1, <2>2
<1> QED
  BY <1>9, <1>10, <1>11 DEF TimerInv

\* The timer service takes the first command: what follows it is still in order, and a
\* timer that it deletes is in no other command and in no caller's hands.
LEMMA TimerDaemon ==
  ASSUME TypeOK, TimerInv, DaemonCommand
  PROVE  TimerInv'
<1>0. PICK n : n = Len(cmds)
  OBVIOUS
<1>1. /\ cmds \in Seq(Commands) /\ cmds # <<>> /\ cmds' = Tail(cmds) /\ stopped \subseteq Timers
      /\ UNCHANGED <<stopped, op, arg>>
      /\ timer \in [Timers -> {"none", "dormant", "active", "deleted", "lost"}]
      /\ \A u \in Callers : Commanding(u) => arg[u] \in Timers
  BY DEF TypeOK, DaemonCommand, Commanding, timing
<1>2. /\ n \in Nat \ {0} /\ Len(cmds') = n - 1 /\ Head(cmds) = cmds[1] /\ Head(cmds) \in Commands
      /\ \A i \in 1 .. n - 1 : cmds'[i] = cmds[i + 1] /\ i + 1 \in 1 .. n /\ 1 < i + 1
  BY <1>0, <1>1, TailElements
<1>3. \A i \in 1 .. n - 1 : \A c, x : Is(i, c, x)' <=> Is(i + 1, c, x)
  BY <1>2 DEF Is
<1>4. \A i \in 1 .. n - 1 : \A x : Concerns(i, x)' <=> Concerns(i + 1, x)
  BY <1>3 DEF Concerns
<1>5. 1 \in 1 .. n
  BY <1>2
<1>6. \/ UNCHANGED timer /\ \A x : ~Concerns(1, x)
      \/ \E c \in {"start", "stop", "delete"}, x \in Timers :
           Is(1, c, x) /\ Concerns(1, x) /\ timer' = [timer EXCEPT ![x] = NewState(c)]
  <2>1. CASE Head(cmds)[1] = "bits"
    BY <1>2, <2>1 DEF DaemonCommand, Concerns, Is
  <2>2. CASE Head(cmds)[1] # "bits"
    <3>1. Head(cmds)[1] \in {"start", "stop", "delete"} /\ Head(cmds)[2] \in Timers
          /\ Head(cmds) = <<Head(cmds)[1], Head(cmds)[2]>>
      BY <1>2, <2>2 DEF Commands
    <3>2. timer' = [timer EXCEPT ![Head(cmds)[2]] = NewState(Head(cmds)[1])]
      BY <2>2 DEF DaemonCommand
    <3> QED
      BY <1>2, <3>1, <3>2 DEF Is, Concerns
  <2> QED
    BY <2>1, <2>2
<1>7. \A x \in Timers :
        \/ timer'[x] = timer[x] /\ ~Concerns(1, x)
        \/ Is(1, "start", x) /\ timer'[x] = "active" /\ Concerns(1, x)
        \/ Is(1, "stop", x) /\ timer'[x] = "dormant" /\ Concerns(1, x)
        \/ Is(1, "delete", x) /\ timer'[x] = "deleted" /\ Concerns(1, x)
  <2>1. CASE UNCHANGED timer /\ \A x : ~Concerns(1, x)
    BY <2>1
  <2>2. CASE \E c \in {"start", "stop", "delete"}, x \in Timers :
               Is(1, c, x) /\ Concerns(1, x) /\ timer' = [timer EXCEPT ![x] = NewState(c)]
    <3>1. PICK c \in {"start", "stop", "delete"}, x \in Timers :
               Is(1, c, x) /\ Concerns(1, x) /\ timer' = [timer EXCEPT ![x] = NewState(c)]
      BY <2>2
    <3>2. timer'[x] = NewState(c) /\ \A y \in Timers : y # x => timer'[y] = timer[y]
      BY <1>1, <3>1
    <3>3. \A y : y # x => ~Concerns(1, y)
      BY <3>1 DEF Concerns, Is
    <3>4. \/ c = "start" /\ NewState(c) = "active"
          \/ c = "stop" /\ NewState(c) = "dormant"
          \/ c = "delete" /\ NewState(c) = "deleted"
      BY DEF NewState
    <3> QED
      BY <3>1, <3>2, <3>3, <3>4
  <2> QED
    BY <1>6, <2>1, <2>2
<1>8. \A t : Commanding(t)' <=> Commanding(t)
  BY <1>1 DEF Commanding
<1>9. CallersTimers'
  <2> SUFFICES ASSUME NEW u \in Callers, Commanding(u), NEW x, x = arg[u]
               PROVE  /\ timer'[x] \in {"dormant", "active"}
                      /\ x \notin stopped
                      /\ \A i \in 1 .. n - 1 :
                           /\ op[u] = "start" => ~Concerns(i, x)'
                           /\ ~Is(i, "delete", x)'
                      /\ \A v \in Callers : Commanding(v) /\ arg[v] = x => v = u
    BY <1>1, <1>2, <1>8 DEF CallersTimers
  <2>1. /\ timer[x] \in {"dormant", "active"} /\ x \in Timers /\ x \notin stopped
        /\ \A i \in 1 .. n : (op[u] = "start" => ~Concerns(i, x)) /\ ~Is(i, "delete", x)
        /\ \A v \in Callers : Commanding(v) /\ arg[v] = x => v = u
    BY <1>0, <1>1 DEF TimerInv, CallersTimers
  <2>2. timer'[x] \in {"dormant", "active"}
    BY <1>5, <1>7, <2>1
  <2> QED
    BY <1>2, <1>3, <1>4, <2>1, <2>2
<1>10. CommandsTimers'
  <2> SUFFICES ASSUME NEW x \in Timers, NEW i \in 1 .. n - 1, Concerns(i, x)'
               PROVE  /\ timer'[x] \in {"dormant", "active"}
                      /\ \A j \in 1 .. n - 1 : j < i =>
                           /\ ~Is(j, "delete", x)'
                           /\ ~Is(i, "start", x)' \/ ~Concerns(j, x)'
                      /\ Is(i, "delete", x)' => x \in stopped
    BY <1>1, <1>2 DEF CommandsTimers
  <2>1. i + 1 \in 1 .. n /\ 1 < i + 1 /\ Concerns(i + 1, x)
    BY <1>2, <1>4
  <2>2. /\ timer[x] \in {"dormant", "active"}
        /\ \A j \in 1 .. n : j < i + 1 => ~Is(j, "delete", x) /\ (~Is(i + 1, "start", x) \/ ~Concerns(j, x))
        /\ Is(i + 1, "delete", x) => x \in stopped
    BY <1>0, <2>1 DEF TimerInv, CommandsTimers
  <2>3. timer'[x] \in {"dormant", "active"}
    BY <1>5, <1>7, <2>1, <2>2
  <2>4. \A j \in 1 .. n - 1 : j < i => j + 1 \in 1 .. n /\ j + 1 < i + 1
    BY <1>2
  <2> QED
    BY <1>3, <1>4, <2>2, <2>3, <2>4
<1>11. StoppedTimers'
  <2> SUFFICES ASSUME NEW x \in stopped
               PROVE  /\ timer'[x] \notin {"none", "lost"}
                      /\ timer'[x] = "active" => Final(x)'
                      /\ (\E i \in 1 .. n - 1 : Is(i, "start", x)') => Final(x)'
    BY <1>1, <1>2 DEF StoppedTimers
  <2>1. /\ x \in Timers /\ timer[x] \notin {"none", "lost"}
        /\ timer[x] = "active" => Final(x)
        /\ (\E i \in 1 .. n : Is(i, "start", x)) => Final(x)
    BY <1>0, <1>1 DEF TimerInv, StoppedTimers
  <2>2. ASSUME Final(x), ~Concerns(1, x) \/ Is(1, "start", x) PROVE Final(x)'
    <3>1. PICK i \in 1 .. n :
            /\ Is(i, "stop", x) \/ Is(i, "delete", x)
            /\ \A j \in i .. n : ~Is(j, "start", x)
      BY <1>0, <2>2 DEF Final
    <3>2. i # 1
      BY <2>2, <3>1 DEF Concerns, Is
    <3>3. PICK k \in 1 .. n - 1 : k + 1 = i
      <4>1. i - 1 \in 1 .. n - 1 /\ (i - 1) + 1 = i
        BY <1>2, <3>2
      <4> QED
        BY <4>1
    <3>4. Is(k, "stop", x)' \/ Is(k, "delete", x)'
      BY <1>3, <3>1, <3>3
    <3>5. \A j \in k .. n - 1 : j \in 1 .. n - 1 /\ j + 1 \in i .. n
      BY <1>2, <3>3
    <3>6. \A j \in k .. n - 1 : ~Is(j, "start", x)'
      BY <1>3, <3>1, <3>5
    <3> QED
      BY <1>2, <3>4, <3>6 DEF Final
  <2>3. ASSUME NEW i \in 1 .. n - 1, Is(i, "start", x)'
        PROVE  Is(i + 1, "start", x) /\ i + 1 \in 1 .. n /\ ~Concerns(1, x)
    <3>1. Is(i + 1, "start", x) /\ i + 1 \in 1 .. n /\ 1 < i + 1
      BY <1>2, <1>3, <2>3
    <3>2. Concerns(i + 1, x)
      BY <3>1 DEF Concerns
    <3> QED
      BY <1>0, <1>5, <2>1, <3>1, <3>2 DEF TimerInv, CommandsTimers
  <2>4. timer'[x] = "active" => Final(x)'
    <3>1. CASE timer'[x] = timer[x] /\ ~Concerns(1, x)
      BY <2>1, <2>2, <3>1
    <3>2. CASE Is(1, "start", x)
      BY <1>5, <2>1, <2>2, <3>2
    <3> QED
      BY <1>7, <2>1, <3>1, <3>2
  <2>5. (\E i \in 1 .. n - 1 : Is(i, "start", x)') => Final(x)'
    BY <2>1, <2>2, <2>3
  <2>6. timer'[x] \notin {"none", "lost"}
    BY <1>7, <2>1
  <2> QED
    BY <2>4, <2>5, <2>6
<1> QED
  BY <1>9, <1>10, <1>11 DEF TimerInv

\* Every step keeps the timers' invariant.
LEMMA TimerStep ==
  ASSUME TypeOK, TimerInv, [Next]_vars
  PROVE  TimerInv'
<1> USE DEF timing, sends
<1>1. /\ timer \in [Timers -> {"none", "dormant", "active", "deleted", "lost"}]
      /\ op \in [Callers -> {"idle", "send", "signal", "result", "start", "stop", "delete"}]
      /\ arg \in [Callers -> Calls \cup Timers \cup {NoArg}]
      /\ \A t \in Callers : op[t] = "start" => arg[t] \in Timers
      /\ TypeOK'
  BY TypeStep DEF TypeOK
<1>2. timer' \in [Timers -> {"none", "dormant", "active", "deleted", "lost"}]
  BY <1>1 DEF TypeOK
<1>3. ASSUME NEW t \in Callers, NEW step, NEW x, step \notin {"start", "stop", "delete"},
             op' = [op EXCEPT ![t] = step], arg' = [arg EXCEPT ![t] = x]
      PROVE  \A u \in Callers : Commanding(u)' => Commanding(u) /\ op'[u] = op[u] /\ arg'[u] = arg[u]
  BY <1>1, <1>3 DEF Commanding
<1>4. ASSUME NEW t \in Callers,
             CallFun(t) \/ Send(t) \/ SendTimesOut(t) \/ Signal(t) \/ Result(t)
             \/ (CommandTimesOut(t) /\ op[t] # "start")
      PROVE  TimerInv'
  <2>1. UNCHANGED <<cmds, stopped, timer>>
    BY <1>4 DEF CallFun, Send, SendTimesOut, Signal, Result, CommandTimesOut
  <2>2. PICK step, x : /\ step \notin {"start", "stop", "delete"}
                       /\ op' = [op EXCEPT ![t] = step] /\ arg' = [arg EXCEPT ![t] = x]
    BY <1>4 DEF CallFun, Send, SendTimesOut, Signal, Result, CommandTimesOut, Enter, Leave
  <2>3. \A u \in Callers : Commanding(u)' => Commanding(u) /\ op'[u] = op[u] /\ arg'[u] = arg[u]
    BY <1>3, <2>2
  <2>4. UNCHANGED <<cmds, stopped>>
        /\ \A tm \in Timers : timer'[tm] = timer[tm] \/ (timer[tm] = "active" /\ timer'[tm] = "dormant")
    BY <2>1
  <2> QED
    BY <1>2, <2>3, <2>4, TimerKept
<1>5. ASSUME NEW t \in Callers, CallFunByTimer(t) PROVE TimerInv'
  <2>1. PICK tm \in Timers : /\ timer[tm] = "none" /\ timer' = [timer EXCEPT ![tm] = "dormant"]
                              /\ Enter(t, "start", tm)
    BY <1>5 DEF CallFunByTimer
  <2>2. UNCHANGED <<cmds, stopped>> /\ ~Commanding(t)
    BY <1>5 DEF CallFunByTimer, MayCall, Commanding
  <2> QED
    BY <2>1, <2>2, TimerTaken
<1>6. ASSUME NEW t \in Callers, StopFun(t) PROVE TimerInv'
  <2>1. PICK tm \in Timers : Handed(tm) /\ Enter(t, "stop", tm)
    BY <1>6 DEF StopFun
  <2>2. UNCHANGED <<cmds, stopped, timer>> /\ ~Commanding(t)
    BY <1>6 DEF StopFun, MayCall, Commanding
  <2> QED
    BY <2>1, <2>2, TimerTaken
<1>7. ASSUME NEW t \in Callers, CommandTimesOut(t), op[t] = "start" PROVE TimerInv'
  BY <1>7, TimerLost DEF CommandTimesOut
<1>8. ASSUME NEW t \in Callers, Command(t) PROVE TimerInv'
  BY <1>8, TimerCommand
<1>9. ASSUME UNCHANGED <<cmds, stopped, timer, op, arg>> PROVE TimerInv'
  <2>1. \A u \in Callers : Commanding(u)' => Commanding(u) /\ op'[u] = op[u] /\ arg'[u] = arg[u]
    BY <1>9 DEF Commanding
  <2>2. UNCHANGED <<cmds, stopped>>
        /\ \A x \in Timers : timer'[x] = timer[x] \/ (timer[x] = "active" /\ timer'[x] = "dormant")
    BY <1>9
  <2> QED
    BY <1>2, <2>1, <2>2, TimerKept
<1>10. ASSUME CallFunFromIsr PROVE TimerInv'
  <2>1. UNCHANGED <<stopped, timer, op, arg>>
    BY <1>10 DEF CallFunFromIsr
  <2>2. UNCHANGED cmds \/ cmds' = Append(cmds, <<"bits", NoArg>>)
    BY <1>10 DEF CallFunFromIsr
  <2> QED
    BY <1>9, <2>1, <2>2, TimerBits
<1>11. ASSUME NEW tm \in Timers, Expire(tm) PROVE TimerInv'
  <2>1. UNCHANGED <<cmds, stopped>> /\ Daemon \in Callers
        /\ Enter(Daemon, "send", NextCall(tm))
    BY <1>11 DEF Expire, Callers
  <2>2. \A x \in Timers : timer'[x] = timer[x] \/ (timer[x] = "active" /\ timer'[x] = "dormant")
    <3>1. timer[tm] = "active"
      BY <1>11 DEF Expire
    <3>2. PICK y \in {"active", "dormant"} : timer' = [timer EXCEPT ![tm] = y]
      BY <1>11 DEF Expire
    <3>3. timer'[tm] = y /\ \A x \in Timers : x # tm => timer'[x] = timer[x]
      BY <1>1, <3>2
    <3> QED
      BY <3>1, <3>3
  <2>3. \A u \in Callers : Commanding(u)' => Commanding(u) /\ op'[u] = op[u] /\ arg'[u] = arg[u]
    BY <1>3, <2>1 DEF Enter
  <2> QED
    BY <1>2, <2>1, <2>2, <2>3, TimerKept
<1>12. ASSUME TakeBit \/ Receive \/ RunReturns \/ Drained \/ UNCHANGED vars PROVE TimerInv'
  BY <1>9, <1>12 DEF TakeBit, Receive, RunReturns, Drained, vars
<1>13. ASSUME NEW t \in Callers, Caller(t) PROVE TimerInv'
  <2>1. \/ CallFun(t) \/ Send(t) \/ SendTimesOut(t) \/ Signal(t) \/ Result(t)
        \/ CommandTimesOut(t) \/ CallFunByTimer(t) \/ StopFun(t) \/ Command(t)
    BY <1>13 DEF Caller, InCall
  <2>2. CommandTimesOut(t) => TimerInv'
    BY <1>4, <1>7
  <2> QED
    BY <1>4, <1>5, <1>6, <1>8, <2>1, <2>2
<1> QED
  BY <1>10, <1>11, <1>12, <1>13, TimerDaemon DEF Next

\* The inductive invariant of the timers: a timer is in one caller's hands at a time, its
\* commands lie in the queue in the order start, stop, delete, and a stopped one
\* has the command that stops it behind all that could start it.
THEOREM TimersCorrect == Spec => []TimerInv
<1>1. Init => TimerInv
  <2> SUFFICES ASSUME Init PROVE TimerInv
    OBVIOUS
  <2>1. Len(cmds) = 0 /\ stopped = {} /\ \A t \in Callers : ~Commanding(t)
    BY DEF Init, Commanding
  <2> QED
    BY <2>1 DEF TimerInv, CallersTimers, CommandsTimers, StoppedTimers
<1>2. TypeOK /\ TimerInv /\ [Next]_vars => TimerInv'
  BY TimerStep
<1> QED
  BY <1>1, <1>2, TypeCorrect, PTL DEF Spec

\* The timer service never gets a command for a timer that it has deleted, although the
\* commands of mainLoop_stopFun may time out one by one and be tried again.
THEOREM DeletedTimersAreLeftAlone == Spec => []NoCommandAfterDelete
<1>1. TypeOK /\ TimerInv => NoCommandAfterDelete
  <2> SUFFICES ASSUME TypeOK, TimerInv, NEW i \in 1 .. Len(cmds), cmds[i][1] # "bits"
               PROVE  /\ timer[cmds[i][2]] \notin {"none", "lost", "deleted"}
                      /\ \A j \in 1 .. Len(cmds) : j < i /\ cmds[j][1] = "delete" => cmds[j][2] # cmds[i][2]
    BY DEF NoCommandAfterDelete
  <2>1. \A k \in 1 .. Len(cmds) : cmds[k] \in Commands
    BY DEF TypeOK
  <2>2. PICK c \in {"start", "stop", "delete"}, tm \in Timers : cmds[i] = <<c, tm>>
    BY <2>1 DEF Commands
  <2>3. Concerns(i, tm) /\ cmds[i][2] = tm
    BY <2>2 DEF Concerns, Is
  <2>4. timer[tm] \in {"dormant", "active"} /\ \A j \in 1 .. Len(cmds) : j < i => ~Is(j, "delete", tm)
    BY <2>3 DEF TimerInv, CommandsTimers
  <2>5. \A j \in 1 .. Len(cmds) : cmds[j][1] = "delete" /\ cmds[j][2] = tm => Is(j, "delete", tm)
    BY <2>1 DEF Commands, Is
  <2> QED
    BY <2>3, <2>4, <2>5
<1> QED
  BY <1>1, TypeCorrect, TimersCorrect, PTL

\* Once mainLoop_stopFun has returned true the timer is stopped, or stops for good when
\* the timer service reads the command that is in its queue.
THEOREM StoppedTimersStayStopped == Spec => []StopIsFinal
<1>1. TypeOK /\ TimerInv => StopIsFinal
  <2> SUFFICES ASSUME TypeOK, TimerInv, NEW tm \in stopped,
                      timer[tm] = "active" \/ \E i \in 1 .. Len(cmds) : cmds[i] = <<"start", tm>>
               PROVE  \E i \in 1 .. Len(cmds) :
                        /\ cmds[i][1] \in {"stop", "delete"} /\ cmds[i][2] = tm
                        /\ \A j \in i .. Len(cmds) : cmds[j] # <<"start", tm>>
    BY DEF StopIsFinal
  <2>1. Final(tm)
    BY DEF TimerInv, StoppedTimers, Is
  <2>2. PICK i \in 1 .. Len(cmds) :
          /\ Is(i, "stop", tm) \/ Is(i, "delete", tm)
          /\ \A j \in i .. Len(cmds) : ~Is(j, "start", tm)
    BY <2>1 DEF Final
  <2>3. cmds[i][1] \in {"stop", "delete"} /\ cmds[i][2] = tm
    BY <2>2 DEF Is
  <2>4. \A j \in i .. Len(cmds) : cmds[j] # <<"start", tm>>
    BY <2>2 DEF Is
  <2> QED
    BY <2>3, <2>4
<1> QED
  BY <1>1, TypeCorrect, TimersCorrect, PTL
================================================================================
