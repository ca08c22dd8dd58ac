------------------------------ MODULE UoCallbacks ------------------------------
(***************************************************************************)
(* The publish/subscribe registry of uout/callbacks.cc.                    *)
(*                                                                         *)
(* A table of cbs_size slots holds call-backs with the flags they were     *)
(* subscribed with.  Subscribing, un-subscribing and the two halves of     *)
(* uoCb_filter run under uoCb_mutex; calling the call-backs does not: a    *)
(* publisher works on slot numbers it collected earlier and reads the slot *)
(* again when it calls, and uoCb_publish_wsJson never locks at all.        *)
(*                                                                         *)
(* One step is one critical section, one unlocked store seen by an         *)
(* unlocked reader, or one call of a call-back.  The call-backs' own       *)
(* actions are left to the modules of their components; a call-back that   *)
(* (un)subscribes is covered by a subscriber that does so at that moment.  *)
(***************************************************************************)
EXTENDS Naturals, Sequences

CONSTANTS
  N,             \* cbs_size, the number of slots
  Callbacks,     \* the functions that may be subscribed
  NoCb,          \* a null pointer in the table
  Publishers,    \* tasks that publish
  Subscribers,   \* tasks that subscribe and un-subscribe
  NoTask,        \* the mutex is free
  NoSub,         \* the task is not inside uoCb_subscribe
  Offers,        \* per call-back: the flags its component subscribes it with
  Kinds,         \* which publications the publishers make
  AsTxt          \* CONFIG_UOUT_PUBLISH_IP_ADDR_AS_TXT, CONFIG_UOUT_PUBLISH_LOG_AS_TXT

Events  == {"pin_change", "ip_address_change", "gen_app_log_message",
            "gen_app_error_message"}
Formats == {"raw", "json", "txt"}
Targets == {"websocket", "tcp_term"}

\* uo_flagsT: three bit sets.
Flags == [evt : SUBSET Events, fmt : SUBSET Formats, tgt : SUBSET Targets]

NoFlags == [evt |-> {}, fmt |-> {}, tgt |-> {}]

Slots == 0 .. N - 1
NoSlot == N

ASSUME ConstantsOK ==
  /\ N \in Nat \ {0}
  /\ NoCb \notin Callbacks
  /\ Offers \in [Callbacks -> SUBSET Flags]
  /\ Kinds \subseteq {"pinChange", "ipAddress", "log", "error"}
  /\ AsTxt \in BOOLEAN
  /\ NoTask \notin Subscribers
  /\ NoSub \notin [slot : Slots, cb : Callbacks, flags : Flags, todo : SUBSET {"cb", "flags"}]

VARIABLES
  cb, flags,   \* uoCb_cbs: the function and the flags of each slot
  enabled,     \* uoCb_cbs_enable
  mutex,       \* the subscriber inside uoCb_mutex, or NoTask
  sub,         \* per subscriber: the stores uoCb_subscribe has yet to do
  pc,          \* per publisher: where it is
  msg,         \* per publisher: the flags of the message in hand
  todo,        \* per publisher: the messages this publication sends after it
  idxs,        \* per publisher: the slots (uoCb_Idxs) yet to be visited
  seen,        \* per publisher: the call-back uoCb_publish_wsJson has loaded
  \* History of the message in hand, for the properties alone:
  calls,       \* per publisher: the slots and call-backs called so far
  stable,      \* per publisher: call-backs that wanted it from the start on
  wanted,      \* per publisher: call-backs that wanted it at some moment
  taken        \* per publisher: slots given to another call-back meanwhile

table   == <<cb, flags, enabled>>
history == <<calls, stable, wanted, taken>>
pubvars == <<pc, msg, todo, idxs, seen>>
vars    == <<table, mutex, sub, pubvars, history>>

--------------------------------------------------------------------------------
(* The messages of the publish functions, in the order they are sent. *)

Message(evt, fmt) == [evt |-> evt, fmt |-> {fmt}, tgt |-> {}]

\* One message of a publication: `lossy' if it is formatted into a buffer that
\* may be too small for it, in which case it is not published.
Sent(evt, fmt, lossy) == [flags |-> Message(evt, fmt), lossy |-> lossy]

Txt(evt, lossy) == IF AsTxt THEN <<Sent(evt, "txt", lossy)>> ELSE <<>>

PinChange == <<Sent({"pin_change"}, "raw", FALSE), Sent({"pin_change"}, "json", FALSE)>>

IpAddress == <<Sent({"ip_address_change"}, "json", FALSE)>> \o Txt({"ip_address_change"}, FALSE)

LogMessage(isError) ==
  LET evt == {"gen_app_log_message"} \cup (IF isError THEN {"gen_app_error_message"} ELSE {})
  IN  <<Sent(evt, "json", TRUE)>> \o Txt(evt, TRUE)

Publication(kind) ==
  CASE kind = "pinChange" -> PinChange
    [] kind = "ipAddress" -> IpAddress
    [] kind = "log"       -> LogMessage(FALSE)
    [] kind = "error"     -> LogMessage(TRUE)

WsJson == [evt |-> {}, fmt |-> {"json"}, tgt |-> {"websocket"}]

--------------------------------------------------------------------------------
(* What the properties mean by a subscriber that wants a message: the words *)
(* of uo_callbacks.h, "any in flags_evt or flags_tgt matches" and the       *)
(* format bit.                                                              *)

Wants(f, m) == (f.evt \cap m.evt # {} \/ f.tgt \cap m.tgt # {}) /\ f.fmt \cap m.fmt # {}

Subscribed(m) ==
  {c \in Callbacks : \E i \in Slots : enabled[i] /\ cb[i] = c /\ Wants(flags[i], m)}

\* Every step that changes the table updates who wants the messages in hand.
Watch ==
  /\ stable' = [p \in Publishers |-> stable[p] \cap Subscribed(msg[p])']
  /\ wanted' = [p \in Publishers |->
                  IF pc[p] = "idle" THEN {} ELSE wanted[p] \cup Subscribed(msg[p])']

--------------------------------------------------------------------------------
(* uoCb_subscribe and uoCb_unsubscribe *)

First(S) == CHOOSE i \in S : \A j \in S : i <= j

SlotsOf(c) == {i \in Slots : cb[i] = c}

\* A bug: pass 0 is forgotten.
SlotForAnew(c) ==
  LET disabled == {i \in Slots : ~enabled[i]}
  IN  CASE SlotsOf(NoCb) # {} -> First(SlotsOf(NoCb))
        [] SlotsOf(NoCb) = {} /\ disabled # {} -> First(disabled)
        [] OTHER -> NoSlot

\* A bug: pass 2 before pass 1.
SlotForEager(c) ==
  LET disabled == {i \in Slots : ~enabled[i]}
  IN  CASE SlotsOf(c) # {} -> First(SlotsOf(c))
        [] SlotsOf(c) = {} /\ disabled # {} -> First(disabled)
        [] OTHER -> NoSlot

\* The three passes of uoCb_subscribe: the call-back's own slot, else an empty
\* one, else a disabled one.
SlotFor(c) ==
  LET disabled == {i \in Slots : ~enabled[i]}
  IN  CASE SlotsOf(c) # {} -> First(SlotsOf(c))
        [] SlotsOf(c) = {} /\ SlotsOf(NoCb) # {} -> First(SlotsOf(NoCb))
        [] SlotsOf(c) = {} /\ SlotsOf(NoCb) = {} /\ disabled # {} -> First(disabled)
        [] OTHER -> NoSlot

Subscribe(s, c, f) ==
  /\ mutex = NoTask
  /\ SlotFor(c) # NoSlot
  /\ mutex' = s
  /\ sub' = [sub EXCEPT ![s] = [slot |-> SlotFor(c), cb |-> c, flags |-> f,
                                todo |-> {"cb", "flags"}]]
  /\ UNCHANGED <<table, pubvars, history>>

\* A bug: the early return leaves the mutex locked.
SubscribeFullLocked(s, c) ==
  /\ mutex = NoTask
  /\ SlotFor(c) = NoSlot
  /\ mutex' = s
  /\ UNCHANGED <<table, sub, pubvars, history>>

\* No pass finds a slot: uoCb_subscribe returns false.
SubscribeFull(s, c) ==
  /\ mutex = NoTask
  /\ SlotFor(c) = NoSlot
  /\ UNCHANGED vars

\* The stores to the slot, in any order the compiler may choose: readers that
\* do not lock can see the slot between them.
Store(s) ==
  /\ sub[s] # NoSub
  /\ \E field \in sub[s].todo :
       LET i == sub[s].slot
       IN  /\ sub' = [sub EXCEPT ![s].todo = @ \ {field}]
           /\ cb' = IF field = "cb" THEN [cb EXCEPT ![i] = sub[s].cb] ELSE cb
           /\ flags' = IF field = "flags" THEN [flags EXCEPT ![i] = sub[s].flags] ELSE flags
           /\ taken' = [p \in Publishers |->
                          IF field = "cb" /\ cb[i] \notin {NoCb, sub[s].cb} /\ pc[p] # "idle"
                          THEN taken[p] \cup {i} ELSE taken[p]]
  /\ UNCHANGED <<enabled, mutex, pubvars, calls>>
  /\ Watch

SubscribeReturn(s) ==
  /\ sub[s] # NoSub
  /\ sub[s].todo = {}
  /\ enabled' = [enabled EXCEPT ![sub[s].slot] = TRUE]
  /\ sub' = [sub EXCEPT ![s] = NoSub]
  /\ mutex' = NoTask
  /\ UNCHANGED <<cb, flags, pubvars, calls, taken>>
  /\ Watch

\* A bug: un-subscribing also clears the slot's pointer.
UnsubscribeClear(s, c) ==
  /\ mutex = NoTask
  /\ SlotsOf(c) # {}
  /\ enabled' = [enabled EXCEPT ![First(SlotsOf(c))] = FALSE]
  /\ cb' = [cb EXCEPT ![First(SlotsOf(c))] = NoCb]
  /\ UNCHANGED <<flags, mutex, sub, pubvars, calls, taken>>
  /\ Watch

\* The slot is disabled and keeps its pointer and flags.  (Without such a slot
\* uoCb_unsubscribe returns false and changes nothing.)
Unsubscribe(s, c) ==
  /\ mutex = NoTask
  /\ SlotsOf(c) # {}
  /\ enabled' = [enabled EXCEPT ![First(SlotsOf(c))] = FALSE]
  /\ UNCHANGED <<cb, flags, mutex, sub, pubvars, calls, taken>>
  /\ Watch

--------------------------------------------------------------------------------
(* Publishing: uoCb_publish_pinChange, _ipAddress and _logMessage *)

Publish(p) ==
  /\ pc[p] = "idle"
  /\ \E kind \in Kinds :
       /\ msg' = [msg EXCEPT ![p] = Head(Publication(kind)).flags]
       /\ todo' = [todo EXCEPT ![p] = Publication(kind)]
  /\ pc' = [pc EXCEPT ![p] = "collect"]
  /\ UNCHANGED <<table, mutex, sub, idxs, seen, history>>

\* get_all_callbacks: the enabled slots, in one critical section.
Collect(p) ==
  /\ pc[p] = "collect"
  /\ mutex = NoTask
  /\ idxs' = [idxs EXCEPT ![p] = {i \in Slots : enabled[i]}]
  /\ pc' = [pc EXCEPT ![p] = "filter"]
  /\ stable' = [stable EXCEPT ![p] = Subscribed(msg[p])]
  /\ wanted' = [wanted EXCEPT ![p] = Subscribed(msg[p])]
  /\ calls' = [calls EXCEPT ![p] = {}]
  /\ UNCHANGED <<table, mutex, sub, msg, todo, seen, taken>>

Matches(f, m) ==
  /\ f.evt \cap m.evt # {} \/ f.tgt \cap m.tgt # {}
  /\ f.fmt \cap m.fmt # {}

\* The message in hand is done with: the publication goes on or returns.
NextMessage(p) ==
  LET rest == Tail(todo[p])
  IN  /\ todo' = [todo EXCEPT ![p] = rest]
      /\ pc' = [pc EXCEPT ![p] = IF rest = <<>> THEN "idle" ELSE "collect"]
      /\ msg' = [msg EXCEPT ![p] = IF rest = <<>> THEN NoFlags ELSE Head(rest).flags]
      /\ idxs' = [idxs EXCEPT ![p] = {}]
      /\ calls' = [calls EXCEPT ![p] = {}]
      /\ stable' = [stable EXCEPT ![p] = {}]
      /\ wanted' = [wanted EXCEPT ![p] = {}]
      /\ taken' = [taken EXCEPT ![p] = {}]

\* A bug: the formats are not compared, whoever is interested in the event will do.
FilterAnyFormat(p) ==
  /\ pc[p] = "filter"
  /\ mutex = NoTask
  /\ idxs' = [idxs EXCEPT ![p] = {i \in @ : flags[i].evt \cap msg[p].evt # {}}]
  /\ pc' = [pc EXCEPT ![p] = "deliver"]
  /\ taken' = [taken EXCEPT ![p] = {}]
  /\ UNCHANGED <<table, mutex, sub, msg, todo, seen, calls, stable, wanted>>

\* uoCb_filter(flags, idxs) in a second critical section, which looks at the
\* flags the slots have now and no more at whether they are enabled.
Filter(p) ==
  /\ pc[p] = "filter"
  /\ mutex = NoTask
  /\ idxs' = [idxs EXCEPT ![p] = {i \in @ : Matches(flags[i], msg[p])}]
  /\ pc' = [pc EXCEPT ![p] = "deliver"]
  /\ taken' = [taken EXCEPT ![p] = {}]
  /\ UNCHANGED <<table, mutex, sub, msg, todo, seen, calls, stable, wanted>>

\* The text does not fit the buffer: the message is not published.
Overflow(p) ==
  /\ pc[p] = "deliver"
  /\ Head(todo[p]).lossy
  /\ calls[p] = {} /\ idxs[p] # {}
  /\ NextMessage(p)
  /\ UNCHANGED <<table, mutex, sub, seen>>

\* A bug: an early return of the loop at the first slot that was disabled.
DeliverEnabledOnly(p) ==
  /\ pc[p] = "deliver"
  /\ idxs[p] # {}
  /\ LET i == First(idxs[p])
     IN  IF ~enabled[i]
         THEN idxs' = [idxs EXCEPT ![p] = {}] /\ UNCHANGED calls
         ELSE /\ idxs' = [idxs EXCEPT ![p] = @ \ {i}]
              /\ calls' = [calls EXCEPT ![p] = @ \cup {<<i, cb[i]>>}]
  /\ UNCHANGED <<table, mutex, sub, pc, msg, todo, seen, stable, wanted, taken>>

\* One round of the loop of uoCb_publish: the slot's pointer is loaded now; a
\* null pointer ends the loop, any other is called.
Deliver(p) ==
  /\ pc[p] = "deliver"
  /\ idxs[p] # {}
  /\ LET i == First(idxs[p])
     IN  IF cb[i] = NoCb
         THEN idxs' = [idxs EXCEPT ![p] = {}] /\ UNCHANGED calls
         ELSE /\ idxs' = [idxs EXCEPT ![p] = @ \ {i}]
              /\ calls' = [calls EXCEPT ![p] = @ \cup {<<i, cb[i]>>}]
  /\ UNCHANGED <<table, mutex, sub, pc, msg, todo, seen, stable, wanted, taken>>

Finish(p) ==
  /\ pc[p] \in {"deliver", "wsCheck"}
  /\ idxs[p] = {}
  /\ NextMessage(p)
  /\ UNCHANGED <<table, mutex, sub, seen>>

--------------------------------------------------------------------------------
(* Publishing: uoCb_publish_wsJson, which visits every slot without a lock *)

PublishWs(p) ==
  /\ pc[p] = "idle"
  /\ pc' = [pc EXCEPT ![p] = "wsCheck"]
  /\ msg' = [msg EXCEPT ![p] = WsJson]
  /\ todo' = [todo EXCEPT ![p] = <<[flags |-> WsJson, lossy |-> FALSE]>>]
  /\ idxs' = [idxs EXCEPT ![p] = Slots]
  /\ stable' = [stable EXCEPT ![p] = Subscribed(WsJson)]
  /\ wanted' = [wanted EXCEPT ![p] = Subscribed(WsJson)]
  /\ UNCHANGED <<table, mutex, sub, seen, calls, taken>>

\* A slot that is empty or without the websocket bit is skipped; whether it is
\* enabled is not looked at.
WsCheck(p) ==
  /\ pc[p] = "wsCheck"
  /\ idxs[p] # {}
  /\ LET i == First(idxs[p])
     IN  IF cb[i] = NoCb \/ "websocket" \notin flags[i].tgt
         THEN idxs' = [idxs EXCEPT ![p] = @ \ {i}] /\ UNCHANGED <<pc, seen>>
         ELSE /\ pc' = [pc EXCEPT ![p] = "wsCall"]
              /\ seen' = [seen EXCEPT ![p] = cb[i]]
              /\ UNCHANGED idxs
  /\ UNCHANGED <<table, mutex, sub, msg, todo, history>>

\* The source reads the pointer a second time for the call; a build may use the
\* value it has already loaded.
WsCall(p) ==
  /\ pc[p] = "wsCall"
  /\ LET i == First(idxs[p])
     IN  /\ \E c \in {seen[p], cb[i]} : calls' = [calls EXCEPT ![p] = @ \cup {<<i, c>>}]
         /\ idxs' = [idxs EXCEPT ![p] = @ \ {i}]
  /\ pc' = [pc EXCEPT ![p] = "wsCheck"]
  /\ seen' = [seen EXCEPT ![p] = NoCb]
  /\ UNCHANGED <<table, mutex, sub, msg, todo, stable, wanted, taken>>

--------------------------------------------------------------------------------

Init ==
  /\ cb = [i \in Slots |-> NoCb]
  /\ flags = [i \in Slots |-> NoFlags]
  /\ enabled = [i \in Slots |-> FALSE]
  /\ mutex = NoTask
  /\ sub = [s \in Subscribers |-> NoSub]
  /\ pc = [p \in Publishers |-> "idle"]
  /\ msg = [p \in Publishers |-> NoFlags]
  /\ todo = [p \in Publishers |-> <<>>]
  /\ idxs = [p \in Publishers |-> {}]
  /\ seen = [p \in Publishers |-> NoCb]
  /\ calls = [p \in Publishers |-> {}]
  /\ stable = [p \in Publishers |-> {}]
  /\ wanted = [p \in Publishers |-> {}]
  /\ taken = [p \in Publishers |-> {}]

Subscriber(s) ==
  \/ \E c \in Callbacks : \E f \in Offers[c] : Subscribe(s, c, f)
  \/ \E c \in Callbacks : SubscribeFull(s, c)
  \/ \E c \in Callbacks : Unsubscribe(s, c)
  \/ Store(s)
  \/ SubscribeReturn(s)

Publisher(p) ==
  \/ Publish(p) \/ PublishWs(p)
  \/ Collect(p) \/ Filter(p) \/ Overflow(p) \/ Deliver(p)
  \/ WsCheck(p) \/ WsCall(p) \/ Finish(p)

Next ==
  \/ \E s \in Subscribers : Subscriber(s)
  \/ \E p \in Publishers : Publisher(p)

Spec == Init /\ [][Next]_vars

\* A task inside an operation keeps running.  The locking steps are strongly
\* fair: a FreeRTOS mutex is given to the longest waiting task of the highest
\* priority, so subscribers cannot keep a publisher out forever.
Fairness ==
  /\ \A s \in Subscribers : WF_vars(Store(s) \/ SubscribeReturn(s))
  /\ \A p \in Publishers :
       /\ SF_vars(Collect(p))
       /\ SF_vars(Filter(p))
       /\ WF_vars(Deliver(p) \/ WsCheck(p) \/ WsCall(p) \/ Finish(p))

FairSpec == Spec /\ Fairness

--------------------------------------------------------------------------------
(* Properties *)

Subscription == [slot : Slots, cb : Callbacks, flags : Flags, todo : SUBSET {"cb", "flags"}]

SentMessage == [flags : Flags, lossy : BOOLEAN]

TableType ==
  /\ cb \in [Slots -> Callbacks \cup {NoCb}]
  /\ flags \in [Slots -> Flags]
  /\ enabled \in [Slots -> BOOLEAN]

SubscriberType ==
  /\ mutex \in Subscribers \cup {NoTask}
  /\ sub \in [Subscribers -> Subscription \cup {NoSub}]
  /\ \A s \in Subscribers : (mutex = s) <=> (sub[s] # NoSub)

PublisherType ==
  /\ pc \in [Publishers -> {"idle", "collect", "filter", "deliver", "wsCheck", "wsCall"}]
  /\ msg \in [Publishers -> Flags]
  /\ todo \in [Publishers -> Seq(SentMessage)]
  /\ \A p \in Publishers : (pc[p] = "idle") <=> (todo[p] = <<>>)
  /\ idxs \in [Publishers -> SUBSET Slots]
  /\ \A p \in Publishers : pc[p] = "wsCall" => idxs[p] # {}
  /\ seen \in [Publishers -> Callbacks \cup {NoCb}]

HistoryType ==
  /\ calls \in [Publishers -> SUBSET (Slots \X (Callbacks \cup {NoCb}))]
  /\ stable \in [Publishers -> SUBSET Callbacks]
  /\ wanted \in [Publishers -> SUBSET Callbacks]
  /\ taken \in [Publishers -> SUBSET Slots]

\* Every variable has its type; the subscriber inside uoCb_subscribe is the one that
\* holds the mutex, and a publisher is idle when it has nothing left to send.
TypeOK == TableType /\ SubscriberType /\ PublisherType /\ HistoryType

\* No call-back occupies two slots, however subscribing, re-subscribing and
\* un-subscribing interleave: otherwise uoCb_unsubscribe, which disables the first
\* one only, could not silence it.
AtMostOneSlot ==
  \A i, j \in Slots : cb[i] = cb[j] /\ cb[i] # NoCb => i = j

\* The null check of uoCb_publish, with its FIXME about call-backs un-subscribed by
\* another task, is never taken: a slot number in a publisher's hands always
\* refers to a slot with a function in it.
EarlyReturnDead ==
  \A p \in Publishers :
    pc[p] \in {"filter", "deliver"} => \A i \in idxs[p] : cb[i] # NoCb

\* uoCb_publish calls a call-back only if it was subscribed for the message at some
\* moment since uoCb_filter began, and calls none twice, unless the slot was
\* given to another call-back after the filter: what publishing without the
\* lock may go wrong on is that hand-over and nothing else.
NoStrayDelivery ==
  \A p \in Publishers : pc[p] = "deliver" =>
    \A x, y \in calls[p] : x[1] \notin taken[p] /\ y[1] \notin taken[p] =>
      /\ x[2] \in wanted[p]
      /\ x[2] = y[2] => x = y

\* A call-back that stays subscribed for a message from the beginning of the
\* publication to its end has been called when the loop is over, whatever
\* other call-backs come and go meanwhile.
NoMissedSubscriber ==
  \A p \in Publishers : pc[p] \in {"deliver", "wsCheck"} /\ idxs[p] = {} =>
    \A c \in stable[p] : \E x \in calls[p] : x[2] = c

\* "register in empty slot preserving any un-subscribed callback": a call-back loses
\* its slot only while un-subscribed, and only once no slot is empty.
TakeoverOnlyWhenFull ==
  [][\A i \in Slots : cb[i] # NoCb /\ cb'[i] # cb[i] =>
       ~enabled[i] /\ \A j \in Slots : cb[j] # NoCb]_vars

\* Every publish function returns, although it has to wait for the mutex twice for
\* each message.
PublishReturns ==
  \A p \in Publishers : pc[p] # "idle" ~> pc[p] = "idle"

--------------------------------------------------------------------------------
(* What makes the properties inductive *)

EnabledFilled == \A i \in Slots : enabled[i] => cb[i] # NoCb

\* The subscription under way has chosen a slot that may still be given to it.
StoreIsSafe ==
  \A s \in Subscribers : sub[s] # NoSub =>
    LET i == sub[s].slot  c == sub[s].cb
    IN  \/ cb[i] = c
        \/ /\ "cb" \in sub[s].todo
           /\ SlotsOf(c) = {}
           /\ cb[i] = NoCb \/ (~enabled[i] /\ SlotsOf(NoCb) = {})

RegistryInv == AtMostOneSlot /\ EnabledFilled /\ StoreIsSafe /\ EarlyReturnDead

Holds(i, c) == enabled[i] /\ cb[i] = c

StableIsSubscribed(p) ==
  /\ stable[p] \subseteq Subscribed(msg[p])
  /\ pc[p] \in {"idle", "collect"} => stable[p] = {}

\* A call-back that wanted the message all along has been called or is still
\* in a slot that the publisher will visit.
StableIsAhead(p) ==
  pc[p] \in {"filter", "deliver", "wsCheck", "wsCall"} =>
    \A c \in stable[p] : \/ pc[p] # "filter" /\ \E x \in calls[p] : x[2] = c
                         \/ \E i \in idxs[p] : Holds(i, c)

WsInHand(p) ==
  /\ pc[p] \in {"wsCheck", "wsCall"} => msg[p] = WsJson
  /\ pc[p] = "wsCall" => \A c \in stable[p] : Holds(First(idxs[p]), c) => seen[p] = c

DeliveryInv ==
  \A p \in Publishers : StableIsSubscribed(p) /\ StableIsAhead(p) /\ WsInHand(p)

NobodyStores(i) == \A s \in Subscribers : sub[s] # NoSub => sub[s].slot # i

\* A slot that passes uoCb_filter holds a call-back that has wanted the message since the
\* slots were collected: whoever changed the slot has returned from uoCb_subscribe.
SettledIsWanted(p) ==
  pc[p] = "filter" =>
    /\ calls[p] = {}
    /\ \A i \in idxs[p] :
         NobodyStores(i) /\ Matches(flags[i], msg[p]) => cb[i] \in wanted[p]

\* After the filter the slots that were not given away hold whom they held, and so do those
\* that have been visited.
UntakenIsWanted(p) ==
  pc[p] = "deliver" =>
    /\ \A i \in idxs[p] \ taken[p] : cb[i] \in wanted[p]
    /\ \A x \in calls[p] : x[1] \notin taken[p] => x[2] = cb[x[1]] /\ x[2] \in wanted[p]

StrayInv == \A p \in Publishers : SettledIsWanted(p) /\ UntakenIsWanted(p)

IInv == TypeOK /\ RegistryInv /\ DeliveryInv /\ StrayInv
================================================================================
