-------------------------- MODULE UoCallbacks_proofs ---------------------------
(* Theorems about the call-back registry, for every table size, every set of   *)
(* call-backs and any number of publishing and subscribing tasks.              *)
EXTENDS UoCallbacks, TLAPS, WellFoundedInduction

--------------------------------------------------------------------------------
(* The first slot of a set, and the slot uoCb_subscribe chooses *)

\* Every non-empty set of slots has a first slot.
LEMMA FirstIsLeast ==
  ASSUME NEW S \in SUBSET Slots, S # {}
  PROVE  First(S) \in S /\ \A j \in S : First(S) <= j
<1> DEFINE R == {ss \in Nat \X Nat : ss[1] < ss[2]}
<1>1. S \subseteq Nat
  BY ConstantsOK DEF Slots
<1>2. PICK i \in S : \A j \in S : ~ (<<j, i>> \in R)
  <2>1. R = OpToRel(<, Nat)
    BY DEF OpToRel
  <2>2. IsWellFoundedOn(R, Nat)
    BY <2>1, NatLessThanWellFounded
  <2> HIDE DEF R
  <2> QED
    BY <1>1, <2>2, WFMin
<1>3. ASSUME NEW j \in S PROVE i <= j
  <2>1. <<j, i>> \notin R
    BY <1>2
  <2>2. ~ (j < i)
    BY <1>1, <2>1
  <2> QED
    BY <1>1, <2>2
<1> QED
  BY <1>3 DEF First

\* The slot chosen for a call-back is its own, or an empty one, or (the table
\* being full) a disabled one.
LEMMA SlotForChoice ==
  ASSUME NEW c \in Callbacks, SlotFor(c) # NoSlot
  PROVE  /\ SlotFor(c) \in Slots
         /\ \/ cb[SlotFor(c)] = c
            \/ /\ SlotsOf(c) = {}
               /\ \/ cb[SlotFor(c)] = NoCb
                  \/ SlotsOf(NoCb) = {} /\ ~enabled[SlotFor(c)]
<1> DEFINE disabled == {i \in Slots : ~enabled[i]}
<1> USE DEF SlotsOf
<1>1. CASE SlotsOf(c) # {}
  <2>1. SlotFor(c) = First(SlotsOf(c))
    BY <1>1 DEF SlotFor
  <2> QED
    BY <1>1, <2>1, FirstIsLeast
<1>2. CASE SlotsOf(c) = {} /\ SlotsOf(NoCb) # {}
  <2>1. SlotFor(c) = First(SlotsOf(NoCb))
    BY <1>2 DEF SlotFor
  <2> QED
    BY <1>2, <2>1, FirstIsLeast
<1>3. CASE SlotsOf(c) = {} /\ SlotsOf(NoCb) = {} /\ disabled # {}
  <2>1. SlotFor(c) = First(disabled)
    BY <1>3 DEF SlotFor
  <2> QED
    BY <1>3, <2>1, FirstIsLeast
<1>4. CASE SlotsOf(c) = {} /\ SlotsOf(NoCb) = {} /\ disabled = {}
  BY <1>4 DEF SlotFor
<1> QED
  BY <1>1, <1>2, <1>3, <1>4

--------------------------------------------------------------------------------
(* Type correctness *)


\* The messages of every publication are well typed and there is at least one.
LEMMA PublicationType ==
  ASSUME NEW kind \in Kinds
  PROVE  Publication(kind) \in Seq(SentMessage) /\ Publication(kind) # <<>>
<1> USE ConstantsOK DEF Events, Formats
<1>1. ASSUME NEW evt \in SUBSET Events, NEW fmt \in Formats, NEW lossy \in BOOLEAN
      PROVE  Sent(evt, fmt, lossy) \in SentMessage
  BY DEF Sent, Message, SentMessage, Flags
<1>2. ASSUME NEW evt \in SUBSET Events, NEW lossy \in BOOLEAN
      PROVE  Txt(evt, lossy) \in Seq(SentMessage)
  <2>1. Sent(evt, "txt", lossy) \in SentMessage
    BY <1>1
  <2> QED
    BY <2>1 DEF Txt
<1>3. PinChange \in Seq(SentMessage) /\ PinChange # <<>>
  <2>1. /\ Sent({"pin_change"}, "raw", FALSE) \in SentMessage
        /\ Sent({"pin_change"}, "json", FALSE) \in SentMessage
    BY <1>1
  <2>2. \A a, b \in SentMessage : <<a, b>> \in Seq(SentMessage) /\ <<a, b>> # <<>>
    OBVIOUS
  <2> QED
    BY <2>1, <2>2 DEF PinChange
<1>4. ASSUME NEW evt \in SUBSET Events, NEW lossy \in BOOLEAN
      PROVE  /\ <<Sent(evt, "json", lossy)>> \o Txt(evt, lossy) \in Seq(SentMessage)
             /\ <<Sent(evt, "json", lossy)>> \o Txt(evt, lossy) # <<>>
  <2>1. Sent(evt, "json", lossy) \in SentMessage
    BY <1>1
  <2>2. Txt(evt, lossy) \in Seq(SentMessage)
    BY <1>2
  <2> QED
    BY <2>1, <2>2
<1>5. IpAddress \in Seq(SentMessage) /\ IpAddress # <<>>
  BY <1>4 DEF IpAddress
<1>6. ASSUME NEW isError \in BOOLEAN
      PROVE  LogMessage(isError) \in Seq(SentMessage) /\ LogMessage(isError) # <<>>
  BY <1>4 DEF LogMessage
<1> QED
  BY <1>3, <1>5, <1>6 DEF Publication

LEMMA SubscribedType ==
  /\ \A m : Subscribed(m) \subseteq Callbacks
  /\ \A p \in Publishers : Subscribed(msg[p])' \subseteq Callbacks
BY DEF Subscribed

\* What the table's steps do to the history.
LEMMA WatchType ==
  ASSUME TypeOK, Watch
  PROVE  /\ stable' \in [Publishers -> SUBSET Callbacks]
         /\ wanted' \in [Publishers -> SUBSET Callbacks]
BY SubscribedType DEF Watch, TypeOK, HistoryType

\* The end of a message keeps the types.
LEMMA NextMessageType ==
  ASSUME TypeOK, NEW p \in Publishers, pc[p] # "idle", NextMessage(p), UNCHANGED seen
  PROVE  PublisherType' /\ HistoryType'
<1> DEFINE rest == Tail(todo[p])
<1>1. todo[p] \in Seq(SentMessage) /\ todo[p] # <<>>
  BY DEF TypeOK, PublisherType
<1>2. rest \in Seq(SentMessage)
  BY <1>1
<1>3. rest # <<>> => Head(rest) \in SentMessage
  BY <1>2
<1>4. (IF rest = <<>> THEN NoFlags ELSE Head(rest).flags) \in Flags
  BY <1>3 DEF NoFlags, Flags, SentMessage
<1>5. /\ todo' = [todo EXCEPT ![p] = rest]
      /\ pc' = [pc EXCEPT ![p] = IF rest = <<>> THEN "idle" ELSE "collect"]
      /\ msg' = [msg EXCEPT ![p] = IF rest = <<>> THEN NoFlags ELSE Head(rest).flags]
      /\ idxs' = [idxs EXCEPT ![p] = {}]
  BY DEF NextMessage
<1> HIDE DEF rest
<1>6. PublisherType'
  BY <1>2, <1>4, <1>5 DEF TypeOK, PublisherType
<1>7. HistoryType'
  BY DEF TypeOK, HistoryType, NextMessage
<1> QED
  BY <1>6, <1>7

\* The theorem TypeCorrect: the variables stay within their types, and the mutex is held
\* exactly by the subscriber that has stores left to do.
THEOREM TypeCorrect == Spec => []TypeOK
<1> USE ConstantsOK
<1>1. Init => TypeOK
  BY DEF Init, TypeOK, TableType, SubscriberType, PublisherType, HistoryType, NoFlags, Flags
<1>2. ASSUME TypeOK, [Next]_vars
      PROVE  TypeOK'
  <2> USE <1>2 DEF TypeOK
  <2>1. ASSUME NEW s \in Subscribers, NEW c \in Callbacks, NEW f \in Offers[c],
               Subscribe(s, c, f)
        PROVE  TypeOK'
    <3>1. [slot |-> SlotFor(c), cb |-> c, flags |-> f, todo |-> {"cb", "flags"}]
            \in Subscription
      BY <2>1, SlotForChoice DEF Subscribe, Subscription
    <3>2. SubscriberType'
      BY <2>1, <3>1 DEF SubscriberType, Subscribe, Subscription
    <3> QED
      BY <2>1, <3>2 DEF TableType, PublisherType, HistoryType, Subscribe, table, pubvars, history
  <2>2. ASSUME UNCHANGED vars
        PROVE  TypeOK'
    BY <2>2 DEF TableType, SubscriberType, PublisherType, HistoryType, vars, table, pubvars,
                history
  <2>3. ASSUME NEW s \in Subscribers, NEW c \in Callbacks, Unsubscribe(s, c)
        PROVE  TypeOK'
    <3>1. HistoryType'
      BY <2>3, WatchType DEF HistoryType, Unsubscribe
    <3> QED
      BY <2>3, <3>1 DEF TableType, SubscriberType, PublisherType, Unsubscribe, pubvars
  <2>4. ASSUME NEW s \in Subscribers, Store(s)
        PROVE  TypeOK'
    <3>1. sub[s] \in Subscription
      BY <2>4 DEF SubscriberType, Store
    <3>2. HistoryType'
      BY <2>4, <3>1, WatchType DEF HistoryType, Store, Subscription
    <3>3. TableType'
      BY <2>4, <3>1 DEF TableType, Store, Subscription
    <3>4. SubscriberType'
      BY <2>4, <3>1 DEF SubscriberType, Store, Subscription
    <3> QED
      BY <2>4, <3>2, <3>3, <3>4 DEF PublisherType, Store, pubvars
  <2>5. ASSUME NEW s \in Subscribers, SubscribeReturn(s)
        PROVE  TypeOK'
    <3>1. HistoryType'
      BY <2>5, WatchType DEF HistoryType, SubscribeReturn
    <3> QED
      BY <2>5, <3>1 DEF TableType, SubscriberType, PublisherType, SubscribeReturn, pubvars
  <2>6. ASSUME NEW p \in Publishers, Publish(p)
        PROVE  TypeOK'
    <3>1. PICK kind \in Kinds :
            /\ msg' = [msg EXCEPT ![p] = Head(Publication(kind)).flags]
            /\ todo' = [todo EXCEPT ![p] = Publication(kind)]
      BY <2>6 DEF Publish
    <3>2. Publication(kind) \in Seq(SentMessage) /\ Publication(kind) # <<>>
      BY PublicationType
    <3>3. Head(Publication(kind)) \in SentMessage
      BY <3>2
    <3>4. Head(Publication(kind)).flags \in Flags
      BY <3>3 DEF SentMessage
    <3>5. PublisherType'
      BY <2>6, <3>1, <3>2, <3>4 DEF PublisherType, Publish
    <3> QED
      BY <2>6, <3>5 DEF TableType, SubscriberType, HistoryType, Publish, table, history
  <2>7. ASSUME NEW p \in Publishers, PublishWs(p)
        PROVE  TypeOK'
    <3>1. WsJson \in Flags
      BY DEF WsJson, Flags, Formats, Targets
    <3>2. <<[flags |-> WsJson, lossy |-> FALSE]>> \in Seq(SentMessage)
      BY <3>1 DEF SentMessage
    <3>3. PublisherType'
      BY <2>7, <3>1, <3>2 DEF PublisherType, PublishWs
    <3> QED
      BY <2>7, <3>3, SubscribedType DEF TableType, SubscriberType, HistoryType, PublishWs, table
  <2>8. ASSUME NEW p \in Publishers, Collect(p)
        PROVE  TypeOK'
    BY <2>8, SubscribedType
       DEF TableType, SubscriberType, PublisherType, HistoryType, Collect, table
  <2>9. ASSUME NEW p \in Publishers, Filter(p)
        PROVE  TypeOK'
    BY <2>9 DEF TableType, SubscriberType, PublisherType, HistoryType, Filter, table
  <2>10. ASSUME NEW p \in Publishers, Overflow(p) \/ Finish(p)
         PROVE  TypeOK'
    <3>1. pc[p] # "idle" /\ NextMessage(p) /\ UNCHANGED <<table, mutex, sub, seen>>
      BY <2>10 DEF Overflow, Finish
    <3> QED
      BY <3>1, NextMessageType DEF TableType, SubscriberType, table
  <2>11. ASSUME NEW p \in Publishers, Deliver(p)
         PROVE  TypeOK'
    <3>1. First(idxs[p]) \in Slots
      BY <2>11, FirstIsLeast DEF PublisherType, Deliver
    <3>2. <<First(idxs[p]), cb[First(idxs[p])]>> \in Slots \X (Callbacks \cup {NoCb})
      BY <3>1 DEF TableType
    <3>3. \E S \in SUBSET Slots : idxs' = [idxs EXCEPT ![p] = S]
      BY <2>11 DEF PublisherType, Deliver
    <3>4. pc[p] # "wsCall" /\ UNCHANGED <<pc, msg, todo, seen>>
      BY <2>11 DEF Deliver
    <3>5. PublisherType'
      BY <3>3, <3>4 DEF PublisherType
    <3>6. HistoryType'
      BY <2>11, <3>2 DEF HistoryType, Deliver
    <3> QED
      BY <2>11, <3>5, <3>6 DEF TableType, SubscriberType, Deliver, table
  <2>12. ASSUME NEW p \in Publishers, WsCheck(p)
         PROVE  TypeOK'
    <3>1. First(idxs[p]) \in Slots
      BY <2>12, FirstIsLeast DEF PublisherType, WsCheck
    <3>2. cb[First(idxs[p])] \in Callbacks \cup {NoCb}
      BY <3>1 DEF TableType
    <3>3. CASE cb[First(idxs[p])] = NoCb \/ "websocket" \notin flags[First(idxs[p])].tgt
      <4>1. idxs' = [idxs EXCEPT ![p] = @ \ {First(idxs[p])}] /\ UNCHANGED <<pc, msg, todo, seen>>
        BY <2>12, <3>3 DEF WsCheck
      <4>2. pc[p] = "wsCheck"
        BY <2>12 DEF WsCheck
      <4>3. PublisherType'
        BY <4>1, <4>2 DEF PublisherType
      <4> QED
        BY <2>12, <4>3 DEF TableType, SubscriberType, HistoryType, WsCheck, table, history
    <3>4. CASE ~ (cb[First(idxs[p])] = NoCb \/ "websocket" \notin flags[First(idxs[p])].tgt)
      <4>1. /\ pc' = [pc EXCEPT ![p] = "wsCall"]
            /\ seen' = [seen EXCEPT ![p] = cb[First(idxs[p])]]
            /\ UNCHANGED <<idxs, msg, todo>>
        BY <2>12, <3>4 DEF WsCheck
      <4>2. pc[p] = "wsCheck" /\ idxs[p] # {}
        BY <2>12 DEF WsCheck
      <4>3. PublisherType'
        BY <3>2, <4>1, <4>2 DEF PublisherType
      <4> QED
        BY <2>12, <4>3 DEF TableType, SubscriberType, HistoryType, WsCheck, table, history
    <3> QED
      BY <3>3, <3>4
  <2>13. ASSUME NEW p \in Publishers, WsCall(p)
         PROVE  TypeOK'
    <3>1. First(idxs[p]) \in Slots
      BY <2>13, FirstIsLeast DEF PublisherType, WsCall
    <3> QED
      BY <2>13, <3>1
         DEF TableType, SubscriberType, PublisherType, HistoryType, WsCall, table
  <2> QED
    BY <1>2, <2>1, <2>2, <2>3, <2>4, <2>5, <2>6, <2>7, <2>8, <2>9, <2>10, <2>11,
       <2>12, <2>13 DEF Next, Subscriber, Publisher, SubscribeFull
<1> QED
  BY <1>1, <1>2, PTL DEF Spec

--------------------------------------------------------------------------------
(* The table *)

\* Steps that leave the table and the subscriptions alone.
LEMMA TableUntouched ==
  ASSUME AtMostOneSlot /\ EnabledFilled /\ StoreIsSafe, UNCHANGED <<cb, enabled, sub>>
  PROVE  (AtMostOneSlot /\ EnabledFilled /\ StoreIsSafe)'
BY DEF AtMostOneSlot, EnabledFilled, StoreIsSafe, SlotsOf

\* The steps of a publisher hand it no empty slot.
LEMMA PublisherKeepsRegistry ==
  ASSUME TypeOK, RegistryInv, NEW p \in Publishers, Publisher(p)
  PROVE  RegistryInv'
<1> USE DEF TypeOK, PublisherType
<1>1. CASE Publish(p)
  BY <1>1, TableUntouched DEF RegistryInv, EarlyReturnDead, Publish, table
<1>2. CASE PublishWs(p)
  BY <1>2, TableUntouched DEF RegistryInv, EarlyReturnDead, PublishWs, table
<1>3. CASE Collect(p)
  <2>1. EarlyReturnDead'
    BY <1>3 DEF RegistryInv, EarlyReturnDead, EnabledFilled, Collect, table
  <2> QED
    BY <1>3, <2>1, TableUntouched DEF RegistryInv, Collect, table
<1>4. CASE Filter(p)
  <2>1. EarlyReturnDead'
    BY <1>4 DEF RegistryInv, EarlyReturnDead, Filter, table
  <2> QED
    BY <1>4, <2>1, TableUntouched DEF RegistryInv, Filter, table
<1>5. CASE Overflow(p) \/ Finish(p)
  <2>1. NextMessage(p) /\ UNCHANGED <<cb, enabled, sub>>
    BY <1>5 DEF Overflow, Finish, table
  <2>2. EarlyReturnDead'
    BY <2>1 DEF RegistryInv, EarlyReturnDead, NextMessage
  <2> QED
    BY <2>1, <2>2, TableUntouched DEF RegistryInv
<1>6. CASE Deliver(p)
  <2>1. \A q \in Publishers : idxs'[q] \subseteq idxs[q]
    BY <1>6 DEF Deliver
  <2>2. EarlyReturnDead'
    BY <1>6, <2>1 DEF RegistryInv, EarlyReturnDead, Deliver, table
  <2> QED
    BY <1>6, <2>2, TableUntouched DEF RegistryInv, Deliver, table
<1>7. CASE WsCheck(p)
  <2>1. /\ \A q \in Publishers \ {p} : idxs'[q] = idxs[q] /\ pc'[q] = pc[q]
        /\ pc'[p] \in {"wsCheck", "wsCall"}
    BY <1>7 DEF WsCheck
  <2>2. EarlyReturnDead'
    BY <1>7, <2>1 DEF RegistryInv, EarlyReturnDead, WsCheck, table
  <2> QED
    BY <1>7, <2>2, TableUntouched DEF RegistryInv, WsCheck, table
<1>8. CASE WsCall(p)
  <2>1. /\ \A q \in Publishers \ {p} : idxs'[q] = idxs[q] /\ pc'[q] = pc[q]
        /\ pc'[p] = "wsCheck"
    BY <1>8 DEF WsCall
  <2>2. EarlyReturnDead'
    BY <1>8, <2>1 DEF RegistryInv, EarlyReturnDead, WsCall, table
  <2> QED
    BY <1>8, <2>2, TableUntouched DEF RegistryInv, WsCall, table
<1> QED
  BY <1>1, <1>2, <1>3, <1>4, <1>5, <1>6, <1>7, <1>8 DEF Publisher

\* The store of the pointer is the one step that changes what a slot holds: the
\* slot is empty or disabled before it, or holds the call-back already.
LEMMA StoreEffect ==
  ASSUME TypeOK, RegistryInv, NEW s \in Subscribers, Store(s)
  PROVE  /\ sub[s] \in Subscription
         /\ \A t \in Subscribers \ {s} : sub[t] = NoSub /\ sub'[t] = NoSub
         /\ sub'[s] \in Subscription
         /\ sub'[s].slot = sub[s].slot /\ sub'[s].cb = sub[s].cb
         /\ \/ cb' = cb /\ sub'[s].todo \cap {"cb"} = sub[s].todo \cap {"cb"}
            \/ /\ "cb" \in sub[s].todo
               /\ cb' = [cb EXCEPT ![sub[s].slot] = sub[s].cb]
         /\ enabled' = enabled
<1> USE DEF TypeOK, SubscriberType
<1>1. sub[s] \in Subscription /\ mutex = s
  BY DEF Store
<1>2. \A t \in Subscribers \ {s} : sub[t] = NoSub /\ sub'[t] = NoSub
  BY <1>1 DEF Store
<1>3. PICK field \in sub[s].todo :
        /\ sub' = [sub EXCEPT ![s].todo = @ \ {field}]
        /\ cb' = IF field = "cb" THEN [cb EXCEPT ![sub[s].slot] = sub[s].cb] ELSE cb
  BY DEF Store
<1>4. sub'[s] = [sub[s] EXCEPT !.todo = sub[s].todo \ {field}]
  BY <1>3
<1>5. /\ sub'[s] \in Subscription
      /\ sub'[s].slot = sub[s].slot /\ sub'[s].cb = sub[s].cb
      /\ sub'[s].todo = sub[s].todo \ {field}
  BY <1>1, <1>4 DEF Subscription
<1>6. enabled' = enabled
  BY DEF Store
<1> QED
  BY <1>1, <1>2, <1>3, <1>5, <1>6

\* The steps of a subscriber keep the table in order.
LEMMA SubscriberKeepsRegistry ==
  ASSUME TypeOK, RegistryInv, NEW s \in Subscribers, Subscriber(s)
  PROVE  RegistryInv'
<1> USE ConstantsOK DEF TypeOK, TableType, SubscriberType, RegistryInv
<1>1. ASSUME NEW c \in Callbacks, NEW f \in Offers[c], Subscribe(s, c, f)
      PROVE  RegistryInv'
  <2>1. /\ sub[s] = NoSub /\ \A t \in Subscribers : sub[t] = NoSub
        /\ sub' = [sub EXCEPT ![s] = [slot |-> SlotFor(c), cb |-> c, flags |-> f,
                                      todo |-> {"cb", "flags"}]]
        /\ UNCHANGED <<cb, enabled, pc, idxs>>
    BY <1>1 DEF Subscribe, table, pubvars
  <2>2. /\ SlotFor(c) \in Slots
        /\ \/ cb[SlotFor(c)] = c
           \/ /\ SlotsOf(c) = {}
              /\ \/ cb[SlotFor(c)] = NoCb
                 \/ SlotsOf(NoCb) = {} /\ ~enabled[SlotFor(c)]
    BY <1>1, SlotForChoice DEF Subscribe
  <2>3. \A t \in Subscribers \ {s} : sub'[t] = NoSub
    BY <2>1
  <2>4. /\ sub'[s].slot = SlotFor(c) /\ sub'[s].cb = c /\ "cb" \in sub'[s].todo
    BY <2>1
  <2>5. StoreIsSafe'
    BY <2>1, <2>2, <2>3, <2>4 DEF StoreIsSafe, SlotsOf
  <2> QED
    BY <2>1, <2>5 DEF AtMostOneSlot, EnabledFilled, EarlyReturnDead
<1>2. ASSUME NEW c \in Callbacks, SubscribeFull(s, c)
      PROVE  RegistryInv'
  BY <1>2 DEF SubscribeFull, vars, table, pubvars, AtMostOneSlot, EnabledFilled,
              EarlyReturnDead, StoreIsSafe, SlotsOf
<1>3. ASSUME NEW c \in Callbacks, Unsubscribe(s, c)
      PROVE  RegistryInv'
  <2>1. /\ UNCHANGED <<cb, sub, pc, idxs>>
        /\ \A i \in Slots : enabled'[i] => enabled[i]
        /\ \A t \in Subscribers : sub[t] = NoSub
    BY <1>3 DEF Unsubscribe, pubvars
  <2>2. StoreIsSafe'
    BY <2>1 DEF StoreIsSafe
  <2> QED
    BY <2>1, <2>2 DEF AtMostOneSlot, EnabledFilled, EarlyReturnDead
<1>4. CASE Store(s)
  <2> DEFINE i == sub[s].slot
             c == sub[s].cb
  <2>1. /\ i \in Slots /\ c \in Callbacks /\ c # NoCb
        /\ UNCHANGED <<pc, idxs, enabled>>
    BY <1>4, StoreEffect DEF Subscription, Store, pubvars
  <2>2. CASE cb' = cb /\ sub'[s].todo \cap {"cb"} = sub[s].todo \cap {"cb"}
    <3>1. /\ sub'[s].slot = i /\ sub'[s].cb = c
          /\ "cb" \in sub'[s].todo <=> "cb" \in sub[s].todo
          /\ \A t \in Subscribers \ {s} : sub'[t] = NoSub
          /\ sub[s] # NoSub
      BY <1>4, <2>2, StoreEffect DEF Store
    <3>2. StoreIsSafe'
      BY <2>1, <2>2, <3>1 DEF StoreIsSafe, SlotsOf
    <3> QED
      BY <2>1, <2>2, <3>2 DEF AtMostOneSlot, EnabledFilled, EarlyReturnDead
  <2>3. CASE "cb" \in sub[s].todo /\ cb' = [cb EXCEPT ![i] = c]
    <3>1. \/ cb[i] = c
          \/ SlotsOf(c) = {} /\ (cb[i] = NoCb \/ ~enabled[i])
      BY <1>4 DEF StoreIsSafe, Store
    <3>2. cb'[i] = c /\ \A j \in Slots \ {i} : cb'[j] = cb[j]
      BY <2>1, <2>3
    <3>3. AtMostOneSlot'
      BY <2>1, <3>1, <3>2 DEF AtMostOneSlot, SlotsOf
    <3>4. EnabledFilled' /\ EarlyReturnDead'
      BY <2>1, <3>2 DEF EnabledFilled, EarlyReturnDead, PublisherType
    <3>5. /\ sub'[s].slot = i /\ sub'[s].cb = c
          /\ \A t \in Subscribers \ {s} : sub'[t] = NoSub
      BY <1>4, StoreEffect
    <3>6. StoreIsSafe'
      BY <3>2, <3>5 DEF StoreIsSafe
    <3> QED
      BY <3>3, <3>4, <3>6
  <2> QED
    BY <1>4, <2>2, <2>3, StoreEffect
<1>5. CASE SubscribeReturn(s)
  <2>1. /\ sub[s] \in Subscription /\ sub[s].todo = {}
        /\ \A t \in Subscribers : sub'[t] = NoSub
        /\ UNCHANGED <<cb, pc, idxs>>
        /\ enabled' = [enabled EXCEPT ![sub[s].slot] = TRUE]
    BY <1>5 DEF SubscribeReturn, pubvars
  <2>2. cb[sub[s].slot] = sub[s].cb /\ sub[s].cb # NoCb
    BY <2>1 DEF StoreIsSafe, Subscription
  <2>3. EnabledFilled'
    BY <2>1, <2>2 DEF EnabledFilled
  <2> QED
    BY <2>1, <2>3 DEF AtMostOneSlot, EarlyReturnDead, StoreIsSafe
<1> QED
  BY <1>1, <1>2, <1>3, <1>4, <1>5 DEF Subscriber

\* The theorem RegistryCorrect: no call-back occupies two slots, every enabled slot and
\* every slot in a publisher's hands has a function, and a subscription under way
\* keeps the slot it has chosen.
THEOREM RegistryCorrect == Spec => []RegistryInv
<1>1. Init => RegistryInv
  BY DEF Init, RegistryInv, AtMostOneSlot, EnabledFilled, StoreIsSafe, EarlyReturnDead
<1>2. TypeOK /\ RegistryInv /\ [Next]_vars => RegistryInv'
  <2> SUFFICES ASSUME TypeOK, RegistryInv, [Next]_vars
               PROVE  RegistryInv'
    OBVIOUS
  <2>1. CASE UNCHANGED vars
    BY <2>1, TableUntouched DEF vars, table, pubvars, RegistryInv, EarlyReturnDead
  <2> QED
    BY <2>1, PublisherKeepsRegistry, SubscriberKeepsRegistry DEF Next
<1> QED
  BY <1>1, <1>2, TypeCorrect, PTL DEF Spec

\* A call-back occupies at most one slot.
THEOREM CallbackHasOneSlot == Spec => []AtMostOneSlot
<1>1. RegistryInv => AtMostOneSlot
  BY DEF RegistryInv
<1> QED
  BY <1>1, RegistryCorrect, PTL

\* The loop of uoCb_publish never ends at a null pointer.
THEOREM PublishNeverStopsEarly == Spec => []EarlyReturnDead
<1>1. RegistryInv => EarlyReturnDead
  BY DEF RegistryInv
<1> QED
  BY <1>1, RegistryCorrect, PTL

--------------------------------------------------------------------------------
(* Delivery *)

\* A step of a subscriber after which a call-back is still subscribed leaves it in its
\* slot, enabled.
LEMMA SlotIsKept ==
  ASSUME TypeOK, RegistryInv, NEW s \in Subscribers, Subscriber(s),
         NEW i \in Slots, NEW c \in Callbacks, Holds(i, c),
         \E j \in Slots : Holds(j, c)'
  PROVE  Holds(i, c)'
<1> USE ConstantsOK DEF Holds, TypeOK, TableType, SubscriberType, RegistryInv
<1>1. CASE UNCHANGED <<cb, enabled>>
  BY <1>1
<1>2. ASSUME NEW d \in Callbacks, Unsubscribe(s, d)
      PROVE  Holds(i, c)'
  BY <1>2 DEF Unsubscribe, AtMostOneSlot
<1>3. CASE Store(s)
  <2>1. /\ enabled' = enabled
        /\ cb' = cb \/ ("cb" \in sub[s].todo /\ cb' = [cb EXCEPT ![sub[s].slot] = sub[s].cb])
    BY <1>3, StoreEffect
  <2>2. \/ cb[sub[s].slot] = sub[s].cb
        \/ cb[sub[s].slot] = NoCb \/ ~enabled[sub[s].slot]
    BY <1>3 DEF StoreIsSafe, Store
  <2> QED
    BY <2>1, <2>2
<1>4. CASE SubscribeReturn(s)
  BY <1>4 DEF SubscribeReturn
<1> QED
  BY <1>1, <1>2, <1>3, <1>4
     DEF Subscriber, Subscribe, SubscribeFull, table, vars

LEMMA SubscribedHolds ==
  ASSUME NEW m, NEW c \in Subscribed(m)
  PROVE  c \in Callbacks /\ \E j \in Slots : Holds(j, c) /\ Wants(flags[j], m)
BY DEF Subscribed, Holds

\* The steps of a subscriber keep every call-back that is still interested ahead of
\* every publisher.
LEMMA SubscriberKeepsDelivery ==
  ASSUME TypeOK, RegistryInv, RegistryInv', DeliveryInv,
         NEW s \in Subscribers, Subscriber(s)
  PROVE  DeliveryInv'
<1> SUFFICES ASSUME NEW p \in Publishers
             PROVE  (StableIsSubscribed(p) /\ StableIsAhead(p) /\ WsInHand(p))'
  BY DEF DeliveryInv
<1>1. StableIsSubscribed(p) /\ StableIsAhead(p) /\ WsInHand(p)
  BY DEF DeliveryInv
<1>2. UNCHANGED <<pc, msg, idxs, calls, seen>>
  BY DEF Subscriber, Subscribe, SubscribeFull, Unsubscribe, Store, SubscribeReturn, vars,
         pubvars, history
<1>3. CASE UNCHANGED <<cb, flags, enabled, stable>>
  BY <1>1, <1>2, <1>3
     DEF StableIsSubscribed, StableIsAhead, WsInHand, Holds, Subscribed
<1>4. CASE Watch
  <2>1. stable'[p] = stable[p] \cap Subscribed(msg[p])'
    BY <1>4 DEF Watch
  <2>2. StableIsSubscribed(p)'
    BY <1>1, <1>2, <2>1 DEF StableIsSubscribed
  <2>3. ASSUME NEW c \in stable'[p]
        PROVE  /\ c \in stable[p] /\ c \in Callbacks
               /\ \E j \in Slots : Holds(j, c)
               /\ \E j \in Slots : Holds(j, c)'
    <3>1. c \in Subscribed(msg[p]) /\ c \in Subscribed(msg[p])'
      BY <1>1, <2>1, <2>3 DEF StableIsSubscribed
    <3> QED
      BY <2>1, <2>3, <3>1 DEF Subscribed, Holds
  <2>4. ASSUME NEW c \in stable'[p], NEW i \in Slots, Holds(i, c)
        PROVE  Holds(i, c)'
    BY <2>3, <2>4, SlotIsKept
  <2>5. idxs[p] \subseteq Slots
    BY DEF TypeOK, PublisherType
  <2>6. StableIsAhead(p)'
    BY <1>1, <1>2, <2>3, <2>4, <2>5 DEF StableIsAhead
  <2>7. ASSUME pc[p] = "wsCall", NEW c \in stable'[p], Holds(First(idxs[p]), c)'
        PROVE  seen[p] = c
    <3>1. First(idxs[p]) \in Slots
      BY <2>7, <2>5, FirstIsLeast DEF TypeOK, PublisherType
    <3>2. PICK j \in Slots : Holds(j, c)
      BY <2>3
    <3>3. Holds(j, c)'
      BY <2>4, <3>2
    <3>4. j = First(idxs[p])
      BY <1>2, <2>3, <2>7, <3>1, <3>3, ConstantsOK DEF Holds, RegistryInv, AtMostOneSlot
    <3> QED
      BY <1>1, <2>3, <2>7, <3>2, <3>4 DEF WsInHand
  <2>8. WsInHand(p)'
    BY <1>1, <1>2, <2>7 DEF WsInHand
  <2> QED
    BY <2>2, <2>6, <2>8
<1> QED
  BY <1>3, <1>4
     DEF Subscriber, Subscribe, SubscribeFull, Unsubscribe, Store, SubscribeReturn, vars,
         table, history

\* A step of another publisher does not disturb what this one has in hand.
LEMMA OtherPublisher ==
  ASSUME NEW q \in Publishers, StableIsSubscribed(q) /\ StableIsAhead(q) /\ WsInHand(q),
         UNCHANGED <<cb, flags, enabled>>,
         pc'[q] = pc[q], msg'[q] = msg[q], idxs'[q] = idxs[q], seen'[q] = seen[q],
         calls'[q] = calls[q], stable'[q] = stable[q]
  PROVE  (StableIsSubscribed(q) /\ StableIsAhead(q) /\ WsInHand(q))'
BY DEF StableIsSubscribed, StableIsAhead, WsInHand, Holds, Subscribed

\* A publisher's own step keeps those who wanted its message all along ahead of it.
LEMMA OwnStep ==
  ASSUME TypeOK, RegistryInv, NEW p \in Publishers, Publisher(p),
         StableIsSubscribed(p) /\ StableIsAhead(p) /\ WsInHand(p)
  PROVE  (StableIsSubscribed(p) /\ StableIsAhead(p) /\ WsInHand(p))'
<1> USE DEF TypeOK, PublisherType, HistoryType
<1>1. CASE Publish(p)
  <2>1. stable[p] = {}
    BY <1>1 DEF Publish, StableIsSubscribed
  <2> QED
    BY <1>1, <2>1 DEF Publish, StableIsSubscribed, StableIsAhead, WsInHand, history
<1>2. CASE PublishWs(p)
  <2>1. /\ pc'[p] = "wsCheck" /\ msg'[p] = WsJson /\ idxs'[p] = Slots
        /\ stable'[p] = Subscribed(WsJson)
        /\ UNCHANGED <<cb, flags, enabled>>
    BY <1>2 DEF PublishWs, table
  <2>2. StableIsSubscribed(p)' /\ WsInHand(p)'
    BY <2>1 DEF StableIsSubscribed, WsInHand, Subscribed
  <2>3. StableIsAhead(p)'
    BY <2>1 DEF StableIsAhead, Subscribed, Holds
  <2> QED
    BY <2>2, <2>3
<1>3. CASE Collect(p)
  <2>1. /\ pc'[p] = "filter" /\ msg'[p] = msg[p] /\ idxs'[p] = {i \in Slots : enabled[i]}
        /\ stable'[p] = Subscribed(msg[p])
        /\ UNCHANGED <<cb, flags, enabled>>
    BY <1>3 DEF Collect, table
  <2>2. StableIsSubscribed(p)' /\ WsInHand(p)'
    BY <2>1 DEF StableIsSubscribed, WsInHand, Subscribed
  <2>3. StableIsAhead(p)'
    BY <2>1 DEF StableIsAhead, Subscribed, Holds
  <2> QED
    BY <2>2, <2>3
<1>4. CASE Filter(p)
  <2>1. /\ pc[p] = "filter" /\ pc'[p] = "deliver" /\ msg'[p] = msg[p]
        /\ idxs'[p] = {i \in idxs[p] : Matches(flags[i], msg[p])}
        /\ stable'[p] = stable[p]
        /\ UNCHANGED <<cb, flags, enabled>>
    BY <1>4 DEF Filter, table
  <2>2. StableIsSubscribed(p)' /\ WsInHand(p)'
    BY <2>1 DEF StableIsSubscribed, WsInHand, Subscribed
  <2>3. ASSUME NEW c \in stable[p]
        PROVE  \E i \in idxs'[p] : Holds(i, c)'
    <3>1. PICK i \in idxs[p] : Holds(i, c)
      BY <2>1 DEF StableIsAhead
    <3>2. PICK j \in Slots : enabled[j] /\ cb[j] = c /\ Wants(flags[j], msg[p])
      BY DEF StableIsSubscribed, Subscribed
    <3>3. i = j
      BY <3>1, <3>2, ConstantsOK DEF Holds, RegistryInv, AtMostOneSlot
    <3> QED
      BY <2>1, <3>1, <3>2, <3>3 DEF Matches, Wants, Holds
  <2>4. StableIsAhead(p)'
    BY <2>1, <2>3 DEF StableIsAhead
  <2> QED
    BY <2>2, <2>4
<1>5. CASE Overflow(p) \/ Finish(p)
  <2>1. NextMessage(p)
    BY <1>5 DEF Overflow, Finish
  <2>2. stable'[p] = {} /\ pc'[p] \in {"idle", "collect"}
    BY <2>1 DEF NextMessage
  <2> QED
    BY <2>2 DEF StableIsSubscribed, StableIsAhead, WsInHand
<1>6. CASE Deliver(p)
  <2> DEFINE i == First(idxs[p])
  <2>1. i \in idxs[p] /\ cb[i] # NoCb
    BY <1>6, FirstIsLeast DEF Deliver, RegistryInv, EarlyReturnDead
  <2>2. /\ pc[p] = "deliver" /\ pc'[p] = "deliver" /\ msg'[p] = msg[p]
        /\ idxs'[p] = idxs[p] \ {i}
        /\ calls'[p] = calls[p] \cup {<<i, cb[i]>>}
        /\ stable'[p] = stable[p]
        /\ UNCHANGED <<cb, flags, enabled>>
    BY <1>6, <2>1 DEF Deliver, table
  <2>3. StableIsSubscribed(p)' /\ WsInHand(p)'
    BY <2>2 DEF StableIsSubscribed, WsInHand, Subscribed
  <2>4. ASSUME NEW c \in stable[p]
        PROVE  \/ \E x \in calls'[p] : x[2] = c
               \/ \E j \in idxs'[p] : Holds(j, c)'
    <3>1. CASE \E x \in calls[p] : x[2] = c
      BY <2>2, <3>1
    <3>2. ASSUME NEW j \in idxs[p], Holds(j, c)
          PROVE  j = i => \E x \in calls'[p] : x[2] = c
      <4>1. <<i, cb[i]>> \in calls'[p]
        BY <2>2
      <4> QED
        BY <3>2, <4>1 DEF Holds
    <3> QED
      BY <2>2, <3>1, <3>2 DEF StableIsAhead, Holds
  <2> HIDE DEF i
  <2>5. StableIsAhead(p)'
    BY <2>2, <2>4 DEF StableIsAhead
  <2> QED
    BY <2>3, <2>5
<1>7. CASE WsCheck(p)
  <2> DEFINE i == First(idxs[p])
  <2>1. i \in idxs[p] /\ i \in Slots
    BY <1>7, FirstIsLeast DEF WsCheck
  <2>2. /\ pc[p] = "wsCheck" /\ pc'[p] \in {"wsCheck", "wsCall"}
        /\ msg'[p] = msg[p] /\ msg[p] = WsJson
        /\ calls'[p] = calls[p] /\ stable'[p] = stable[p]
        /\ UNCHANGED <<cb, flags, enabled>>
    BY <1>7 DEF WsCheck, WsInHand, table, history
  <2>3. StableIsSubscribed(p)'
    BY <2>2 DEF StableIsSubscribed, Subscribed
  <2>4. CASE cb[i] = NoCb \/ "websocket" \notin flags[i].tgt
    <3>1. idxs'[p] = idxs[p] \ {i} /\ pc'[p] = pc[p]
      BY <1>7, <2>4 DEF WsCheck
    <3>2. ASSUME NEW c \in stable[p] PROVE ~ Holds(i, c)
      <4>1. PICK j \in Slots : enabled[j] /\ cb[j] = c /\ Wants(flags[j], WsJson)
        BY <2>2 DEF StableIsSubscribed, Subscribed
      <4>2. "websocket" \in flags[j].tgt
        BY <4>1 DEF Wants, WsJson
      <4>3. c \in Callbacks /\ c # NoCb
        BY ConstantsOK DEF TypeOK, HistoryType
      <4>4. Holds(i, c) => i = j
        BY <2>1, <4>1, <4>3 DEF Holds, RegistryInv, AtMostOneSlot
      <4> HIDE DEF i
      <4> QED
        BY <2>4, <4>2, <4>3, <4>4 DEF Holds
    <3> HIDE DEF i
    <3>3. StableIsAhead(p)'
      BY <2>2, <3>1, <3>2 DEF StableIsAhead, Holds
    <3>4. WsInHand(p)'
      BY <2>2, <3>1 DEF WsInHand
    <3> QED
      BY <2>3, <3>3, <3>4
  <2>5. CASE ~ (cb[i] = NoCb \/ "websocket" \notin flags[i].tgt)
    <3>1. idxs'[p] = idxs[p] /\ pc'[p] = "wsCall" /\ seen'[p] = cb[i]
      BY <1>7, <2>5 DEF WsCheck
    <3>2. StableIsAhead(p)'
      BY <2>2, <3>1 DEF StableIsAhead, Holds
    <3>3. WsInHand(p)'
      BY <2>2, <3>1 DEF WsInHand, Holds
    <3> QED
      BY <2>3, <3>2, <3>3
  <2> QED
    BY <2>4, <2>5
<1>8. CASE WsCall(p)
  <2> DEFINE i == First(idxs[p])
  <2>1. /\ pc[p] = "wsCall" /\ pc'[p] = "wsCheck" /\ msg'[p] = msg[p]
        /\ idxs'[p] = idxs[p] \ {i}
        /\ stable'[p] = stable[p]
        /\ UNCHANGED <<cb, flags, enabled>>
    BY <1>8 DEF WsCall, table
  <2>2. PICK d \in {seen[p], cb[i]} : calls'[p] = calls[p] \cup {<<i, d>>}
    BY <1>8 DEF WsCall
  <2>3. StableIsSubscribed(p)' /\ WsInHand(p)'
    BY <2>1 DEF StableIsSubscribed, WsInHand, Subscribed
  <2>4. ASSUME NEW c \in stable[p], Holds(i, c) PROVE d = c
    BY <2>1, <2>2, <2>4 DEF WsInHand, Holds
  <2>5. ASSUME NEW c \in stable[p]
        PROVE  \/ \E x \in calls'[p] : x[2] = c
               \/ \E j \in idxs'[p] : Holds(j, c)'
    <3>1. CASE \E x \in calls[p] : x[2] = c
      BY <2>2, <3>1
    <3>2. ASSUME NEW j \in idxs[p], Holds(j, c)
          PROVE  j = i => \E x \in calls'[p] : x[2] = c
      <4>1. <<i, d>> \in calls'[p]
        BY <2>2
      <4> QED
        BY <2>4, <3>2, <4>1
    <3> QED
      BY <2>1, <3>1, <3>2 DEF StableIsAhead, Holds
  <2> HIDE DEF i
  <2>6. StableIsAhead(p)'
    BY <2>1, <2>5 DEF StableIsAhead
  <2> QED
    BY <2>3, <2>6
<1> QED
  BY <1>1, <1>2, <1>3, <1>4, <1>5, <1>6, <1>7, <1>8 DEF Publisher

\* The invariant behind the delivery property.
LEMMA DeliveryCorrect == Spec => []DeliveryInv
<1>1. Init => DeliveryInv
  BY DEF Init, DeliveryInv, StableIsSubscribed, StableIsAhead, WsInHand
<1>2. TypeOK /\ RegistryInv /\ RegistryInv' /\ DeliveryInv /\ [Next]_vars => DeliveryInv'
  <2> SUFFICES ASSUME TypeOK, RegistryInv, RegistryInv', DeliveryInv, [Next]_vars
               PROVE  DeliveryInv'
    OBVIOUS
  <2>1. ASSUME NEW p \in Publishers, Publisher(p)
        PROVE  DeliveryInv'
    <3>1. (StableIsSubscribed(p) /\ StableIsAhead(p) /\ WsInHand(p))'
      BY <2>1, OwnStep DEF DeliveryInv
    <3>2. ASSUME NEW q \in Publishers \ {p}
          PROVE  (StableIsSubscribed(q) /\ StableIsAhead(q) /\ WsInHand(q))'
      <4>1. UNCHANGED <<cb, flags, enabled>>
        BY <2>1 DEF Publisher, Publish, PublishWs, Collect, Filter, Overflow, Deliver, WsCheck,
                    WsCall, Finish, table
      <4>2. /\ pc'[q] = pc[q] /\ msg'[q] = msg[q] /\ idxs'[q] = idxs[q]
            /\ seen'[q] = seen[q] /\ calls'[q] = calls[q] /\ stable'[q] = stable[q]
        BY <2>1 DEF TypeOK, PublisherType, HistoryType, Publisher, Publish, PublishWs, Collect,
                    Filter, Overflow, Deliver, WsCheck, WsCall, Finish, NextMessage, history
      <4> QED
        BY <4>1, <4>2, OtherPublisher DEF DeliveryInv
    <3> QED
      BY <3>1, <3>2 DEF DeliveryInv
  <2>2. CASE UNCHANGED vars
    BY <2>2, OtherPublisher DEF DeliveryInv, vars, table, pubvars, history
  <2> QED
    BY <2>1, <2>2, SubscriberKeepsDelivery DEF Next
<1> QED
  BY <1>1, <1>2, TypeCorrect, RegistryCorrect, PTL DEF Spec

\* A call-back that stays subscribed from the beginning of a publication to its end is
\* called, however many tasks subscribe, un-subscribe and publish meanwhile.
THEOREM NobodyIsMissed == Spec => []NoMissedSubscriber
<1>1. DeliveryInv => NoMissedSubscriber
  BY DEF DeliveryInv, StableIsAhead, NoMissedSubscriber
<1> QED
  BY <1>1, DeliveryCorrect, PTL

--------------------------------------------------------------------------------
(* Nobody is called who did not want the message *)

\* What a step that changes the table means for the messages in hand.
LEMMA WantedGrows ==
  ASSUME Watch, NEW p \in Publishers, pc[p] # "idle"
  PROVE  wanted'[p] = wanted[p] \cup Subscribed(msg[p])'
BY DEF Watch

\* A step of a subscriber changes a slot only while it stores to it, and enables the slot
\* when it returns.
LEMMA SubscriberKeepsStray ==
  ASSUME TypeOK, RegistryInv, RegistryInv', StrayInv, NEW s \in Subscribers, Subscriber(s)
  PROVE  StrayInv'
<1> USE ConstantsOK
<1> SUFFICES ASSUME NEW p \in Publishers
             PROVE  (SettledIsWanted(p) /\ UntakenIsWanted(p))'
  BY DEF StrayInv
<1>1. SettledIsWanted(p) /\ UntakenIsWanted(p)
  BY DEF StrayInv
<1>2. UNCHANGED <<pc, msg, idxs, calls>>
  BY DEF Subscriber, Subscribe, SubscribeFull, Unsubscribe, Store, SubscribeReturn, vars,
         pubvars, history
<1>3. idxs[p] \subseteq Slots /\ wanted[p] \subseteq Callbacks
  BY DEF TypeOK, PublisherType, HistoryType
<1>4. \A x \in calls[p] : x[1] \in Slots
  BY DEF TypeOK, HistoryType
<1>5. CASE UNCHANGED vars
  BY <1>1, <1>5
     DEF SettledIsWanted, UntakenIsWanted, NobodyStores, vars, table, pubvars, history
<1>6. ASSUME NEW c \in Callbacks, NEW f \in Offers[c], Subscribe(s, c, f)
      PROVE  (SettledIsWanted(p) /\ UntakenIsWanted(p))'
  <2>1. UNCHANGED <<cb, flags, wanted, taken>>
    BY <1>6 DEF Subscribe, table, history
  <2>2. \A t \in Subscribers : sub[t] = NoSub
    BY <1>6 DEF Subscribe, TypeOK, SubscriberType
  <2>3. \A i \in Slots : NobodyStores(i)
    BY <2>2 DEF NobodyStores
  <2> QED
    BY <1>1, <1>2, <1>3, <2>1, <2>3 DEF SettledIsWanted, UntakenIsWanted
<1>7. ASSUME NEW c \in Callbacks, Unsubscribe(s, c)
      PROVE  (SettledIsWanted(p) /\ UntakenIsWanted(p))'
  <2>1. UNCHANGED <<cb, flags, sub, taken>> /\ Watch
    BY <1>7 DEF Unsubscribe
  <2>2. pc[p] # "idle" => wanted[p] \subseteq wanted'[p]
    BY <2>1, WantedGrows
  <2> QED
    BY <1>1, <1>2, <2>1, <2>2 DEF SettledIsWanted, UntakenIsWanted, NobodyStores
<1>8. CASE Store(s)
  <2> DEFINE k == sub[s].slot
  <2>1. /\ sub[s] \in Subscription /\ sub'[s] \in Subscription
        /\ \A t \in Subscribers \ {s} : sub[t] = NoSub /\ sub'[t] = NoSub
        /\ sub'[s].slot = k
    BY <1>8, StoreEffect
  <2>2. sub[s] # NoSub /\ sub'[s] # NoSub /\ k \in Slots
    BY <2>1 DEF Subscription
  <2>3. /\ \A i \in Slots \ {k} : cb'[i] = cb[i] /\ flags'[i] = flags[i]
        /\ \/ cb'[k] = cb[k]
           \/ cb[k] = NoCb
           \/ pc[p] = "idle"
           \/ k \in taken'[p]
        /\ taken[p] \subseteq taken'[p]
    BY <1>8, <2>1, <2>2 DEF Store, TypeOK, TableType, HistoryType
  <2>4. Watch
    BY <1>8 DEF Store
  <2>5. pc[p] # "idle" => wanted[p] \subseteq wanted'[p]
    BY <2>4, WantedGrows
  <2> HIDE DEF k
  <2>6. \A i \in Slots : NobodyStores(i)' => i # k /\ NobodyStores(i)
    BY <2>1, <2>2 DEF NobodyStores, k
  <2>7. SettledIsWanted(p)'
    BY <1>1, <1>2, <1>3, <2>3, <2>5, <2>6 DEF SettledIsWanted
  <2>8. ASSUME pc[p] = "deliver", NEW i \in Slots, i \notin taken'[p], cb[i] \in wanted[p]
        PROVE  cb'[i] = cb[i]
    BY <1>3, <2>3, <2>8
  <2>9. UntakenIsWanted(p)'
    <3> SUFFICES ASSUME pc[p] = "deliver"
                 PROVE  /\ \A i \in idxs[p] \ taken'[p] : cb'[i] \in wanted'[p]
                        /\ \A x \in calls[p] :
                             x[1] \notin taken'[p] => x[2] = cb'[x[1]] /\ x[2] \in wanted'[p]
      BY <1>2 DEF UntakenIsWanted
    <3>1. wanted[p] \subseteq wanted'[p]
      BY <2>5
    <3>2. ASSUME NEW i \in idxs[p] \ taken'[p] PROVE cb'[i] \in wanted'[p]
      BY <1>1, <1>3, <2>3, <2>8, <3>1 DEF UntakenIsWanted
    <3>3. ASSUME NEW x \in calls[p], x[1] \notin taken'[p]
          PROVE  x[2] = cb'[x[1]] /\ x[2] \in wanted'[p]
      <4>1. x[2] = cb[x[1]] /\ x[2] \in wanted[p]
        BY <1>1, <2>3, <3>3 DEF UntakenIsWanted
      <4> QED
        BY <1>4, <2>8, <3>1, <3>3, <4>1
    <3> QED
      BY <3>2, <3>3
  <2> QED
    BY <2>7, <2>9
<1>9. CASE SubscribeReturn(s)
  <2> DEFINE k == sub[s].slot
  <2>1. /\ sub[s] # NoSub /\ sub[s] \in Subscription /\ sub[s].todo = {}
        /\ sub' = [sub EXCEPT ![s] = NoSub]
        /\ enabled' = [enabled EXCEPT ![k] = TRUE]
        /\ UNCHANGED <<cb, flags, taken>> /\ Watch
    BY <1>9 DEF SubscribeReturn, TypeOK, SubscriberType
  <2>2. k \in Slots /\ cb[k] \in Callbacks /\ enabled'[k]
    BY <2>1 DEF Subscription, RegistryInv, StoreIsSafe, TypeOK, TableType
  <2>3. pc[p] # "idle" => wanted'[p] = wanted[p] \cup Subscribed(msg[p])'
    BY <2>1, WantedGrows
  <2> HIDE DEF k
  <2>4. Matches(flags[k], msg[p]) => cb[k] \in Subscribed(msg[p])'
    BY <1>2, <2>1, <2>2 DEF Subscribed, Matches, Wants
  <2>5. \A i \in Slots \ {k} : NobodyStores(i)' => NobodyStores(i)
    BY <2>1 DEF NobodyStores, k, TypeOK, SubscriberType
  <2>6. SettledIsWanted(p)'
    BY <1>1, <1>2, <1>3, <2>1, <2>3, <2>4, <2>5 DEF SettledIsWanted
  <2>7. UntakenIsWanted(p)'
    BY <1>1, <1>2, <2>1, <2>3 DEF UntakenIsWanted
  <2> QED
    BY <2>6, <2>7
<1> QED
  BY <1>5, <1>6, <1>7, <1>8, <1>9 DEF Subscriber, SubscribeFull

\* A publisher's own step calls only those who wanted its message.
LEMMA OwnStepNotStray ==
  ASSUME TypeOK, RegistryInv, NEW p \in Publishers, Publisher(p),
         SettledIsWanted(p) /\ UntakenIsWanted(p)
  PROVE  (SettledIsWanted(p) /\ UntakenIsWanted(p))'
<1> USE ConstantsOK DEF TypeOK, PublisherType, HistoryType
<1>1. CASE Publish(p) \/ PublishWs(p) \/ WsCheck(p) \/ WsCall(p)
  <2>1. pc'[p] \in {"collect", "wsCheck", "wsCall"}
    BY <1>1 DEF Publish, PublishWs, WsCheck, WsCall
  <2> QED
    BY <2>1 DEF SettledIsWanted, UntakenIsWanted
<1>2. CASE Overflow(p) \/ Finish(p)
  <2>1. pc'[p] \in {"idle", "collect"}
    BY <1>2 DEF Overflow, Finish, NextMessage
  <2> QED
    BY <2>1 DEF SettledIsWanted, UntakenIsWanted
<1>3. CASE Collect(p)
  <2>1. /\ pc'[p] = "filter" /\ msg'[p] = msg[p] /\ idxs'[p] = {i \in Slots : enabled[i]}
        /\ wanted'[p] = Subscribed(msg[p]) /\ calls'[p] = {}
        /\ UNCHANGED <<cb, flags, enabled, sub>>
    BY <1>3 DEF Collect, table
  <2>2. \A i \in Slots : enabled[i] => cb[i] \in Callbacks
    BY DEF RegistryInv, EnabledFilled, TableType
  <2> QED
    BY <2>1, <2>2 DEF SettledIsWanted, UntakenIsWanted, Subscribed, Matches, Wants
<1>4. CASE Filter(p)
  <2>1. /\ pc[p] = "filter" /\ pc'[p] = "deliver" /\ mutex = NoTask
        /\ idxs'[p] = {i \in idxs[p] : Matches(flags[i], msg[p])}
        /\ UNCHANGED <<cb, wanted, calls>>
    BY <1>4 DEF Filter, table
  <2>2. \A i \in idxs[p] : NobodyStores(i)
    BY <2>1 DEF NobodyStores, SubscriberType
  <2> QED
    BY <2>1, <2>2 DEF SettledIsWanted, UntakenIsWanted
<1>5. CASE Deliver(p)
  <2> DEFINE i == First(idxs[p])
  <2>1. i \in idxs[p] /\ cb[i] # NoCb
    BY <1>5, FirstIsLeast DEF Deliver, RegistryInv, EarlyReturnDead
  <2>2. /\ pc[p] = "deliver" /\ pc'[p] = "deliver"
        /\ idxs'[p] = idxs[p] \ {i}
        /\ calls'[p] = calls[p] \cup {<<i, cb[i]>>}
        /\ UNCHANGED <<cb, wanted, taken>>
    BY <1>5, <2>1 DEF Deliver, table
  <2> HIDE DEF i
  <2> QED
    BY <2>1, <2>2 DEF SettledIsWanted, UntakenIsWanted
<1> QED
  BY <1>1, <1>2, <1>3, <1>4, <1>5 DEF Publisher

\* A step that leaves the table and a publisher alone leaves what it has in hand alone.
LEMMA OtherIsNotStray ==
  ASSUME NEW q \in Publishers, SettledIsWanted(q) /\ UntakenIsWanted(q),
         UNCHANGED <<cb, flags, sub>>,
         pc'[q] = pc[q], msg'[q] = msg[q], idxs'[q] = idxs[q],
         calls'[q] = calls[q], wanted'[q] = wanted[q], taken'[q] = taken[q]
  PROVE  (SettledIsWanted(q) /\ UntakenIsWanted(q))'
BY DEF SettledIsWanted, UntakenIsWanted, NobodyStores

LEMMA StrayCorrect == Spec => []StrayInv
<1>1. Init => StrayInv
  BY DEF Init, StrayInv, SettledIsWanted, UntakenIsWanted
<1>2. TypeOK /\ RegistryInv /\ RegistryInv' /\ StrayInv /\ [Next]_vars => StrayInv'
  <2> SUFFICES ASSUME TypeOK, RegistryInv, RegistryInv', StrayInv, [Next]_vars
               PROVE  StrayInv'
    OBVIOUS
  <2>1. ASSUME NEW p \in Publishers, Publisher(p)
        PROVE  StrayInv'
    <3>1. (SettledIsWanted(p) /\ UntakenIsWanted(p))'
      BY <2>1, OwnStepNotStray DEF StrayInv
    <3>2. ASSUME NEW q \in Publishers \ {p}
          PROVE  (SettledIsWanted(q) /\ UntakenIsWanted(q))'
      <4>1. UNCHANGED <<cb, flags, sub>>
        BY <2>1 DEF Publisher, Publish, PublishWs, Collect, Filter, Overflow, Deliver, WsCheck,
                    WsCall, Finish, table
      <4>2. /\ pc'[q] = pc[q] /\ msg'[q] = msg[q] /\ idxs'[q] = idxs[q]
            /\ calls'[q] = calls[q] /\ wanted'[q] = wanted[q] /\ taken'[q] = taken[q]
        BY <2>1 DEF TypeOK, PublisherType, HistoryType, Publisher, Publish, PublishWs, Collect,
                    Filter, Overflow, Deliver, WsCheck, WsCall, Finish, NextMessage, history
      <4> QED
        BY <4>1, <4>2, OtherIsNotStray DEF StrayInv
    <3> QED
      BY <3>1, <3>2 DEF StrayInv
  <2>2. CASE UNCHANGED vars
    BY <2>2, OtherIsNotStray DEF StrayInv, vars, table, pubvars, history
  <2> QED
    BY <2>1, <2>2, SubscriberKeepsStray DEF Next
<1> QED
  BY <1>1, <1>2, TypeCorrect, RegistryCorrect, PTL DEF Spec

\* uoCb_publish calls nobody who did not want the message since it was begun, and nobody
\* twice, but for the slots that are given away under its hands.
THEOREM NobodyIsCalledAstray == Spec => []NoStrayDelivery
<1>1. TypeOK /\ RegistryInv /\ StrayInv => NoStrayDelivery
  <2> SUFFICES ASSUME TypeOK, RegistryInv, StrayInv,
                      NEW p \in Publishers, pc[p] = "deliver",
                      NEW x \in calls[p], NEW y \in calls[p],
                      x[1] \notin taken[p], y[1] \notin taken[p]
               PROVE  x[2] \in wanted[p] /\ (x[2] = y[2] => x = y)
    BY DEF NoStrayDelivery
  <2>1. /\ x[2] = cb[x[1]] /\ x[2] \in wanted[p]
        /\ y[2] = cb[y[1]] /\ y[2] \in wanted[p]
    BY DEF StrayInv, UntakenIsWanted
  <2>2. /\ x \in Slots \X (Callbacks \cup {NoCb}) /\ y \in Slots \X (Callbacks \cup {NoCb})
        /\ wanted[p] \subseteq Callbacks
    BY DEF TypeOK, HistoryType
  <2>3. x[2] = y[2] => x[1] = y[1]
    BY <2>1, <2>2, ConstantsOK DEF RegistryInv, AtMostOneSlot
  <2> QED
    BY <2>1, <2>2, <2>3
<1> QED
  BY <1>1, TypeCorrect, RegistryCorrect, StrayCorrect, PTL

--------------------------------------------------------------------------------
(* Who may lose a slot *)

\* A call-back loses its slot only while it is un-subscribed and only when no slot is
\* empty.
THEOREM TakeoverNeedsFullTable == Spec => TakeoverOnlyWhenFull
<1> DEFINE Keeps == \A i \in Slots : cb[i] # NoCb /\ cb'[i] # cb[i] =>
                      ~enabled[i] /\ \A j \in Slots : cb[j] # NoCb
<1>1. TypeOK /\ RegistryInv /\ [Next]_vars => [Keeps]_vars
  <2> SUFFICES ASSUME TypeOK, RegistryInv, Next
               PROVE  Keeps
    OBVIOUS
  <2>1. CASE UNCHANGED cb
    BY <2>1
  <2>2. ASSUME NEW s \in Subscribers, Store(s)
        PROVE  Keeps
    <3>1. \/ cb' = cb
          \/ "cb" \in sub[s].todo /\ cb' = [cb EXCEPT ![sub[s].slot] = sub[s].cb]
      BY <2>2, StoreEffect
    <3>2. \/ cb[sub[s].slot] = sub[s].cb
          \/ cb[sub[s].slot] = NoCb
          \/ ~enabled[sub[s].slot] /\ SlotsOf(NoCb) = {}
      BY <2>2 DEF RegistryInv, StoreIsSafe, Store
    <3> QED
      BY <3>1, <3>2 DEF TypeOK, TableType, SlotsOf
  <2> QED
    BY <2>1, <2>2
       DEF Next, Subscriber, Subscribe, SubscribeFull, SubscribeReturn, Unsubscribe, Publisher,
           Publish, PublishWs, Collect, Filter, Overflow, Deliver, WsCheck, WsCall, Finish,
           vars, table
<1> HIDE DEF Keeps
<1>2. Spec => [][Keeps]_vars
  BY <1>1, TypeCorrect, RegistryCorrect, PTL DEF Spec
<1> QED
  BY <1>2 DEF TakeoverOnlyWhenFull, Keeps
================================================================================
