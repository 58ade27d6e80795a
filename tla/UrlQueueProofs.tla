---------------------------- MODULE UrlQueueProofs ----------------------------
(***************************************************************************)
(* Proofs about UrlQueue, for any urls, partitions, overlapping calls and  *)
(* lengths of `seen'.                                                      *)
(***************************************************************************)
EXTENDS UrlQueue, FiniteSetTheorems, TLAPS

(***************************************************************************)
(* Lemmas about sequences.                                                 *)
(***************************************************************************)

\* Range of a sequence: its elements.
LEMMA ElementsOf ==
  ASSUME NEW S, NEW s \in Seq(S)
  PROVE  Range(s) = {s[i] : i \in 1..Len(s)} /\ Range(s) \subseteq S
  BY DEF Range

\* _seen.add of enqueue and the topic's next message: one more element.
LEMMA AppendAdds ==
  ASSUME NEW S, NEW s \in Seq(S), NEW e \in S
  PROVE  /\ Append(s, e) \in Seq(S) /\ Len(Append(s, e)) = Len(s) + 1
         /\ Range(Append(s, e)) = Range(s) \cup {e}
<1>1. Append(s, e) \in Seq(S) /\ Len(Append(s, e)) = Len(s) + 1
  OBVIOUS
<1>2. \A i \in 1..Len(s) : Append(s, e)[i] = s[i]
  OBVIOUS
<1>3. Append(s, e)[Len(s) + 1] = e
  OBVIOUS
<1>4. Range(Append(s, e)) = {Append(s, e)[i] : i \in 1..(Len(s) + 1)}
  BY <1>1, ElementsOf
<1>5. 1..(Len(s) + 1) = 1..Len(s) \cup {Len(s) + 1}
  OBVIOUS
<1> QED
  BY <1>1, <1>2, <1>3, <1>4, <1>5, ElementsOf

\* _seen.add of enqueueBatch: the new urls in some order.
LEMMA OrderAdds ==
  ASSUME NEW S, NEW s \in Seq(S), NEW T \in SUBSET S, NEW n \in Nat,
         NEW o \in [1..n -> T]
  PROVE  s \o o \in Seq(S) /\ Range(s \o o) \subseteq Range(s) \cup T
<1>1. o \in Seq(S) /\ Len(o) = n
  OBVIOUS
<1>2. s \o o \in Seq(S) /\ Len(s \o o) = Len(s) + n
  BY <1>1
<1>3. \A i \in 1..(Len(s) + n) :
        (s \o o)[i] = IF i <= Len(s) THEN s[i] ELSE o[i - Len(s)]
  BY <1>1
<1>4. \A i \in 1..(Len(s) + n) : (s \o o)[i] \in Range(s) \cup T
  <2> TAKE i \in 1..(Len(s) + n)
  <2>1. CASE i <= Len(s)
    BY <2>1, <1>3, ElementsOf
  <2>2. CASE i > Len(s)
    BY <2>2, <1>3
  <2> QED
    BY <2>1, <2>2
<1>5. Range(s \o o) = {(s \o o)[i] : i \in 1..(Len(s) + n)}
  BY <1>2, ElementsOf
<1> QED
  BY <1>2, <1>4, <1>5

\* The eviction of _seen leaves some of its urls.
LEMMA EvictedShrinks ==
  ASSUME NEW s \in Seq(Url)
  PROVE  Evicted(s) \in Seq(Url) /\ Range(Evicted(s)) \subseteq Range(s)
<1>1. CASE Len(s) <= SEEN_MAX
  BY <1>1, QueueAssumption DEF Evicted
<1>2. CASE Len(s) > SEEN_MAX
  <2>1. Half \in Nat /\ Half < Len(s)
    BY <1>2, QueueAssumption DEF Half
  <2>2. /\ SubSeq(s, Half + 1, Len(s)) \in Seq(Url)
        /\ Len(SubSeq(s, Half + 1, Len(s))) = Len(s) - Half
        /\ \A i \in 1..(Len(s) - Half) : SubSeq(s, Half + 1, Len(s))[i] = s[Half + i]
    BY <2>1
  <2>3. \A i \in 1..(Len(s) - Half) : Half + i \in 1..Len(s)
    BY <2>1
  <2>4. \A i \in 1..Len(s) : s[i] \in Range(s)
    BY ElementsOf
  <2> DEFINE rest == SubSeq(s, Half + 1, Len(s))
  <2>5. rest = Evicted(s) /\ rest \in Seq(Url) /\ Len(rest) = Len(s) - Half
    BY <1>2, <2>2 DEF Evicted
  <2>6. \A i \in 1..(Len(s) - Half) : rest[i] \in Range(s)
    BY <2>2, <2>3, <2>4
  <2> HIDE DEF rest
  <2>7. Range(rest) = {rest[i] : i \in 1..(Len(s) - Half)}
    BY <2>5, ElementsOf
  <2> QED
    BY <2>5, <2>6, <2>7
<1> QED
  BY <1>1, <1>2, QueueAssumption

-----------------------------------------------------------------------------
(***************************************************************************)
(* The invariant: type, where the urls are, what has been handled.         *)
(***************************************************************************)

\* What is seen, and what is being sent, has been accepted.
Taken ==
  /\ Range(seen) \subseteq accepted
  /\ \A c \in Call : call[c].urls \subseteq accepted

\* A call sends only new urls, a single one all of them, and its written
\* ones are in the topic.
CallsAreSound ==
  \A c \in Call :
    /\ call[c].kind = "none" => call[c].new = {}
    /\ call[c].kind = "one" => call[c].new = call[c].urls
    /\ \A u \in call[c].written : InTopic(u)

\* What the running consumer is through with has its outcome.
HandledInOrder ==
  /\ \A p \in Partition : position[p] <= Len(log[p])
  /\ consumer = "on" =>
       \A p \in Partition : \A i \in 1..position[p] : outcome[p][i] # "none"

\* A commit is of what is in the log.
CommittedIsWritten == \A p \in Partition : committed[p] <= Len(log[p])

Inv ==
  /\ TypeOK /\ Taken /\ CallsAreSound /\ EnqueuedIsSomewhere
  /\ HandledInOrder /\ CommittedIsWritten /\ HandledBeforeCommitted

LEMMA InitInv == Init => Inv
<1> SUFFICES ASSUME Init PROVE Inv
  OBVIOUS
<1>1. TypeOK
  <2>1. NoCall \in CallRecord
    BY DEF NoCall, CallRecord
  <2>2. /\ NothingOutcome \in [Partition -> [1..MAX_LOG -> Outcomes]]
        /\ 0 \in 0..MAX_LOG /\ NoOffset \in NoOffset..MAX_LOG
    BY QueueAssumption DEF NothingOutcome, Outcomes, NoOffset
  <2>3. <<>> \in Seq(Url) /\ <<>> \in Seq(Message) /\ Len(<<>>) = 0
    OBVIOUS
  <2>4. /\ log \in [Partition -> Seq(Message)]
        /\ \A p \in Partition : Len(log[p]) <= MAX_LOG
    BY <2>3, QueueAssumption DEF Init
  <2>5. /\ call \in [Call -> CallRecord] /\ seen \in Seq(Url)
        /\ position \in [Partition -> 0..MAX_LOG]
        /\ committed \in [Partition -> NoOffset..MAX_LOG]
        /\ outcome \in [Partition -> [1..MAX_LOG -> Outcomes]]
    BY <2>1, <2>2, <2>3 DEF Init
  <2> QED
    BY <2>4, <2>5 DEF Init, TypeOK
<1>2. Range(seen) = {}
  BY DEF Init, Range
<1> QED
  BY <1>1, <1>2 DEF Init, Inv, Taken, CallsAreSound, EnqueuedIsSomewhere,
     HandledInOrder, CommittedIsWritten, HandledBeforeCommitted, NoCall, NoOffset

\* A step of the urls' side alone: the parts about the consumer are kept.
LEMMA ConsumerUntouched ==
  ASSUME Inv, UNCHANGED <<consuming, log>>
  PROVE  HandledInOrder' /\ CommittedIsWritten' /\ HandledBeforeCommitted'
  BY DEF Inv, HandledInOrder, CommittedIsWritten, HandledBeforeCommitted,
     consuming

\* A step of the consumer: the parts about the urls are kept.
LEMMA QueueUntouched ==
  ASSUME Inv, UNCHANGED <<queue, log>>
  PROVE  Taken' /\ CallsAreSound' /\ EnqueuedIsSomewhere'
  BY DEF Inv, Taken, CallsAreSound, EnqueuedIsSomewhere, InTopic, BeingSent,
     queue

\* A message more in a partition: all of the topic stays in it.
LEMMA TopicGrows ==
  ASSUME Inv, NEW p \in Partition, NEW e \in Message, Room(p),
         log' = [log EXCEPT ![p] = Append(@, e)], UNCHANGED consuming
  PROVE  /\ log' \in [Partition -> Seq(Message)]
         /\ \A q \in Partition : Len(log'[q]) <= MAX_LOG
         /\ \A u : InTopic(u) => InTopic(u)'
         /\ InTopic(e)'
         /\ HandledInOrder' /\ CommittedIsWritten' /\ HandledBeforeCommitted'
<1>1. log \in [Partition -> Seq(Message)] /\ MAX_LOG \in Nat
  BY QueueAssumption DEF Inv, TypeOK
<1>2. log' \in [Partition -> Seq(Message)]
  BY <1>1, AppendAdds
<1>3. \A q \in Partition : /\ Len(log[q]) <= Len(log'[q])
                           /\ Range(log[q]) \subseteq Range(log'[q])
  <2> TAKE q \in Partition
  <2>1. CASE q = p
    BY <2>1, <1>1, AppendAdds
  <2>2. CASE q # p
    BY <2>2, <1>1
  <2> QED
    BY <2>1, <2>2
<1>4. Len(log'[p]) <= MAX_LOG /\ e \in Range(log'[p])
  BY <1>1, AppendAdds DEF Room
<1>5. \A q \in Partition : Len(log'[q]) <= MAX_LOG
  BY <1>1, <1>4 DEF Inv, TypeOK
<1>6. HandledInOrder' /\ CommittedIsWritten' /\ HandledBeforeCommitted'
  <2>1. \A q \in Partition : /\ Len(log[q]) \in Nat /\ Len(log'[q]) \in Nat
                             /\ position[q] \in Int /\ committed[q] \in Int
    BY <1>1, <1>2, QueueAssumption DEF Inv, TypeOK, NoOffset
  <2> QED
    BY <2>1, <1>3 DEF Inv, HandledInOrder, CommittedIsWritten,
       HandledBeforeCommitted, consuming
<1> QED
  BY <1>2, <1>3, <1>4, <1>5, <1>6 DEF InTopic

-----------------------------------------------------------------------------
(***************************************************************************)
(* The steps.                                                              *)
(***************************************************************************)

LEMMA EnqueueInv ==
  ASSUME Inv, NEW c \in Call, NEW url \in Url, Enqueue(c, url)
  PROVE  Inv'
<1>1. UNCHANGED <<enabled, forgotten, consuming, log, up, crashes>>
  BY DEF Enqueue
<1>2. seen \in Seq(Url) /\ call \in [Call -> CallRecord] /\ accepted \subseteq Url
      /\ localQueue \subseteq Url /\ accepted' = accepted \cup {url}
      /\ call[c].kind = "none" /\ call[c].new = {}
  BY DEF Inv, TypeOK, Enqueue, CallsAreSound
<1>3. CASE ~IsNew(url) /\ UNCHANGED <<seen, localQueue, call>>
  <2>1. url \in accepted
    BY <1>3 DEF IsNew, Inv, Taken
  <2> QED
    BY <1>1, <1>2, <1>3, <2>1, ConsumerUntouched
    DEF Inv, TypeOK, Taken, CallsAreSound, EnqueuedIsSomewhere, InTopic,
        BeingSent, consuming
<1>4. CASE /\ IsNew(url) /\ seen' = Evicted(Append(seen, url))
           /\ \/ ~enabled /\ localQueue' = localQueue \cup {url} /\ UNCHANGED call
              \/ enabled /\ Sends(c, "one", {url}, {url}) /\ UNCHANGED localQueue
  <2>1. seen' \in Seq(Url) /\ Range(seen') \subseteq accepted'
    <3>1. Append(seen, url) \in Seq(Url)
          /\ Range(Append(seen, url)) = Range(seen) \cup {url}
      BY <1>2, AppendAdds
    <3>2. seen' \in Seq(Url) /\ Range(seen') \subseteq Range(Append(seen, url))
      BY <1>4, <3>1, EvictedShrinks
    <3> QED
      BY <1>2, <3>1, <3>2 DEF Inv, Taken
  <2>2. /\ call' \in [Call -> CallRecord] /\ localQueue' \subseteq Url
        /\ \A d \in Call \ {c} : call'[d] = call[d]
        /\ localQueue \subseteq localQueue'
        /\ \/ UNCHANGED call /\ url \in localQueue'
           \/ call'[c] = [kind |-> "one", urls |-> {url}, new |-> {url}, written |-> {}]
    <3>1. CASE ~enabled /\ localQueue' = localQueue \cup {url} /\ UNCHANGED call
      BY <1>2, <3>1
    <3>2. CASE enabled /\ Sends(c, "one", {url}, {url}) /\ UNCHANGED localQueue
      <4>1. [kind |-> "one", urls |-> {url}, new |-> {url}, written |-> {}] \in CallRecord
        BY DEF CallRecord
      <4> QED
        BY <1>2, <3>2, <4>1 DEF Sends
    <3> QED
      BY <1>4, <3>1, <3>2
  <2>3. TypeOK'
    BY <1>1, <1>2, <2>1, <2>2 DEF Inv, TypeOK, consuming
  <2>4. Taken' /\ CallsAreSound'
    <3>1. \A d \in Call : call'[d] = call[d] \/
            call'[d] = [kind |-> "one", urls |-> {url}, new |-> {url}, written |-> {}]
      BY <2>2
    <3>2. \A d \in Call : call'[d].urls \subseteq accepted'
      BY <1>2, <3>1 DEF Inv, Taken
    <3>3. \A u : InTopic(u) => InTopic(u)'
      BY <1>1 DEF InTopic
    <3>4. CallsAreSound'
      BY <3>1, <3>3 DEF Inv, CallsAreSound
    <3> QED
      BY <2>1, <3>2, <3>4 DEF Taken
  <2>5. EnqueuedIsSomewhere'
    <3>1. \A u : BeingSent(u) => BeingSent(u)'
      BY <1>2, <2>2 DEF BeingSent
    <3>2. url \in localQueue' \/ BeingSent(url)'
      BY <2>2 DEF BeingSent
    <3> QED
      BY <1>1, <1>2, <2>2, <3>1, <3>2 DEF Inv, EnqueuedIsSomewhere, InTopic
  <2> QED
    BY <1>1, <2>3, <2>4, <2>5, ConsumerUntouched DEF Inv
<1> QED
  BY <1>3, <1>4 DEF Enqueue

LEMMA EnqueueBatchInv ==
  ASSUME Inv, NEW c \in Call, NEW urls \in SUBSET Url, EnqueueBatch(c, urls)
  PROVE  Inv'
<1> DEFINE new == {u \in urls : IsNew(u)}
<1>1. UNCHANGED <<enabled, forgotten, consuming, log, up, crashes>>
  BY DEF EnqueueBatch
<1>2. seen \in Seq(Url) /\ call \in [Call -> CallRecord] /\ accepted \subseteq Url
      /\ localQueue \subseteq Url /\ accepted' = accepted \cup urls
      /\ call[c].kind = "none" /\ call[c].new = {}
  BY DEF Inv, TypeOK, EnqueueBatch, CallsAreSound
<1>3. urls \ new \subseteq accepted /\ new \subseteq Url
  BY DEF IsNew, Inv, Taken
<1>4. seen' \in Seq(Url) /\ Range(seen') \subseteq accepted'
  <2>1. PICK order \in [1..Cardinality(new) -> new] : seen' = seen \o order
    BY DEF EnqueueBatch
  <2>2. Cardinality(new) \in Nat
    BY QueueAssumption, FS_Subset, FS_CardinalityType
  <2>3. seen' \in Seq(Url) /\ Range(seen') \subseteq Range(seen) \cup new
    <3> HIDE DEF new
    <3> QED
      BY <1>2, <1>3, <2>1, <2>2, OrderAdds
  <2> QED
    BY <1>2, <2>3 DEF Inv, Taken
<1>5. /\ call' \in [Call -> CallRecord] /\ localQueue' \subseteq Url
      /\ \A d \in Call \ {c} : call'[d] = call[d]
      /\ localQueue \subseteq localQueue'
      /\ \/ UNCHANGED call /\ new \subseteq localQueue'
         \/ call'[c] = [kind |-> "batch", urls |-> urls, new |-> new, written |-> {}]
  <2>1. CASE ~enabled /\ localQueue' = localQueue \cup new /\ UNCHANGED call
    BY <1>2, <2>1
  <2>2. CASE new # {} /\ Sends(c, "batch", urls, new) /\ UNCHANGED localQueue
    <3>1. [kind |-> "batch", urls |-> urls, new |-> new, written |-> {}] \in CallRecord
      BY DEF CallRecord
    <3> QED
      BY <1>2, <2>2, <3>1 DEF Sends
  <2>3. CASE new = {} /\ UNCHANGED <<call, localQueue>>
    BY <1>2, <2>3
  <2> QED
    BY <2>1, <2>2, <2>3 DEF EnqueueBatch
<1>6. TypeOK'
  BY <1>1, <1>2, <1>4, <1>5 DEF Inv, TypeOK, consuming
<1>7. Taken' /\ CallsAreSound'
  BY <1>1, <1>2, <1>4, <1>5 DEF Inv, Taken, CallsAreSound, InTopic
<1>8. EnqueuedIsSomewhere'
  <2>1. \A u : BeingSent(u) => BeingSent(u)'
    BY <1>2, <1>5 DEF BeingSent
  <2>2. \A u \in new : u \in localQueue' \/ BeingSent(u)'
    BY <1>5 DEF BeingSent
  <2> QED
    BY <1>1, <1>2, <1>3, <1>5, <2>1, <2>2 DEF Inv, EnqueuedIsSomewhere, InTopic
<1> QED
  BY <1>1, <1>6, <1>7, <1>8, ConsumerUntouched DEF Inv

LEMMA WrittenInv ==
  ASSUME Inv, NEW c \in Call, NEW url \in Url, Written(c, url)
  PROVE  Inv'
<1>1. /\ UNCHANGED <<enabled, localQueue, seen, accepted, forgotten, consuming,
                     up, crashes>>
      /\ PartitionOf[url] \in Partition /\ url \in Message
      /\ call \in [Call -> CallRecord]
  BY QueueAssumption DEF Written, Inv, TypeOK, Message
<1>2. /\ log' \in [Partition -> Seq(Message)]
      /\ \A q \in Partition : Len(log'[q]) <= MAX_LOG
      /\ \A u : InTopic(u) => InTopic(u)'
      /\ InTopic(url)'
      /\ HandledInOrder' /\ CommittedIsWritten' /\ HandledBeforeCommitted'
  BY <1>1, TopicGrows DEF Written
<1>3. /\ call' \in [Call -> CallRecord]
      /\ \A d \in Call : /\ call'[d].kind = call[d].kind
                         /\ call'[d].new = call[d].new
                         /\ call'[d].urls = call[d].urls
                         /\ call'[d].written \subseteq call[d].written \cup {url}
  BY <1>1 DEF Written, CallRecord
<1>4. TypeOK'
  BY <1>1, <1>2, <1>3 DEF Inv, TypeOK, consuming
<1>5. Taken' /\ CallsAreSound'
  BY <1>1, <1>2, <1>3 DEF Inv, Taken, CallsAreSound
<1>6. EnqueuedIsSomewhere'
  BY <1>1, <1>2, <1>3 DEF Inv, EnqueuedIsSomewhere, BeingSent
<1> QED
  BY <1>2, <1>4, <1>5, <1>6 DEF Inv

\* A call is over: its urls are in the topic, kept, or given up.
LEMMA EndedInv ==
  ASSUME Inv, NEW c \in Call, Ended(c),
         UNCHANGED <<enabled, accepted, consuming, log, up, crashes>>,
         seen' \in Seq(Url), Range(seen') \subseteq accepted,
         localQueue \subseteq localQueue', localQueue' \subseteq Url,
         forgotten \subseteq forgotten', forgotten' \subseteq Url,
         \A u \in call[c].new :
           InTopic(u) \/ u \in localQueue' \/ u \in forgotten'
  PROVE  Inv'
<1>1. /\ call \in [Call -> CallRecord] /\ call' \in [Call -> CallRecord]
      /\ call'[c] = NoCall /\ \A d \in Call \ {c} : call'[d] = call[d]
  BY DEF Inv, TypeOK, Ended, NoCall, CallRecord
<1>2. TypeOK'
  BY <1>1 DEF Inv, TypeOK, consuming
<1>3. Taken' /\ CallsAreSound'
  BY <1>1 DEF Inv, Taken, CallsAreSound, NoCall, InTopic
<1>4. EnqueuedIsSomewhere'
  <2>1. \A u : InTopic(u) => InTopic(u)'
    BY DEF InTopic
  <2>2. \A u : BeingSent(u) => BeingSent(u)' \/ u \in call[c].new
    BY <1>1 DEF BeingSent
  <2> QED
    BY <2>1, <2>2 DEF Inv, EnqueuedIsSomewhere
<1> QED
  BY <1>2, <1>3, <1>4, ConsumerUntouched DEF Inv

LEMMA CallEndsInv ==
  ASSUME Inv, NEW c \in Call, Acknowledged(c) \/ OneFails(c) \/ BatchFails(c)
  PROVE  Inv'
<1>1. /\ call[c] \in CallRecord /\ seen \in Seq(Url) /\ localQueue \subseteq Url
      /\ forgotten \subseteq Url /\ Range(seen) \subseteq accepted
      /\ call[c].urls \subseteq accepted
      /\ \A u \in call[c].written : InTopic(u)
  BY DEF Inv, TypeOK, Taken, CallsAreSound
<1>2. CASE Acknowledged(c)
  BY <1>1, <1>2, EndedInv DEF Acknowledged
<1>3. CASE OneFails(c)
  <2>1. call[c].new \subseteq localQueue' /\ localQueue' \subseteq Url
    BY <1>1, <1>3 DEF OneFails, KeptOfOne, CallRecord, Inv, CallsAreSound
  <2> QED
    BY <1>1, <1>3, <2>1, EndedInv DEF OneFails
<1>4. CASE BatchFails(c)
  <2> DEFINE unseen == {u \in call[c].urls : IsNew(u)}
  <2>1. unseen \subseteq Url /\ unseen \subseteq accepted
    BY <1>1 DEF CallRecord
  <2>2. /\ localQueue' = localQueue \cup unseen
        /\ forgotten' = forgotten \cup (call[c].new \ (call[c].written \cup unseen))
        /\ Ended(c)
    BY <1>4 DEF BatchFails
  <2>3. seen' \in Seq(Url) /\ Range(seen') \subseteq accepted
    <3>1. PICK order \in [1..Cardinality(unseen) -> unseen] : seen' = seen \o order
      BY <1>4 DEF BatchFails
    <3>2. Cardinality(unseen) \in Nat
      BY <2>1, QueueAssumption, FS_Subset, FS_CardinalityType
    <3> HIDE DEF unseen
    <3>3. seen' \in Seq(Url) /\ Range(seen') \subseteq Range(seen) \cup unseen
      BY <1>1, <2>1, <3>1, <3>2, OrderAdds
    <3> QED
      BY <1>1, <2>1, <3>3
  <2>4. forgotten' \subseteq Url
    BY <1>1, <2>2 DEF CallRecord
  <2> HIDE DEF unseen
  <2>5. UNCHANGED <<enabled, accepted, consuming, log, up, crashes>>
    BY <1>4 DEF BatchFails
  <2> QED
    BY <1>1, <2>1, <2>2, <2>3, <2>4, <2>5, EndedInv
<1> QED
  BY <1>2, <1>3, <1>4

LEMMA GarbageInv ==
  ASSUME Inv, NEW p \in Partition, NEW message \in {Garbled, Keyless},
         Garbage(p, message)
  PROVE  Inv'
<1>1. UNCHANGED <<queue, consuming, up, crashes>> /\ message \in Message
  BY DEF Garbage, Message
<1>2. /\ log' \in [Partition -> Seq(Message)]
      /\ \A q \in Partition : Len(log'[q]) <= MAX_LOG
      /\ \A u : InTopic(u) => InTopic(u)'
      /\ HandledInOrder' /\ CommittedIsWritten' /\ HandledBeforeCommitted'
  BY <1>1, TopicGrows DEF Garbage
<1>3. TypeOK'
  BY <1>1, <1>2 DEF Inv, TypeOK, queue, consuming
<1>4. Taken' /\ CallsAreSound' /\ EnqueuedIsSomewhere'
  BY <1>1, <1>2 DEF Inv, Taken, CallsAreSound, EnqueuedIsSomewhere, BeingSent,
     queue
<1> QED
  BY <1>2, <1>3, <1>4 DEF Inv

LEMMA SubscribeInv == ASSUME Inv, Subscribe PROVE Inv'
<1>1. /\ committed \in [Partition -> NoOffset..MAX_LOG]
      /\ log \in [Partition -> Seq(Message)]
      /\ outcome \in [Partition -> [1..MAX_LOG -> Outcomes]]
      /\ \A p \in Partition : Len(log[p]) <= MAX_LOG /\ committed[p] <= Len(log[p])
      /\ MAX_LOG \in Nat
  BY QueueAssumption DEF Inv, TypeOK, CommittedIsWritten
<1>2. \A p \in Partition : position'[p] \in 0..MAX_LOG /\ position'[p] <= Len(log[p])
  BY <1>1 DEF Subscribe, From, NoOffset
<1>3. position' \in [Partition -> 0..MAX_LOG]
  BY <1>2 DEF Subscribe
<1>4. \A p \in Partition : \A i \in 1..MAX_LOG :
        /\ outcome'[p][i] = IF i <= position'[p] /\ outcome[p][i] = "none"
                            THEN "skipped" ELSE outcome[p][i]
        /\ outcome'[p][i] \in Outcomes
        /\ outcome[p][i] # "none" => outcome'[p][i] # "none"
        /\ i <= position'[p] => outcome'[p][i] # "none"
  BY <1>1 DEF Subscribe, Outcomes
<1>5. outcome' \in [Partition -> [1..MAX_LOG -> Outcomes]]
  BY <1>4 DEF Subscribe
<1>6. TypeOK'
  BY <1>3, <1>5 DEF Inv, TypeOK, Subscribe, queue
<1>7. HandledInOrder' /\ CommittedIsWritten'
  BY <1>1, <1>2, <1>4 DEF HandledInOrder, CommittedIsWritten, Subscribe, NoOffset
<1>8. HandledBeforeCommitted'
  BY <1>1, <1>4 DEF Inv, HandledBeforeCommitted, Subscribe, NoOffset
<1> QED
  BY <1>6, <1>7, <1>8, QueueUntouched DEF Inv, Subscribe

LEMMA EachMessageInv ==
  ASSUME Inv, NEW p \in Partition, EachMessage(p)
  PROVE  Inv'
<1> DEFINE i == position[p] + 1
<1>1. /\ position \in [Partition -> 0..MAX_LOG]
      /\ log[p] \in Seq(Message) /\ i <= Len(log[p]) /\ Len(log[p]) <= MAX_LOG
      /\ outcome \in [Partition -> [1..MAX_LOG -> Outcomes]]
      /\ i \in 1..MAX_LOG /\ MAX_LOG \in Nat /\ Len(log[p]) \in Nat
  BY QueueAssumption DEF Inv, TypeOK, EachMessage
<1>2. PICK fate \in Fates(log[p][i]) :
        outcome' = [outcome EXCEPT ![p][i] = Kept(@, fate)]
  BY DEF EachMessage
<1>3. log[p][i] \in Message
  BY <1>1
<1>4. fate \in {"stored", "lost", "dead"}
  BY <1>2, <1>3, QueueAssumption DEF Fates, Message
<1>5. Kept(outcome[p][i], fate) \in Outcomes \ {"none"}
  BY <1>1, <1>4 DEF Kept, Outcomes
<1>6. /\ outcome' \in [Partition -> [1..MAX_LOG -> Outcomes]]
      /\ outcome'[p][i] # "none"
      /\ \A q \in Partition : \A j \in 1..MAX_LOG :
           outcome[q][j] # "none" => outcome'[q][j] # "none"
  BY <1>1, <1>2, <1>5
<1>7. position' = [position EXCEPT ![p] = i] /\ consumer = "on"
      /\ UNCHANGED <<queue, consumer, committed, log, up, crashes>>
  BY DEF EachMessage
<1>8. TypeOK'
  BY <1>1, <1>6, <1>7 DEF Inv, TypeOK, queue
<1>9. \A q \in Partition :
        /\ position'[q] <= Len(log[q])
        /\ \A j \in 1..position'[q] : outcome'[q][j] # "none"
  <2> TAKE q \in Partition
  <2>1. \A j \in 1..position[q] : j \in 1..MAX_LOG /\ outcome'[q][j] # "none"
    BY <1>1, <1>6, <1>7 DEF Inv, HandledInOrder
  <2>2. CASE q = p
    <3>1. position'[q] = i
      BY <1>1, <1>7, <2>2
    <3>2. \A j \in 1..i : j \in 1..position[p] \/ j = i
      BY <1>1
    <3> QED
      BY <1>1, <1>6, <2>1, <2>2, <3>1, <3>2
  <2>3. CASE q # p
    BY <1>1, <1>7, <2>1, <2>3 DEF Inv, HandledInOrder
  <2> QED
    BY <2>2, <2>3
<1>10. CommittedIsWritten' /\ HandledBeforeCommitted'
  <2>1. \A q \in Partition : committed[q] \in Int /\ committed[q] <= MAX_LOG
    BY <1>1 DEF Inv, TypeOK, NoOffset
  <2> QED
    BY <1>1, <1>6, <1>7, <2>1 DEF Inv, CommittedIsWritten, HandledBeforeCommitted
<1>11. HandledInOrder'
  BY <1>7, <1>9 DEF HandledInOrder
<1> QED
  BY <1>7, <1>8, <1>10, <1>11, QueueUntouched DEF Inv

LEMMA CommitInv ==
  ASSUME Inv, NEW p \in Partition, Commit(p)
  PROVE  Inv'
<1>1. /\ UNCHANGED <<queue, consumer, position, outcome, log, up, crashes>>
      /\ committed' = [committed EXCEPT ![p] = position[p]] /\ consumer = "on"
      /\ position[p] \in 0..MAX_LOG /\ MAX_LOG \in Nat
      /\ committed \in [Partition -> NoOffset..MAX_LOG]
  BY QueueAssumption DEF Commit, Through, Inv, TypeOK
<1>2. TypeOK'
  BY <1>1 DEF Inv, TypeOK, queue, NoOffset
<1>3. HandledInOrder' /\ CommittedIsWritten' /\ HandledBeforeCommitted'
  BY <1>1 DEF Inv, HandledInOrder, CommittedIsWritten, HandledBeforeCommitted
<1> QED
  BY <1>1, <1>2, <1>3, QueueUntouched DEF Inv

LEMMA CrashInv == ASSUME Inv, Crash PROVE Inv'
<1>1. TypeOK'
  <2>1. NoCall \in CallRecord /\ <<>> \in Seq(Url) /\ 0 \in 0..MAX_LOG
    BY QueueAssumption DEF NoCall, CallRecord
  <2>2. /\ call' \in [Call -> CallRecord] /\ seen' \in Seq(Url)
        /\ position' \in [Partition -> 0..MAX_LOG]
    BY <2>1 DEF Crash
  <2>3. crashes' \in Nat
    BY DEF Inv, TypeOK, Crash
  <2>4. \A p \in Partition : Len(log'[p]) <= MAX_LOG
    BY DEF Inv, TypeOK, Crash
  <2> QED
    BY <2>2, <2>3, <2>4 DEF Inv, TypeOK, Crash
<1>2. Range(seen') = {}
  BY DEF Crash, Range
<1>3. Taken' /\ CallsAreSound' /\ EnqueuedIsSomewhere'
  BY <1>2 DEF Taken, CallsAreSound, EnqueuedIsSomewhere, Crash, NoCall
<1>4. HandledInOrder' /\ CommittedIsWritten' /\ HandledBeforeCommitted'
  BY DEF Inv, TypeOK, HandledInOrder, CommittedIsWritten,
     HandledBeforeCommitted, Crash
<1> QED
  BY <1>1, <1>3, <1>4 DEF Inv

\* Steps that only start or give up the consumer, and stuttering.
LEMMA OtherInv ==
  ASSUME Inv, CannotSubscribe \/ Start \/ UNCHANGED vars
  PROVE  Inv'
<1>1. /\ UNCHANGED <<localQueue, seen, call, accepted, forgotten, position,
                     committed, outcome, log, crashes>>
      /\ enabled' \in BOOLEAN /\ up' \in BOOLEAN
      /\ consumer' \in {"off", "joining"} \/ UNCHANGED consumer
  BY DEF Inv, TypeOK, CannotSubscribe, Start, vars, queue, consuming
<1>2. TypeOK'
  BY <1>1 DEF Inv, TypeOK
<1> QED
  BY <1>1, <1>2 DEF Inv, Taken, CallsAreSound, EnqueuedIsSomewhere, InTopic,
     BeingSent, HandledInOrder, CommittedIsWritten, HandledBeforeCommitted

LEMMA InvHolds == Spec => []Inv
<1>1. ASSUME Inv, [Next]_vars PROVE Inv'
  <2>1. ASSUME NEW c \in Call, CallStep(c) PROVE Inv'
    BY <1>1, <2>1, EnqueueInv, EnqueueBatchInv, WrittenInv, CallEndsInv
    DEF CallStep
  <2>2. ASSUME NEW p \in Partition,
               EachMessage(p) \/ Commit(p) \/ \E m \in {Garbled, Keyless} : Garbage(p, m)
        PROVE  Inv'
    BY <1>1, <2>2, EachMessageInv, CommitInv, GarbageInv
  <2>3. CASE Subscribe \/ CannotSubscribe \/ Start \/ Crash \/ UNCHANGED vars
    BY <1>1, <2>3, SubscribeInv, OtherInv, CrashInv
  <2> QED
    BY <1>1, <2>1, <2>2, <2>3 DEF Next
<1> QED
  BY <1>1, InitInv, PTL DEF Spec

-----------------------------------------------------------------------------
(* Every variable of the queue, its consumer and the topic keeps its type, *)
(* and with it the offsets stay within the log (KafkaUrlQueue, kafka.ts).  *)
THEOREM TypeCorrect == Spec => []TypeOK
  BY InvHolds, PTL DEF Inv

(* enqueue and enqueueBatch drop no url they accept, but for those of a    *)
(* failed batch that are seen: whatever calls overlap and fail.            *)
THEOREM AcceptedUrlsAreKept == Spec => []EnqueuedIsSomewhere
  BY InvHolds, PTL DEF Inv

(* consumeMessages steps over no message: whatever lies before a committed *)
(* offset had its outcome, over any number of crashes.                     *)
THEOREM NothingIsSteppedOver == Spec => []HandledBeforeCommitted
  BY InvHolds, PTL DEF Inv

-----------------------------------------------------------------------------
(***************************************************************************)
(* seen: a Set of the code, in the order of insertion.                     *)
(***************************************************************************)

\* _seen.add of enqueue.
LEMMA AppendIsInjective ==
  ASSUME NEW s \in Seq(Url), IsInjective(s), NEW url \in Url, url \notin Range(s)
  PROVE  IsInjective(Append(s, url))
<1>1. /\ Append(s, url) \in Seq(Url) /\ DOMAIN Append(s, url) = 1..(Len(s) + 1)
      /\ Append(s, url)[Len(s) + 1] = url
      /\ \A i \in 1..Len(s) : Append(s, url)[i] = s[i]
  OBVIOUS
<1>2. \A i \in 1..Len(s) : s[i] # url
  BY ElementsOf
<1>3. \A i, j \in 1..Len(s) : s[i] = s[j] => i = j
  BY DEF IsInjective
<1>4. \A i \in 1..(Len(s) + 1) : i \in 1..Len(s) \/ i = Len(s) + 1
  OBVIOUS
<1> QED
  BY <1>1, <1>2, <1>3, <1>4 DEF IsInjective

\* The eviction of _seen.
LEMMA EvictedIsInjective ==
  ASSUME NEW s \in Seq(Url), IsInjective(s)
  PROVE  IsInjective(Evicted(s))
<1>1. CASE Len(s) <= SEEN_MAX
  BY <1>1, QueueAssumption DEF Evicted
<1>2. CASE Len(s) > SEEN_MAX
  <2>1. Half \in Nat /\ Half < Len(s)
    BY <1>2, QueueAssumption DEF Half
  <2>2. /\ DOMAIN SubSeq(s, Half + 1, Len(s)) = 1..(Len(s) - Half)
        /\ \A i \in 1..(Len(s) - Half) : SubSeq(s, Half + 1, Len(s))[i] = s[Half + i]
    BY <2>1
  <2>3. \A i, j \in 1..(Len(s) - Half) : s[Half + i] = s[Half + j] => i = j
    <3> SUFFICES ASSUME NEW i \in 1..(Len(s) - Half), NEW j \in 1..(Len(s) - Half),
                        s[Half + i] = s[Half + j]
                 PROVE  i = j
      OBVIOUS
    <3>1. Half + i \in DOMAIN s /\ Half + j \in DOMAIN s
      BY <2>1
    <3>2. Half + i = Half + j
      BY <3>1 DEF IsInjective
    <3> QED
      BY <2>1, <3>2
  <2>4. Evicted(s) = SubSeq(s, Half + 1, Len(s))
    BY <1>2 DEF Evicted
  <2> DEFINE rest == SubSeq(s, Half + 1, Len(s))
  <2> HIDE DEF rest
  <2>5. IsInjective(rest)
    BY <2>2, <2>3 DEF IsInjective, rest
  <2> QED
    BY <2>4, <2>5 DEF rest
<1> QED
  BY <1>1, <1>2, QueueAssumption

\* _seen.add of enqueueBatch, in its try and in its catch.
LEMMA OrderIsInjective ==
  ASSUME NEW s \in Seq(Url), IsInjective(s), NEW new \in SUBSET Url,
         new \cap Range(s) = {}, NEW order \in [1..Cardinality(new) -> new],
         Range(order) = new
  PROVE  IsInjective(s \o order)
<1> DEFINE n == Cardinality(new)
<1>1. IsFiniteSet(new) /\ n \in Nat
  BY QueueAssumption, FS_Subset, FS_CardinalityType
<1>2. IsFiniteSet(1..n) /\ Cardinality(1..n) = n
  BY <1>1, FS_Interval
<1>3. order \in Surjection(1..n, new)
  BY DEF Surjection, Range
<1>4. order \in Injection(1..n, new)
  BY <1>2, <1>3, FS_SurjSameCardinalityImpliesInj
<1>5. \A i, j \in 1..n : order[i] = order[j] => i = j
  BY <1>4 DEF Injection, IsInjective
<1> HIDE DEF n
<1>6. order \in Seq(new) /\ Len(order) = n
  BY <1>1 DEF n
<1>7. /\ DOMAIN (s \o order) = 1..(Len(s) + n)
      /\ \A i \in 1..(Len(s) + n) :
           (s \o order)[i] = IF i <= Len(s) THEN s[i] ELSE order[i - Len(s)]
  BY <1>1, <1>6
<1>8. \A i \in 1..(Len(s) + n) :
        \/ i \in 1..Len(s) /\ (s \o order)[i] = s[i] /\ s[i] \in Range(s)
        \/ /\ i - Len(s) \in 1..n /\ ~(i <= Len(s))
           /\ (s \o order)[i] = order[i - Len(s)] /\ order[i - Len(s)] \in new
  <2> TAKE i \in 1..(Len(s) + n)
  <2>1. CASE i <= Len(s)
    BY <1>1, <1>7, <2>1, ElementsOf
  <2>2. CASE ~(i <= Len(s))
    <3>1. i - Len(s) \in 1..n
      BY <1>1, <2>2
    <3>2. order[i - Len(s)] \in new
      BY <3>1 DEF n
    <3> QED
      BY <1>7, <2>2, <3>1, <3>2
  <2> QED
    BY <2>1, <2>2
<1>9. ASSUME NEW i \in 1..(Len(s) + n), NEW j \in 1..(Len(s) + n),
             (s \o order)[i] = (s \o order)[j]
      PROVE  i = j
  <2>1. CASE i \in 1..Len(s) /\ j \in 1..Len(s)
    BY <1>7, <1>9, <2>1 DEF IsInjective
  <2>2. CASE i - Len(s) \in 1..n /\ ~(i <= Len(s)) /\ j - Len(s) \in 1..n /\ ~(j <= Len(s))
    <3>1. i - Len(s) = j - Len(s)
      BY <1>5, <1>7, <1>9, <2>2
    <3> QED
      BY <1>1, <3>1
  <2> QED
    BY <1>8, <1>9, <2>1, <2>2
<1> QED
  BY <1>7, <1>9 DEF IsInjective

SeenOnce == IsInjective(seen)

(* _seen holds no url twice, whatever calls overlap and fail: it is a Set, *)
(* and an eviction takes the half of its urls that were seen first         *)
(* (kafka.ts:96, 126, 151).                                                *)
THEOREM SeenIsASet == Spec => []SeenOnce
<1>1. Init => SeenOnce
  BY DEF Init, IsInjective, SeenOnce
<1>2. ASSUME Inv, SeenOnce, [Next]_vars PROVE SeenOnce'
  <2> USE DEF SeenOnce
  <2>0. seen \in Seq(Url) /\ call \in [Call -> CallRecord]
    BY <1>2 DEF Inv, TypeOK
  <2>1. ASSUME NEW c \in Call, NEW url \in Url, Enqueue(c, url) PROVE IsInjective(seen')
    <3>1. CASE UNCHANGED seen
      BY <1>2, <3>1
    <3>2. CASE IsNew(url) /\ seen' = Evicted(Append(seen, url))
      <4>1. IsInjective(Append(seen, url)) /\ Append(seen, url) \in Seq(Url)
        BY <1>2, <2>0, <3>2, AppendIsInjective, AppendAdds DEF IsNew
      <4> QED
        BY <3>2, <4>1, EvictedIsInjective
    <3> QED
      BY <2>1, <3>1, <3>2 DEF Enqueue
  <2>2. ASSUME NEW new \in SUBSET Url, \A u \in new : IsNew(u),
               \E order \in [1..Cardinality(new) -> new] :
                 Range(order) = new /\ seen' = seen \o order
        PROVE  IsInjective(seen')
    <3>1. new \cap Range(seen) = {}
      BY <2>2 DEF IsNew
    <3> QED
      BY <1>2, <2>0, <2>2, <3>1, OrderIsInjective
  <2>3. ASSUME NEW c \in Call, NEW urls \in SUBSET Url, EnqueueBatch(c, urls)
        PROVE  IsInjective(seen')
    <3> DEFINE new == {u \in urls : IsNew(u)}
    <3>1. /\ new \in SUBSET Url /\ \A u \in new : IsNew(u)
          /\ \E order \in [1..Cardinality(new) -> new] :
               Range(order) = new /\ seen' = seen \o order
      BY <2>3 DEF EnqueueBatch
    <3> HIDE DEF new
    <3> QED
      BY <2>2, <3>1
  <2>4. ASSUME NEW c \in Call, BatchFails(c) PROVE IsInjective(seen')
    <3> DEFINE unseen == {u \in call[c].urls : IsNew(u)}
    <3>1. call[c].urls \in SUBSET Url
      BY <2>0 DEF CallRecord
    <3>2. /\ unseen \in SUBSET Url /\ \A u \in unseen : IsNew(u)
          /\ \E order \in [1..Cardinality(unseen) -> unseen] :
               Range(order) = unseen /\ seen' = seen \o order
      BY <2>4, <3>1 DEF BatchFails
    <3> HIDE DEF unseen
    <3> QED
      BY <2>2, <3>2
  <2>5. CASE Crash
    BY <2>5 DEF Crash, IsInjective
  <2>6. CASE UNCHANGED seen
    BY <1>2, <2>6
  <2>7. ASSUME NEW c \in Call, Acknowledged(c) \/ OneFails(c) \/ \E url \in Url : Written(c, url)
        PROVE  UNCHANGED seen
    BY <2>7 DEF Acknowledged, OneFails, Written
  <2>8. ASSUME NEW p \in Partition,
               EachMessage(p) \/ Commit(p) \/ \E m \in {Garbled, Keyless} : Garbage(p, m)
        PROVE  UNCHANGED seen
    BY <2>8 DEF EachMessage, Commit, Garbage, queue
  <2>9. Subscribe \/ CannotSubscribe \/ Start \/ UNCHANGED vars => UNCHANGED seen
    BY DEF Subscribe, CannotSubscribe, Start, vars, queue
  <2>10. ASSUME NEW c \in Call, CallStep(c) PROVE IsInjective(seen')
    BY <2>1, <2>3, <2>4, <2>6, <2>7, <2>10, Zenon DEF CallStep
  <2>11. \/ \E c \in Call : CallStep(c)
         \/ \E p \in Partition :
              EachMessage(p) \/ Commit(p) \/ \E m \in {Garbled, Keyless} : Garbage(p, m)
         \/ Subscribe \/ CannotSubscribe \/ Start \/ Crash \/ UNCHANGED vars
    BY <1>2 DEF Next
  <2> QED
    BY <2>5, <2>6, <2>8, <2>9, <2>10, <2>11, Zenon
<1> QED
  BY <1>1, <1>2, InvHolds, PTL DEF Spec
=============================================================================
