------------------------------- MODULE UrlQueue -------------------------------
(***************************************************************************)
(* KafkaUrlQueue (src/src/kafka.ts): the urls it is given and the topic    *)
(* "crawl-urls" it writes, and the consumer of that topic that feeds the   *)
(* frontier (startKafkaConsumer of src/src/queue.ts).                      *)
(*                                                                         *)
(* External: the broker and kafkajs.  A send can be written and its        *)
(* acknowledgement lost, or be written again by a retry; other programs    *)
(* write to the topic too.  A group without a committed offset starts at   *)
(* the end of a partition, any other at its committed offset; a message    *)
(* whose handler throws is delivered again and holds up its partition.     *)
(***************************************************************************)
EXTENDS Integers, Sequences, FiniteSets, Functions

CONSTANTS
  Url,
  Partition,
  Call,          \* calls of enqueue and enqueueBatch that may overlap (bound)
  PartitionOf,   \* _domainPartition, of each url
  SEEN_MAX,      \* _seenMax
  Garbled,       \* a message that is not JSON, with a key
  Keyless,       \* one without
  MAX_LOG,       \* bound: messages of a partition
  MAX_CRASHES    \* bound: crashes of the process

ASSUME QueueAssumption ==
  /\ IsFiniteSet(Url) /\ PartitionOf \in [Url -> Partition]
  /\ SEEN_MAX \in Nat /\ MAX_LOG \in Nat /\ MAX_CRASHES \in Nat
  /\ Garbled \notin Url /\ Keyless \notin Url /\ Garbled # Keyless

VARIABLES
  \* KafkaUrlQueue.
  enabled, localQueue,   \* localQueue as a set: nothing takes from it
  seen,                  \* urls, the oldest first
  call,                  \* the calls
  \* The consumer.
  consumer,              \* "off", "joining" or "on"
  position,              \* messages of each partition it is through with
  \* The broker.
  log, committed,
  \* The process.
  up, crashes,
  \* History.
  accepted,              \* urls the queue has taken since it started
  forgotten,             \* urls of failed batches, seen and not kept
  outcome                \* what became of each message

queue == <<enabled, localQueue, seen, call, accepted, forgotten>>
consuming == <<consumer, position, committed, outcome>>
vars == <<queue, consuming, log, up, crashes>>

NoOffset == -1
Message == Url \cup {Garbled, Keyless}
Outcomes == {"none", "stored", "dead", "lost", "skipped"}

CallRecord == [kind : {"none", "one", "batch"}, urls : SUBSET Url,
               new : SUBSET Url, written : SUBSET Url]
NoCall == [kind |-> "none", urls |-> {}, new |-> {}, written |-> {}]

IsNew(url) == url \notin Range(seen)
NothingOutcome == [p \in Partition |-> [i \in 1..MAX_LOG |-> "none"]]

Init ==
  /\ enabled = FALSE /\ localQueue = {} /\ seen = <<>>
  /\ call = [c \in Call |-> NoCall]
  /\ consumer = "off" /\ position = [p \in Partition |-> 0]
  /\ committed = [p \in Partition |-> NoOffset]
  /\ log = [p \in Partition |-> <<>>]
  /\ up = FALSE /\ crashes = 0
  /\ accepted = {} /\ forgotten = {} /\ outcome = NothingOutcome

(* startKafkaConsumer: the producer connects, or all urls stay local.      *)
Start ==
  /\ ~up /\ up' = TRUE
  /\ enabled' \in BOOLEAN
  /\ consumer' = IF enabled' THEN "joining" ELSE "off"
  /\ UNCHANGED <<localQueue, seen, call, accepted, forgotten, position,
                 committed, outcome, log, crashes>>

-----------------------------------------------------------------------------
(* Taking urls.                                                            *)

(* The oldest half of seen is forgotten once it is too long (enqueue only).*)
Half == (SEEN_MAX + 1) \div 2
Evicted(urls) ==
  IF Len(urls) > SEEN_MAX THEN SubSeq(urls, Half + 1, Len(urls)) ELSE urls

Sends(c, kind, urls, new) ==
  call' = [call EXCEPT ![c] = [kind |-> kind, urls |-> urls, new |-> new,
                               written |-> {}]]

Enqueue(c, url) ==
  /\ up /\ call[c].kind = "none"
  /\ accepted' = accepted \cup {url}
  /\ \/ ~IsNew(url) /\ UNCHANGED <<seen, localQueue, call>>
     \/ /\ IsNew(url)
        /\ seen' = Evicted(Append(seen, url))
        /\ \/ ~enabled /\ localQueue' = localQueue \cup {url} /\ UNCHANGED call
           \/ enabled /\ Sends(c, "one", {url}, {url}) /\ UNCHANGED localQueue
  /\ UNCHANGED <<enabled, forgotten, consuming, log, up, crashes>>

EnqueueBatch(c, urls) ==
  LET new == {u \in urls : IsNew(u)} IN
  /\ up /\ call[c].kind = "none"
  /\ accepted' = accepted \cup urls
  /\ \E order \in [1..Cardinality(new) -> new] :
       Range(order) = new /\ seen' = seen \o order
  /\ \/ ~enabled /\ localQueue' = localQueue \cup new /\ UNCHANGED call
     \/ /\ enabled /\ UNCHANGED localQueue
        /\ \/ new # {} /\ Sends(c, "batch", urls, new)
           \/ new = {} /\ UNCHANGED call
  /\ UNCHANGED <<enabled, forgotten, consuming, log, up, crashes>>

(* The broker writes a message, for the first time or once more.           *)
Room(p) == Len(log[p]) < MAX_LOG

Written(c, url) ==
  /\ url \in call[c].new /\ Room(PartitionOf[url])
  /\ log' = [log EXCEPT ![PartitionOf[url]] = Append(@, url)]
  /\ call' = [call EXCEPT ![c].written = @ \cup {url}]
  /\ UNCHANGED <<enabled, localQueue, seen, accepted, forgotten, consuming, up,
                 crashes>>

(* producer.send is answered, or throws although some may be written.      *)
Ended(c) == call' = [call EXCEPT ![c] = NoCall]

Acknowledged(c) ==
  /\ call[c].kind # "none" /\ call[c].written = call[c].new
  /\ Ended(c)
  /\ UNCHANGED <<enabled, localQueue, seen, accepted, forgotten, consuming, log,
                 up, crashes>>

KeptOfOne_never(c) == {}

KeptOfOne(c) == call[c].urls

OneFails(c) ==
  /\ call[c].kind = "one"
  /\ localQueue' = localQueue \cup KeptOfOne(c)
  /\ Ended(c)
  /\ UNCHANGED <<enabled, seen, accepted, forgotten, consuming, log, up, crashes>>

(* The catch of enqueueBatch keeps the urls that are not seen: those that  *)
(* were evicted meanwhile.                                                 *)
BatchFails(c) ==
  LET unseen == {u \in call[c].urls : IsNew(u)} IN
  /\ call[c].kind = "batch"
  /\ localQueue' = localQueue \cup unseen
  /\ \E order \in [1..Cardinality(unseen) -> unseen] :
       Range(order) = unseen /\ seen' = seen \o order
  /\ forgotten' = forgotten \cup (call[c].new \ (call[c].written \cup unseen))
  /\ Ended(c)
  /\ UNCHANGED <<enabled, accepted, consuming, log, up, crashes>>

-----------------------------------------------------------------------------
(* The topic and its consumer.                                             *)

(* Another program writes something that is not JSON.                      *)
Garbage(p, message) ==
  /\ Room(p) /\ message \in {Garbled, Keyless}
  /\ log' = [log EXCEPT ![p] = Append(@, message)]
  /\ UNCHANGED <<queue, consuming, up, crashes>>

(* cons.connect, subscribe with fromBeginning: false, and run; a failure   *)
(* of one of them is not made up for.                                      *)
From(p) == IF committed[p] = NoOffset THEN Len(log[p]) ELSE committed[p]

Subscribe ==
  /\ consumer = "joining" /\ consumer' = "on"
  /\ position' = [p \in Partition |-> From(p)]
  /\ outcome' = [p \in Partition |-> [i \in 1..MAX_LOG |->
       IF i <= position'[p] /\ outcome[p][i] = "none" THEN "skipped"
       ELSE outcome[p][i]]]
  /\ UNCHANGED <<queue, committed, log, up, crashes>>

CannotSubscribe ==
  /\ consumer = "joining" /\ consumer' = "off"
  /\ UNCHANGED <<queue, position, committed, outcome, log, up, crashes>>

(* eachMessage: a url is inserted into the frontier, or the failure to do  *)
(* so swallowed; what is not JSON goes to the dead letters, or that        *)
(* failure is swallowed; without a key it throws.                          *)
Fates_rethrown(message) ==
  IF message \in Url THEN {"stored", "lost"} ELSE {}

Fates(message) ==
  CASE message \in Url     -> {"stored", "lost"}
    [] message = Garbled   -> {"dead", "lost"}
    [] message = Keyless   -> {}

Kept(was, now) == IF was \in {"stored", "dead"} THEN was ELSE now

EachMessage(p) ==
  LET i == position[p] + 1 IN
  /\ consumer = "on" /\ i <= Len(log[p])
  /\ \E fate \in Fates(log[p][i]) :
       outcome' = [outcome EXCEPT ![p][i] = Kept(@, fate)]
  /\ position' = [position EXCEPT ![p] = i]
  /\ UNCHANGED <<queue, consumer, committed, log, up, crashes>>

(* From time to time, kafkajs commits what has been handled.               *)
Through_fetched(p) == Len(log[p])

Through(p) == position[p]

Commit(p) ==
  /\ consumer = "on" /\ committed[p] < position[p] /\ position[p] > 0
  /\ outcome[p][position[p]] # "skipped"
  /\ committed' = [committed EXCEPT ![p] = Through(p)]
  /\ UNCHANGED <<queue, consumer, position, outcome, log, up, crashes>>

-----------------------------------------------------------------------------
(* A crash loses seen and localQueue; calls are cut off.                   *)
Crash ==
  /\ up /\ crashes < MAX_CRASHES /\ crashes' = crashes + 1
  /\ up' = FALSE /\ enabled' = FALSE
  /\ localQueue' = {} /\ seen' = <<>> /\ call' = [c \in Call |-> NoCall]
  /\ consumer' = "off" /\ position' = [p \in Partition |-> 0]
  /\ accepted' = {} /\ forgotten' = {}
  /\ UNCHANGED <<committed, outcome, log>>

CallStep(c) ==
  \/ \E url \in Url : Enqueue(c, url) \/ Written(c, url)
  \/ \E urls \in SUBSET Url : EnqueueBatch(c, urls)
  \/ Acknowledged(c) \/ OneFails(c) \/ BatchFails(c)

Next ==
  \/ \E c \in Call : CallStep(c)
  \/ \E p \in Partition :
       EachMessage(p) \/ Commit(p) \/ \E m \in {Garbled, Keyless} : Garbage(p, m)
  \/ Subscribe \/ CannotSubscribe \/ Start \/ Crash

Spec == Init /\ [][Next]_vars

(* The process is restarted, joining the group ends, and messages are      *)
(* delivered in each partition.                                            *)
FairSpec ==
  /\ Spec /\ WF_vars(Start) /\ WF_vars(Subscribe \/ CannotSubscribe)
  /\ \A p \in Partition : WF_vars(EachMessage(p))

-----------------------------------------------------------------------------
TypeOK ==
  /\ enabled \in BOOLEAN /\ localQueue \in SUBSET Url /\ seen \in Seq(Url)
  /\ call \in [Call -> CallRecord]
  /\ consumer \in {"off", "joining", "on"}
  /\ position \in [Partition -> 0..MAX_LOG]
  /\ committed \in [Partition -> NoOffset..MAX_LOG]
  /\ log \in [Partition -> Seq(Message)]
  /\ \A p \in Partition : Len(log[p]) <= MAX_LOG
  /\ up \in BOOLEAN /\ crashes \in Nat
  /\ accepted \in SUBSET Url /\ forgotten \in SUBSET Url
  /\ outcome \in [Partition -> [1..MAX_LOG -> Outcomes]]

(* A url the queue has taken is in the topic, in the local queue, or being *)
(* sent, whatever calls overlap, fail, or find it seen (kafka.ts:95): but  *)
(* for the urls of a failed batch, which are seen and kept nowhere (137).  *)
InTopic(url) == \E p \in Partition : url \in Range(log[p])
BeingSent(url) == \E c \in Call : url \in call[c].new
EnqueuedIsSomewhere ==
  \A u \in accepted : InTopic(u) \/ u \in localQueue \/ BeingSent(u) \/ u \in forgotten

(* No crash makes the consumer step over a message: what lies before a     *)
(* committed offset was stored, sent to the dead letters, or is lost by a  *)
(* swallowed failure (queue.ts:23) or a start at the end (kafka.ts:192).   *)
HandledBeforeCommitted ==
  \A p \in Partition : \A i \in 1..committed[p] : outcome[p][i] # "none"

(* Every message of the topic gets its outcome, over crashes and deliveries*)
(* once more, unless a message without a key holds up its partition        *)
(* (kafka.ts:200) or the consumer could not be started (queue.ts:26).      *)
HeldUp(p, i) == \E j \in 1..i : j <= Len(log[p]) /\ log[p][j] = Keyless
MessagesArrive ==
  \A p \in Partition : \A i \in 1..MAX_LOG :
    i <= Len(log[p]) ~>
      outcome[p][i] # "none" \/ HeldUp(p, i) \/ (up /\ consumer = "off")
=============================================================================
