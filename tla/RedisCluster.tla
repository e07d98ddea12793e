---------------------------- MODULE RedisCluster ----------------------------
(***************************************************************************)
(* A cluster of Asterisk servers that share one type of cached event (say  *)
(* device_state) through res_redis and one redis channel.  ResRedis models *)
(* the threads inside one server; here each server is a few steps, and the *)
(* subject is what the servers know of each other's devices.               *)
(*                                                                         *)
(* Every server owns one device.  Its states are numbered in the order in  *)
(* which they occur, so that "newer" means something; the code only copies *)
(* them.  redis stays up (ResRedis has its failures); servers may crash.   *)
(***************************************************************************)
EXTENDS Integers, Sequences, FiniteSets

CONSTANTS Nodes,       \* the Asterisk servers, named by their EntityID
          MaxVersion,  \* bound on the number of states of a device
          MaxCrashes   \* bound on crashes

ASSUME ClusterAssumption == MaxVersion \in Nat /\ MaxCrashes \in Nat

VARIABLES
  phase,    \* where load_module is: down, dump, subscribe, up
  version,  \* the device's last state
  cache,    \* cache[n][o]: the state of o's device in n's event cache, 0: none
  evq,      \* n's Asterisk event queue
  pub,      \* PUBLISH commands n has not sent yet
  chan,     \* messages redis has sent to n
  rsub,     \* who has SUBSCRIBEd, as redis sees it
  crashes,
  (* History. *)
  lastpub,  \* the last state of o's device that reached redis
  reached,  \* who was sent the current state of o's device
  sent,     \* how often the current state of o's device was PUBLISHed
  missed,   \* o's device changed unheard between the dump and the subscription
  overtook, \* o's dump overtook states that were still in its event queue
  cutoff    \* o crashed before it published its device's current state (again)

nodeVars == <<phase, version, cache, evq, pub>>
history  == <<lastpub, reached, sent, missed, overtook, cutoff>>
vars == <<nodeVars, chan, rsub, crashes, history>>

Versions == 1..MaxVersion
Msg == [origin : Nodes, ver : Versions]    \* an event, or its message

Init ==
  /\ phase = [n \in Nodes |-> "down"]
  /\ version = [n \in Nodes |-> 0]
  /\ cache = [n \in Nodes |-> [o \in Nodes |-> 0]]
  /\ evq = [n \in Nodes |-> <<>>]
  /\ pub = [n \in Nodes |-> <<>>]
  /\ chan = [n \in Nodes |-> <<>>]
  /\ rsub = {} /\ crashes = 0
  /\ lastpub = [o \in Nodes |-> 0]
  /\ reached = [o \in Nodes |-> {}]
  /\ sent = [o \in Nodes |-> 0]
  /\ missed = [o \in Nodes |-> FALSE]
  /\ overtook = [o \in Nodes |-> FALSE]
  /\ cutoff = [o \in Nodes |-> FALSE]
-----------------------------------------------------------------------------
(* Asterisk: o's device changes; the event is cached and queued.           *)
ast_event_queue_and_cache(o) ==
  /\ version[o] < MaxVersion
  /\ version' = [version EXCEPT ![o] = @ + 1]
  /\ cache' = [cache EXCEPT ![o][o] = version'[o]]
  /\ evq' = [evq EXCEPT ![o] = Append(@, [origin |-> o, ver |-> version'[o]])]
  /\ reached' = [reached EXCEPT ![o] = {}]
  /\ sent' = [sent EXCEPT ![o] = 0]
  /\ cutoff' = [cutoff EXCEPT ![o] = FALSE]
  /\ UNCHANGED <<phase, pub, chan, rsub, crashes, lastpub, missed, overtook>>

(* load_module has connected and started the dispatch thread.              *)
load_module(n) ==
  /\ phase[n] = "down"
  /\ phase' = [phase EXCEPT ![n] = "dump"]
  /\ UNCHANGED <<version, cache, evq, pub, chan, rsub, crashes, history>>

(* A dump of an entry that is not in the cache.                            *)
redis_dump_ast_event_cache_Uncached(n) ==
  /\ phase[n] = "dump"
  /\ phase' = [phase EXCEPT ![n] = "subscribe"]
  /\ pub' = [pub EXCEPT ![n] = Append(@, [origin |-> n, ver |-> cache[n][n]])]
  /\ UNCHANGED <<version, cache, evq, chan, rsub, crashes, history>>

(* No dump at all.                                                         *)
redis_dump_ast_event_cache_Skipped(n) ==
  /\ phase[n] = "dump"
  /\ phase' = [phase EXCEPT ![n] = "subscribe"]
  /\ UNCHANGED <<version, cache, evq, pub, chan, rsub, crashes, history>>

(* The cached events with this server's EntityID are PUBLISHed.            *)
redis_dump_ast_event_cache(n) ==
  /\ phase[n] = "dump"
  /\ phase' = [phase EXCEPT ![n] = "subscribe"]
  /\ pub' = IF cache[n][n] = 0 THEN pub
            ELSE [pub EXCEPT ![n] = Append(@, [origin |-> n,
                                               ver |-> cache[n][n]])]
  /\ overtook' = [overtook EXCEPT ![n] =
                    @ \/ \E i \in 1..Len(evq[n]) : evq[n][i].origin = n]
  /\ UNCHANGED <<version, cache, evq, chan, rsub, crashes, lastpub, reached,
                 sent, missed, cutoff>>

(* Subscribe with Asterisk and queue SUBSCRIBE on the other connection.    *)
redis_subscribe_to_channels(n) ==
  /\ phase[n] = "subscribe"
  /\ phase' = [phase EXCEPT ![n] = "up"]
  /\ UNCHANGED <<version, cache, evq, pub, chan, rsub, crashes, history>>

(* redis executes the SUBSCRIBE.                                           *)
redis_subscribe(n) ==
  /\ phase[n] = "up" /\ n \notin rsub
  /\ rsub' = rsub \cup {n}
  /\ UNCHANGED <<nodeVars, chan, crashes, history>>

(* An event that another server originated is not sent out again.          *)
SendOut_Always(n, e) == TRUE
SendOut_Inverted(n, e) == e.origin # n
SendOut(n, e) == e.origin = n

(* Asterisk dispatches an event; ast_event_cb hears it once it subscribed. *)
ast_event_cb(n) ==
  /\ evq[n] # <<>>
  /\ LET e == Head(evq[n])
     IN  /\ evq' = [evq EXCEPT ![n] = Tail(@)]
         /\ pub' = IF phase[n] = "up" /\ SendOut(n, e)
                     THEN [pub EXCEPT ![n] = Append(@, e)] ELSE pub
         /\ missed' = [missed EXCEPT ![n] =
                         @ \/ (/\ phase[n] = "subscribe" /\ e.origin = n
                               /\ lastpub[n] < e.ver
                               /\ \A i \in 1..Len(pub[n]) :
                                    pub[n][i].ver < e.ver)]
  /\ UNCHANGED <<phase, version, cache, chan, rsub, crashes, lastpub, reached,
                 sent, overtook, cutoff>>

(* redis executes a PUBLISH: every subscriber gets it, its sender as well. *)
redis_publish(n) ==
  /\ pub[n] # <<>>
  /\ LET m == Head(pub[n])
         o == m.origin
         current == {x \in rsub : m.ver = version[o]}
     IN  /\ pub' = [pub EXCEPT ![n] = Tail(@)]
         /\ chan' = [x \in Nodes |-> IF x \in rsub THEN Append(chan[x], m)
                                                   ELSE chan[x]]
         /\ lastpub' = [lastpub EXCEPT ![o] = m.ver]
         /\ reached' = [reached EXCEPT ![o] = @ \cup current]
         /\ sent' = [sent EXCEPT ![o] = IF m.ver = version[o] THEN @ + 1
                                        ELSE @]
  /\ UNCHANGED <<phase, version, cache, evq, rsub, crashes, missed, overtook,
                 cutoff>>

(* json2message gives up on a message with this server's EntityID.         *)
FedBack_Always(n, m) == TRUE
FedBack(n, m) == m.origin # n

(* ast_event_queue where ast_event_queue_and_cache is meant.               *)
redis_subscription_cb_NotCached(n) ==
  /\ chan[n] # <<>>
  /\ chan' = [chan EXCEPT ![n] = Tail(@)]
  /\ evq' = IF FedBack(n, Head(chan[n]))
              THEN [evq EXCEPT ![n] = Append(@, Head(chan[n]))] ELSE evq
  /\ UNCHANGED <<phase, version, cache, pub, rsub, crashes, history>>

(* The event gets the EntityID of the server that received the message.    *)
redis_subscription_cb_OwnEid(n) ==
  /\ chan[n] # <<>>
  /\ LET m == [Head(chan[n]) EXCEPT !.origin = n]
     IN  /\ chan' = [chan EXCEPT ![n] = Tail(@)]
         /\ IF FedBack(n, Head(chan[n]))
              THEN /\ cache' = [cache EXCEPT ![n][n] = m.ver]
                   /\ evq' = [evq EXCEPT ![n] = Append(@, m)]
              ELSE UNCHANGED <<cache, evq>>
  /\ UNCHANGED <<phase, version, pub, rsub, crashes, history>>

(* A message arrives: unless it came from here, cache and queue the event. *)
redis_subscription_cb(n) ==
  /\ chan[n] # <<>>
  /\ LET m == Head(chan[n])
     IN  /\ chan' = [chan EXCEPT ![n] = Tail(@)]
         /\ IF FedBack(n, m)
              THEN /\ cache' = [cache EXCEPT ![n][m.origin] = m.ver]
                   /\ evq' = [evq EXCEPT ![n] = Append(@, m)]
              ELSE UNCHANGED <<cache, evq>>
  /\ UNCHANGED <<phase, version, pub, rsub, crashes, history>>

(* The event of the current state of o's device waits in its event queue   *)
(* or in its publisher.                                                    *)
AwaitsPublish(o) ==
  \E q \in {evq[o], pub[o]} : \E i \in 1..Len(q) :
    q[i] = [origin |-> o, ver |-> version[o]]

(* The server's process dies, with all its queues; its cache is empty when *)
(* it comes back.  What redis sent the others stays sent.                  *)
crash(n) ==
  /\ crashes < MaxCrashes
  /\ crashes' = crashes + 1
  /\ phase' = [phase EXCEPT ![n] = "down"]
  /\ cache' = [cache EXCEPT ![n] = [o \in Nodes |-> 0]]
  /\ evq' = [evq EXCEPT ![n] = <<>>]
  /\ pub' = [pub EXCEPT ![n] = <<>>]
  /\ chan' = [chan EXCEPT ![n] = <<>>]
  /\ rsub' = rsub \ {n}
  /\ reached' = [o \in Nodes |-> reached[o] \ {n}]
  /\ missed' = [missed EXCEPT ![n] = FALSE]
  /\ cutoff' = [cutoff EXCEPT ![n] = @ \/ AwaitsPublish(n)]
  /\ UNCHANGED <<version, lastpub, sent, overtook>>

Module(n) == \/ load_module(n) \/ redis_dump_ast_event_cache(n)
             \/ redis_subscribe_to_channels(n)

Next == \E n \in Nodes :
          \/ ast_event_queue_and_cache(n) \/ Module(n) \/ redis_subscribe(n)
          \/ ast_event_cb(n) \/ redis_publish(n) \/ redis_subscription_cb(n)
          \/ crash(n)

Spec == Init /\ [][Next]_vars

(* The dispatch threads of a running server are scheduled, and redis       *)
(* answers.  ChangeSpreads is about loaded servers: it needs no more.      *)
FairSpec == /\ Spec
            /\ \A n \in Nodes : /\ WF_vars(ast_event_cb(n))
                                /\ WF_vars(redis_publish(n))
                                /\ WF_vars(redis_subscription_cb(n))
-----------------------------------------------------------------------------
(* What each variable may hold at all.                                     *)
Types ==
  /\ phase \in [Nodes -> {"down", "dump", "subscribe", "up"}]
  /\ version \in [Nodes -> 0..MaxVersion]
  /\ cache \in [Nodes -> [Nodes -> 0..MaxVersion]]
  /\ evq \in [Nodes -> Seq(Msg)]
  /\ pub \in [Nodes -> Seq(Msg)]
  /\ chan \in [Nodes -> Seq(Msg)]
  /\ rsub \subseteq Nodes
  /\ crashes \in 0..MaxCrashes
  /\ lastpub \in [Nodes -> 0..MaxVersion]
  /\ reached \in [Nodes -> SUBSET Nodes]
  /\ sent \in [Nodes -> Nat]
  /\ missed \in [Nodes -> BOOLEAN]
  /\ overtook \in [Nodes -> BOOLEAN]
  /\ cutoff \in [Nodes -> BOOLEAN]

(* Every variable has its type, and no server caches, queues, publishes or *)
(* is sent a state that the device it is of has not had: although a        *)
(* message is taken for a state of the device that its EntityID names, and *)
(* is kept in another server's cache after the one that sent it crashed.   *)
TypeOK ==
  /\ Types
  /\ \A n \in Nodes :
       /\ \A o \in Nodes : cache[n][o] <= version[o]
       /\ \A q \in {evq[n], pub[n], chan[n]} : \A i \in 1..Len(q) :
            q[i].ver <= version[q[i].origin]

(* No event storm: a state reaches redis at most twice, for its event and  *)
(* for a dump, however many servers hear it and feed it to their own       *)
(* Asterisk, which hands it to their ast_event_cb, and whoever crashes.    *)
NoEventStorm == \A o \in Nodes : sent[o] <= 2

(* A server never loses its own newest state to an older one that comes    *)
(* back from redis, and what it knows of another's goes back only if that  *)
(* server's dump overtook events that were still queued, or if it crashed. *)
NoStaleOverwrite ==
  [][\A n, o \in Nodes :
       \/ cache'[n][o] >= cache[n][o]
       \/ crashes' # crashes
       \/ n # o /\ overtook[o]]_vars

(* What a loaded, idle server has not told redis, it was told of between   *)
(* its dump of the cache and its subscription: no other change is lost.    *)
NothingElseLost ==
  \A o \in Nodes :
    phase[o] = "up" /\ evq[o] = <<>> /\ pub[o] = <<>> /\ cache[o][o] # 0
      => lastpub[o] = cache[o][o] \/ missed[o]

Quiet == \A n \in Nodes : evq[n] = <<>> /\ pub[n] = <<>> /\ chan[n] = <<>>

(* When nothing is on its way any more, every server that redis sent the   *)
(* current state of a device still has that one, whatever the dumps, the   *)
(* events and the echoes that were sent before and after it, unless both   *)
(* happened: the owner's dump overtook queued events, so that older states *)
(* followed the current one, and the owner crashed before the current      *)
(* one's own event, which comes last, was published.                       *)
Agreement ==
  Quiet => \A o \in Nodes : \A n \in reached[o] \ {o} :
             cache[n][o] = version[o] \/ (overtook[o] /\ cutoff[o])

(* A change of a loaded server's device gets to every server that redis    *)
(* counts as subscribed, unless one of the two crashes.                    *)
ChangeSpreads ==
  \A o \in Nodes : \A n \in Nodes \ {o} : \A v \in Versions :
    (/\ phase[o] = "up" /\ n \in rsub
     /\ \E i \in 1..Len(evq[o]) : evq[o][i] = [origin |-> o, ver |-> v])
      ~> (cache[n][o] >= v \/ phase[o] # "up" \/ n \notin rsub)

(* The cluster keeps the promise that StateSharing states: a subscriber is *)
(* handed what redis published in one common order, a state in it is one   *)
(* the device had, and an echo of its own state never changes the owner's. *)
SS == INSTANCE StateSharing WITH
        state <- version, known <- cache, members <- rsub, pending <- chan
Implements == SS!Spec
=============================================================================
