------------------------- MODULE RedisClusterProofs -------------------------
(***************************************************************************)
(* Theorems about RedisCluster, for any number of servers, states and      *)
(* crashes.  First TypeOK, and that it implements StateSharing.  TypeOK is *)
(* inductive as it stands: events travel from the event queue through the  *)
(* publisher and redis to the other servers' event queues, and it speaks   *)
(* of all three kinds of queue, and of the cache that a dump publishes     *)
(* from (IInv says the same with AllHad).                                  *)
(*                                                                         *)
(* Then NoEventStorm, NothingElseLost, Agreement and NoStaleOverwrite.     *)
(* They need to know where a device's current state is and what is queued  *)
(* behind it (CInv).  The actions are first reduced to what they do to one *)
(* server (LocalSteps) and to one pair of servers (PairSteps).             *)
(***************************************************************************)
EXTENDS RedisCluster, TLAPS

(* m is a state that its device has had, if v has the devices' last ones.  *)
Had(v, m) == m.ver <= v[m.origin]

AllHad(v, s) == \A i \in 1..Len(s) : Had(v, s[i])

IInv == /\ Types
        /\ \A n \in Nodes : /\ AllHad(version, evq[n])
                            /\ AllHad(version, pub[n])
                            /\ AllHad(version, chan[n])
        /\ \A n, o \in Nodes : cache[n][o] <= version[o]
-----------------------------------------------------------------------------
LEMMA InitIInv == Init => IInv
  <1> SUFFICES ASSUME Init PROVE IInv
    OBVIOUS
  <1> USE DEF Init
  <1>0. <<>> \in Seq(Msg)
    OBVIOUS
  <1>1. Types
    BY <1>0, ClusterAssumption DEF Types
  <1> QED BY <1>1 DEF IInv, AllHad

(* Each conjunct of Types through each step.                               *)
LEMMA StepType == Types /\ [Next]_vars => Types'
  <1> SUFFICES ASSUME Types, [Next]_vars PROVE Types'
    OBVIOUS
  <1> USE ClusterAssumption DEF Versions
  <1>e. <<>> \in Seq(Msg)
    OBVIOUS
  <1>1. ASSUME NEW n \in Nodes, ast_event_queue_and_cache(n) PROVE Types'
    <2>1. /\ version[n] + 1 \in Versions
          /\ [origin |-> n, ver |-> version[n] + 1] \in Msg
      BY <1>1 DEF ast_event_queue_and_cache, Types, Msg
    <2>2. version' \in [Nodes -> 0..MaxVersion] /\ version'[n] = version[n] + 1
      BY <1>1, <2>1 DEF ast_event_queue_and_cache, Types
    <2>3. cache' \in [Nodes -> [Nodes -> 0..MaxVersion]]
      BY <1>1, <2>1, <2>2 DEF ast_event_queue_and_cache, Types
    <2>4. evq' \in [Nodes -> Seq(Msg)]
      BY <1>1, <2>1, <2>2 DEF ast_event_queue_and_cache, Types
    <2> QED BY <1>1, <2>2, <2>3, <2>4 DEF ast_event_queue_and_cache, Types
  <1>2. ASSUME NEW n \in Nodes, Module(n) PROVE Types'
    <2>1. CASE load_module(n) \/ redis_subscribe_to_channels(n)
      BY <2>1 DEF load_module, redis_subscribe_to_channels, history, Types
    <2>2. CASE redis_dump_ast_event_cache(n)
      <3>0. ASSUME cache[n][n] # 0 PROVE pub' \in [Nodes -> Seq(Msg)]
        <4>1. [origin |-> n, ver |-> cache[n][n]] \in Msg
          BY <3>0 DEF Types, Msg
        <4> QED BY <2>2, <3>0, <4>1 DEF redis_dump_ast_event_cache, Types
      <3>1. pub' \in [Nodes -> Seq(Msg)]
        BY <2>2, <3>0 DEF redis_dump_ast_event_cache, Types
      <3>2. overtook' \in [Nodes -> BOOLEAN]
        BY <2>2, ZenonT(20) DEF redis_dump_ast_event_cache, Types
      <3> QED BY <2>2, <3>1, <3>2 DEF redis_dump_ast_event_cache, Types
    <2> QED BY <1>2, <2>1, <2>2 DEF Module
  <1>3. ASSUME NEW n \in Nodes, redis_subscribe(n) PROVE Types'
    BY <1>3 DEF redis_subscribe, nodeVars, history, Types
  <1>4. ASSUME NEW n \in Nodes, ast_event_cb(n) PROVE Types'
    <2>1. evq[n] \in Seq(Msg) /\ evq[n] # <<>>
      BY <1>4 DEF ast_event_cb, Types
    <2>2. Head(evq[n]) \in Msg /\ Tail(evq[n]) \in Seq(Msg)
      BY <2>1
    <2>3. evq' \in [Nodes -> Seq(Msg)] /\ pub' \in [Nodes -> Seq(Msg)]
      BY <1>4, <2>2 DEF ast_event_cb, Types
    <2>4. missed' \in [Nodes -> BOOLEAN]
      BY <1>4, ZenonT(20) DEF ast_event_cb, Types
    <2> QED BY <1>4, <2>3, <2>4 DEF ast_event_cb, Types
  <1>5. ASSUME NEW n \in Nodes, redis_publish(n) PROVE Types'
    <2> DEFINE m == Head(pub[n])
    <2>1. pub[n] \in Seq(Msg) /\ pub[n] # <<>>
      BY <1>5 DEF redis_publish, Types
    <2>2. m \in Msg /\ Tail(pub[n]) \in Seq(Msg)
      BY <2>1
    <2>3. m.origin \in Nodes /\ m.ver \in 0..MaxVersion
      BY <2>2 DEF Msg
    <2> HIDE DEF m
    <2>4. pub' \in [Nodes -> Seq(Msg)]
      BY <1>5, <2>2 DEF redis_publish, Types, m
    <2>5. chan' \in [Nodes -> Seq(Msg)]
      BY <1>5, <2>2 DEF redis_publish, Types, m
    <2>6. lastpub' \in [Nodes -> 0..MaxVersion]
      BY <1>5, <2>3 DEF redis_publish, Types, m
    <2>7. reached' \in [Nodes -> SUBSET Nodes]
      BY <1>5, <2>3 DEF redis_publish, Types, m
    <2>8. sent' \in [Nodes -> Nat]
      <3>1. PICK k \in {sent[m.origin], sent[m.origin] + 1} :
              sent' = [sent EXCEPT ![m.origin] = k]
        BY <1>5 DEF redis_publish, m
      <3>2. sent[m.origin] \in Nat
        BY <2>3 DEF Types
      <3>3. k \in Nat
        BY <3>1, <3>2
      <3> QED BY <3>1, <3>3 DEF Types
    <2> QED BY <1>5, <2>4, <2>5, <2>6, <2>7, <2>8 DEF redis_publish, Types
  <1>6. ASSUME NEW n \in Nodes, redis_subscription_cb(n) PROVE Types'
    <2> DEFINE m == Head(chan[n])
    <2>1. chan[n] \in Seq(Msg) /\ chan[n] # <<>>
      BY <1>6 DEF redis_subscription_cb, Types
    <2>2. m \in Msg /\ Tail(chan[n]) \in Seq(Msg)
      BY <2>1
    <2>3. m.origin \in Nodes /\ m.ver \in 0..MaxVersion
      BY <2>2 DEF Msg
    <2>4. /\ chan' = [chan EXCEPT ![n] = Tail(@)]
          /\ \/ cache' = cache /\ evq' = evq
             \/ /\ cache' = [cache EXCEPT ![n][m.origin] = m.ver]
                /\ evq' = [evq EXCEPT ![n] = Append(@, m)]
      BY <1>6 DEF redis_subscription_cb
    <2> HIDE DEF m
    <2>5. chan' \in [Nodes -> Seq(Msg)]
      BY <2>2, <2>4 DEF Types
    <2>6. evq' \in [Nodes -> Seq(Msg)]
      <3>1. CASE evq' = evq
        BY <3>1 DEF Types
      <3>2. CASE evq' = [evq EXCEPT ![n] = Append(@, m)]
        BY <2>2, <3>2 DEF Types
      <3> QED BY <2>4, <3>1, <3>2
    <2>7. cache' \in [Nodes -> [Nodes -> 0..MaxVersion]]
      <3>1. CASE cache' = cache
        BY <3>1 DEF Types
      <3>2. CASE cache' = [cache EXCEPT ![n][m.origin] = m.ver]
        BY <2>3, <3>2 DEF Types
      <3> QED BY <2>4, <3>1, <3>2
    <2> QED
      BY <1>6, <2>5, <2>6, <2>7 DEF redis_subscription_cb, history, Types
  <1>7. ASSUME NEW n \in Nodes, crash(n) PROVE Types'
    <2>1. cutoff' \in [Nodes -> BOOLEAN]
      BY <1>7, ZenonT(20) DEF crash, Types, AwaitsPublish
    <2> QED BY <1>7, <1>e, <2>1 DEF crash, Types
  <1>8. CASE UNCHANGED vars
    BY <1>8 DEF vars, nodeVars, history, Types
  <1> QED BY <1>1, <1>2, <1>3, <1>4, <1>5, <1>6, <1>7, <1>8 DEF Next

(* What one step can do to a queue q: leave it, empty it, take its head,   *)
(* or append a state that its device has had by then.                      *)
Moves(w, q, r) == \/ r = q \/ r = <<>>
                  \/ q # <<>> /\ r = Tail(q)
                  \/ \E m \in Msg : Had(w, m) /\ r = Append(q, m)

(* Devices never take back a state, so such a step keeps a queue good.     *)
LEMMA MovesHad ==
  ASSUME NEW v \in [Nodes -> Nat], NEW w \in [Nodes -> Nat],
         \A o \in Nodes : v[o] <= w[o],
         NEW q \in Seq(Msg), NEW r, AllHad(v, q), Moves(w, q, r)
  PROVE  AllHad(w, r)
  <1>1. \A i \in 1..Len(q) : Had(w, q[i])
    <2> SUFFICES ASSUME NEW i \in 1..Len(q) PROVE Had(w, q[i])
      OBVIOUS
    <2>1. q[i] \in Msg /\ Had(v, q[i])
      BY DEF AllHad
    <2>2. q[i].origin \in Nodes /\ q[i].ver \in Nat
      BY <2>1, ClusterAssumption DEF Msg, Versions
    <2> QED BY <2>1, <2>2 DEF Had
  <1>2. CASE r = q \/ r = <<>>
    BY <1>1, <1>2 DEF AllHad
  <1>3. CASE q # <<>> /\ r = Tail(q)
    <2> SUFFICES ASSUME NEW i \in 1..Len(r) PROVE Had(w, r[i])
      BY DEF AllHad
    <2>1. r[i] = q[i + 1] /\ i + 1 \in 1..Len(q)
      BY <1>3
    <2> QED BY <1>1, <2>1
  <1>4. ASSUME NEW m \in Msg, Had(w, m), r = Append(q, m) PROVE AllHad(w, r)
    <2> SUFFICES ASSUME NEW i \in 1..Len(r) PROVE Had(w, r[i])
      BY DEF AllHad
    <2>1. r[i] = m \/ (i \in 1..Len(q) /\ r[i] = q[i])
      BY <1>4
    <2> QED BY <1>1, <1>4, <2>1
  <1> QED BY <1>2, <1>3, <1>4 DEF Moves

(* The head of a good queue is a message that its device has had.          *)
LEMMA HeadHad ==
  ASSUME NEW v, NEW q \in Seq(Msg), q # <<>>, AllHad(v, q)
  PROVE  Head(q) \in Msg /\ Had(v, Head(q))
  <1>1. Head(q) = q[1] /\ 1 \in 1..Len(q) /\ q[1] \in Msg
    OBVIOUS
  <1> QED BY <1>1 DEF AllHad

(* No step takes back a state of a device.                                 *)
LEMMA VersionGrows ==
  ASSUME Types, [Next]_vars
  PROVE  /\ version \in [Nodes -> Nat] /\ version' \in [Nodes -> Nat]
         /\ \A o \in Nodes : version[o] <= version'[o]
  <1>1. version \in [Nodes -> Nat] /\ version' \in [Nodes -> Nat]
    BY StepType, ClusterAssumption DEF Types
  <1>2. ASSUME NEW n \in Nodes, ast_event_queue_and_cache(n)
        PROVE  \A o \in Nodes : version[o] <= version'[o]
    BY <1>1, <1>2 DEF ast_event_queue_and_cache
  <1>3. ASSUME version' = version
        PROVE  \A o \in Nodes : version[o] <= version'[o]
    BY <1>1, <1>3
  <1> QED
    BY <1>1, <1>2, <1>3 DEF Next, Module, load_module, redis_subscribe,
         redis_dump_ast_event_cache, redis_subscribe_to_channels, ast_event_cb,
         redis_publish, redis_subscription_cb, crash, vars, nodeVars

(* Each step moves each queue in one of the four ways.                     *)
LEMMA QueueMoves ==
  ASSUME IInv, [Next]_vars, NEW x \in Nodes
  PROVE  /\ Moves(version', evq[x], evq'[x])
         /\ Moves(version', pub[x], pub'[x])
         /\ Moves(version', chan[x], chan'[x])
  <1> DEFINE Good == /\ Moves(version', evq[x], evq'[x])
                     /\ Moves(version', pub[x], pub'[x])
                     /\ Moves(version', chan[x], chan'[x])
  <1>0. Types
    BY DEF IInv
  <1>1. ASSUME NEW n \in Nodes, ast_event_queue_and_cache(n) PROVE Good
    <2> DEFINE m == [origin |-> n, ver |-> version'[n]]
    <2>1. version'[n] \in Versions
      <3>1. version[n] < MaxVersion /\ version'[n] = version[n] + 1
        BY <1>0, <1>1 DEF ast_event_queue_and_cache, Types
      <3>2. version[n] \in 0..MaxVersion
        BY <1>0 DEF Types
      <3> QED BY <3>1, <3>2, ClusterAssumption DEF Versions
    <2>2. m \in Msg /\ Had(version', m)
      BY <2>1, ClusterAssumption DEF Msg, Had, Versions
    <2>3. evq'[x] = evq[x] \/ evq'[x] = Append(evq[x], m)
      BY <1>0, <1>1 DEF ast_event_queue_and_cache, Types
    <2>4. pub' = pub /\ chan' = chan
      BY <1>1 DEF ast_event_queue_and_cache
    <2> QED BY <2>2, <2>3, <2>4 DEF Moves
  <1>2. ASSUME NEW n \in Nodes, redis_dump_ast_event_cache(n) PROVE Good
    <2> DEFINE m == [origin |-> n, ver |-> cache[n][n]]
    <2>1. CASE cache[n][n] = 0
      BY <1>2, <2>1 DEF redis_dump_ast_event_cache, Moves
    <2>2. CASE cache[n][n] # 0
      <3>1. m \in Msg /\ Had(version', m)
        <4>1. cache[n][n] \in 0..MaxVersion /\ cache[n][n] <= version[n]
          BY <1>0 DEF IInv, Types
        <4>2. cache[n][n] \in Versions
          BY <2>2, <4>1, ClusterAssumption DEF Versions
        <4>3. version' = version
          BY <1>2 DEF redis_dump_ast_event_cache
        <4> QED BY <4>1, <4>2, <4>3 DEF Msg, Had
      <3>2. pub'[x] = pub[x] \/ pub'[x] = Append(pub[x], m)
        BY <1>0, <1>2 DEF redis_dump_ast_event_cache, Types
      <3>3. evq' = evq /\ chan' = chan
        BY <1>2 DEF redis_dump_ast_event_cache
      <3> QED BY <3>1, <3>2, <3>3 DEF Moves
    <2> QED BY <2>1, <2>2
  <1>3. ASSUME NEW n \in Nodes, ast_event_cb(n) PROVE Good
    <2>1. evq[n] \in Seq(Msg) /\ evq[n] # <<>> /\ version' = version
      BY <1>0, <1>3 DEF ast_event_cb, Types
    <2>2. PICK m \in Msg : m = Head(evq[n]) /\ Had(version', m)
      BY <2>1, HeadHad DEF IInv
    <2>3. evq'[x] = evq[x] \/ (x = n /\ evq'[x] = Tail(evq[x]))
      BY <1>0, <1>3 DEF ast_event_cb, Types
    <2>4. pub'[x] = pub[x] \/ pub'[x] = Append(pub[x], m)
      BY <1>0, <1>3, <2>2 DEF ast_event_cb, Types
    <2>5. chan' = chan
      BY <1>3 DEF ast_event_cb
    <2> QED BY <2>1, <2>2, <2>3, <2>4, <2>5 DEF Moves
  <1>4. ASSUME NEW n \in Nodes, redis_publish(n) PROVE Good
    <2>1. pub[n] \in Seq(Msg) /\ pub[n] # <<>> /\ version' = version
      BY <1>0, <1>4 DEF redis_publish, Types
    <2>2. PICK m \in Msg : m = Head(pub[n]) /\ Had(version', m)
      BY <2>1, HeadHad DEF IInv
    <2>3. pub'[x] = pub[x] \/ (x = n /\ pub'[x] = Tail(pub[x]))
      BY <1>0, <1>4 DEF redis_publish, Types
    <2>4. chan'[x] = chan[x] \/ chan'[x] = Append(chan[x], m)
      BY <1>0, <1>4, <2>2 DEF redis_publish, Types
    <2>5. evq' = evq
      BY <1>4 DEF redis_publish
    <2> QED BY <2>1, <2>2, <2>3, <2>4, <2>5 DEF Moves
  <1>5. ASSUME NEW n \in Nodes, redis_subscription_cb(n) PROVE Good
    <2>1. chan[n] \in Seq(Msg) /\ chan[n] # <<>> /\ version' = version
      BY <1>0, <1>5 DEF redis_subscription_cb, Types
    <2>2. PICK m \in Msg : m = Head(chan[n]) /\ Had(version', m)
      BY <2>1, HeadHad DEF IInv
    <2>3. chan'[x] = chan[x] \/ (x = n /\ chan'[x] = Tail(chan[x]))
      BY <1>0, <1>5 DEF redis_subscription_cb, Types
    <2>4. evq'[x] = evq[x] \/ evq'[x] = Append(evq[x], m)
      BY <1>0, <1>5, <2>2 DEF redis_subscription_cb, Types
    <2>5. pub' = pub
      BY <1>5 DEF redis_subscription_cb
    <2> QED BY <2>1, <2>2, <2>3, <2>4, <2>5 DEF Moves
  <1>6. ASSUME NEW n \in Nodes, crash(n) PROVE Good
    BY <1>0, <1>6 DEF crash, Types, Moves
  <1>7. ASSUME evq' = evq, pub' = pub, chan' = chan PROVE Good
    BY <1>7 DEF Moves
  <1> QED
    BY <1>1, <1>2, <1>3, <1>4, <1>5, <1>6, <1>7 DEF Next, Module, load_module,
         redis_subscribe_to_channels, redis_subscribe, vars, nodeVars

(* A cache entry is written from the device or from a message.             *)
LEMMA StepCache ==
  ASSUME IInv, [Next]_vars, NEW x \in Nodes, NEW o \in Nodes
  PROVE  cache'[x][o] <= version'[o]
  <1>0. Types /\ cache[x][o] <= version[o]
    BY DEF IInv
  <1>v. /\ version[o] \in Nat /\ version'[o] \in Nat /\ cache[x][o] \in Nat
        /\ version[o] <= version'[o]
    <2>1. /\ version[o] \in Nat /\ version'[o] \in Nat
          /\ version[o] <= version'[o]
      BY <1>0, VersionGrows
    <2>2. cache[x][o] \in 0..MaxVersion
      BY <1>0 DEF Types
    <2> QED BY <2>1, <2>2, ClusterAssumption
  <1>1. ASSUME NEW n \in Nodes, ast_event_queue_and_cache(n)
        PROVE  cache'[x][o] <= version'[o]
    <2>1. cache'[x][o] = cache[x][o] \/ cache'[x][o] = version'[o]
      BY <1>0, <1>1 DEF ast_event_queue_and_cache, Types
    <2> QED BY <1>0, <1>v, <2>1
  <1>2. ASSUME NEW n \in Nodes, redis_subscription_cb(n)
        PROVE  cache'[x][o] <= version'[o]
    <2>1. chan[n] \in Seq(Msg) /\ chan[n] # <<>> /\ version' = version
      BY <1>0, <1>2 DEF redis_subscription_cb, Types
    <2>2. PICK m \in Msg : m = Head(chan[n]) /\ Had(version, m)
      BY <2>1, HeadHad DEF IInv
    <2>3. m.origin \in Nodes /\ m.ver <= version[m.origin]
      BY <2>2 DEF Msg, Had
    <2>4. cache' = cache \/ cache' = [cache EXCEPT ![n][m.origin] = m.ver]
      BY <1>2, <2>2 DEF redis_subscription_cb
    <2>5. \/ cache'[x][o] = cache[x][o]
          \/ o = m.origin /\ cache'[x][o] = m.ver
      <3>1. CASE cache' = cache
        BY <3>1
      <3>2. CASE cache' = [cache EXCEPT ![n][m.origin] = m.ver]
        BY <1>0, <2>3, <3>2 DEF Types
      <3> QED BY <2>4, <3>1, <3>2
    <2> QED BY <1>0, <1>v, <2>1, <2>3, <2>5
  <1>3. ASSUME NEW n \in Nodes, crash(n) PROVE cache'[x][o] <= version'[o]
    <2>1. cache'[x][o] = cache[x][o] \/ cache'[x][o] = 0
      BY <1>0, <1>3 DEF crash, Types
    <2> QED BY <1>0, <1>v, <2>1
  <1>4. ASSUME cache' = cache PROVE cache'[x][o] <= version'[o]
    BY <1>0, <1>v, <1>4
  <1> QED
    BY <1>1, <1>2, <1>3, <1>4 DEF Next, Module, load_module, redis_subscribe,
         redis_dump_ast_event_cache, redis_subscribe_to_channels, ast_event_cb,
         redis_publish, vars, nodeVars

(* The invariant is inductive.                                             *)
LEMMA StepIInv == IInv /\ [Next]_vars => IInv'
  <1> SUFFICES ASSUME IInv, [Next]_vars PROVE IInv'
    OBVIOUS
  <1>1. Types /\ Types'
    BY StepType DEF IInv
  <1>2. ASSUME NEW n \in Nodes
        PROVE  /\ AllHad(version', evq'[n]) /\ AllHad(version', pub'[n])
               /\ AllHad(version', chan'[n])
    <2>1. /\ evq[n] \in Seq(Msg) /\ AllHad(version, evq[n])
          /\ pub[n] \in Seq(Msg) /\ AllHad(version, pub[n])
          /\ chan[n] \in Seq(Msg) /\ AllHad(version, chan[n])
      BY <1>1 DEF IInv, Types
    <2> QED BY <1>1, <2>1, VersionGrows, QueueMoves, MovesHad
  <1> QED BY <1>1, <1>2, StepCache DEF IInv

(* load_module, the publisher, the callbacks and a crash keep every        *)
(* variable in its type, and what ast_event_cb and                         *)
(* redis_dump_ast_event_cache publish and redis_subscription_cb caches and *)
(* queues is a state that the device it is of has had, on every server and *)
(* after every crash.                                                      *)
THEOREM TypeCorrect == Spec => []TypeOK
  <1>1. IInv => TypeOK
    BY DEF IInv, TypeOK, AllHad, Had
  <1> QED BY <1>1, InitIInv, StepIInv, PTL DEF Spec
-----------------------------------------------------------------------------
(* Each step of the cluster is a step of StateSharing or changes nothing   *)
(* of what StateSharing speaks of.                                         *)
LEMMA StepShares == IInv /\ [Next]_vars => [SS!Next]_(SS!vars)
  <1> SUFFICES ASSUME IInv, [Next]_vars PROVE SS!Next \/ UNCHANGED SS!vars
    OBVIOUS
  <1>0. Types
    BY DEF IInv
  <1>1. ASSUME NEW n \in Nodes, ast_event_queue_and_cache(n)
        PROVE  SS!Change(n)
    <2>1. version'[n] = version[n] + 1
      BY <1>0, <1>1 DEF ast_event_queue_and_cache, Types
    <2> QED BY <1>1, <2>1 DEF ast_event_queue_and_cache, SS!Change
  <1>2. ASSUME NEW n \in Nodes, redis_subscribe(n) PROVE SS!Join(n)
    BY <1>2 DEF redis_subscribe, nodeVars, SS!Join
  <1>3. ASSUME NEW n \in Nodes, redis_publish(n)
        PROVE  \E o \in Nodes : \E v \in 1..version[o] : SS!Announce(o, v)
    <2>1. pub[n] \in Seq(Msg) /\ pub[n] # <<>>
      BY <1>0, <1>3 DEF redis_publish, Types
    <2>2. PICK m \in Msg : m = Head(pub[n]) /\ Had(version, m)
      BY <2>1, HeadHad DEF IInv
    <2>3. m.origin \in Nodes /\ m.ver \in 1..version[m.origin]
      BY <1>0, <2>2, ClusterAssumption DEF Msg, Versions, Had, Types
    <2>4. m = [origin |-> m.origin, ver |-> m.ver]
      BY DEF Msg
    <2>5. SS!Announce(m.origin, m.ver)
      BY <1>3, <2>2, <2>3, <2>4 DEF redis_publish, SS!Announce
    <2> QED BY <2>3, <2>5
  <1>4. ASSUME NEW n \in Nodes, redis_subscription_cb(n) PROVE SS!Learn(n)
    BY <1>4 DEF redis_subscription_cb, FedBack, SS!Learn
  <1>5. ASSUME NEW n \in Nodes, crash(n) PROVE SS!Forget(n)
    BY <1>5 DEF crash, SS!Forget
  <1>6. ASSUME NEW n \in Nodes, Module(n) \/ ast_event_cb(n)
        PROVE  UNCHANGED SS!vars
    BY <1>6 DEF Module, load_module, redis_dump_ast_event_cache,
         redis_subscribe_to_channels, ast_event_cb, SS!vars
  <1>7. CASE UNCHANGED vars
    BY <1>7 DEF vars, nodeVars, SS!vars
  <1>8. CASE Next
    <2>1. PICK n \in Nodes :
            \/ ast_event_queue_and_cache(n) \/ Module(n) \/ redis_subscribe(n)
            \/ ast_event_cb(n) \/ redis_publish(n) \/ redis_subscription_cb(n)
            \/ crash(n)
      BY <1>8 DEF Next
    <2> QED BY <1>1, <1>2, <1>3, <1>4, <1>5, <1>6, <2>1 DEF SS!Next
  <1> QED BY <1>7, <1>8

(* res_redis implements the sharing of device states: whatever is queued,  *)
(* dumped, echoed or lost in a crash, a subscriber is handed states that   *)
(* their devices had, in the order in which redis published them, and no   *)
(* echo changes what the owner of a device has cached.                     *)
THEOREM ImplementsSharing == Spec => Implements
  <1>1. Init => SS!Init
    BY DEF Init, SS!Init
  <1> QED BY <1>1, InitIInv, StepIInv, StepShares, PTL
          DEF Spec, Implements, SS!Spec
-----------------------------------------------------------------------------
(* What a step can do to the part of the state that belongs to server o.   *)
(* Each action does one of these things to the server that takes it, and   *)
(* lets the others rest, but for who was reached by o's current state.     *)
SameQueues(o) == evq'[o] = evq[o] /\ pub'[o] = pub[o]
SameDevice(o) == version'[o] = version[o] /\ cache'[o][o] = cache[o][o]
SameRecord(o) == lastpub'[o] = lastpub[o] /\ sent'[o] = sent[o]
KeepsFlags(o) == /\ missed[o] => missed'[o]
                 /\ overtook[o] => overtook'[o]
                 /\ cutoff[o] => cutoff'[o]

(* o's device changes.                                                     *)
Changes(o) ==
  /\ version'[o] = version[o] + 1 /\ cache'[o][o] = version[o] + 1
  /\ evq'[o] = Append(evq[o], [origin |-> o, ver |-> version[o] + 1])
  /\ pub'[o] = pub[o] /\ phase'[o] = phase[o] /\ lastpub'[o] = lastpub[o]
  /\ sent'[o] = 0 /\ reached'[o] = {} /\ (overtook[o] => overtook'[o])

(* load_module goes on, with nothing to publish.                           *)
Loads(o) ==
  /\ \/ phase[o] = "down" /\ phase'[o] = "dump"
     \/ phase[o] = "subscribe" /\ phase'[o] = "up"
  /\ SameQueues(o) /\ SameDevice(o) /\ SameRecord(o)
  /\ reached'[o] = reached[o] /\ KeepsFlags(o)

(* load_module dumps the cache; unless overtook says otherwise, no event   *)
(* of o's device was still queued.                                         *)
Dumps(o) ==
  /\ phase[o] = "dump" /\ phase'[o] = "subscribe"
  /\ evq'[o] = evq[o]
  /\ pub'[o] = IF cache[o][o] = 0 THEN pub[o]
               ELSE Append(pub[o], [origin |-> o, ver |-> cache[o][o]])
  /\ \/ overtook'[o]
     \/ \A i \in 1..Len(evq[o]) : evq[o][i].origin # o
  /\ SameDevice(o) /\ SameRecord(o)
  /\ reached'[o] = reached[o] /\ KeepsFlags(o)

(* ast_event_cb; a state of o's device that it does not hear between the   *)
(* dump and the subscription is missed, or redis has it or will get one as *)
(* new.                                                                    *)
Hears(o) ==
  /\ evq[o] # <<>> /\ evq'[o] = Tail(evq[o])
  /\ pub'[o] = IF phase[o] = "up" /\ Head(evq[o]).origin = o
                 THEN Append(pub[o], Head(evq[o])) ELSE pub[o]
  /\ \/ missed'[o]
     \/ phase[o] # "subscribe" \/ Head(evq[o]).origin # o
     \/ Head(evq[o]).ver <= lastpub[o]
     \/ \E i \in 1..Len(pub[o]) : Head(evq[o]).ver <= pub[o][i].ver
  /\ SameDevice(o) /\ SameRecord(o) /\ phase'[o] = phase[o]
  /\ reached'[o] = reached[o] /\ KeepsFlags(o)

(* redis executes a PUBLISH, of a state of o's own device.                 *)
Publishes(o) ==
  /\ pub[o] # <<>> /\ pub'[o] = Tail(pub[o])
  /\ lastpub'[o] = Head(pub[o]).ver
  /\ IF Head(pub[o]).ver = version[o]
       THEN sent'[o] = sent[o] + 1 /\ reached'[o] = reached[o] \cup rsub
       ELSE sent'[o] = sent[o] /\ reached'[o] = reached[o]
  /\ evq'[o] = evq[o] /\ SameDevice(o) /\ phase'[o] = phase[o]
  /\ KeepsFlags(o)

(* redis_subscription_cb: another device's state joins the event queue.    *)
Learns(o) ==
  /\ \E m \in Msg : m.origin # o /\ evq'[o] = Append(evq[o], m)
  /\ pub'[o] = pub[o] /\ phase'[o] = phase[o]
  /\ SameDevice(o) /\ SameRecord(o)
  /\ reached'[o] = reached[o] /\ KeepsFlags(o)

(* o crashes; unless cutoff says otherwise, its current state's event was  *)
(* not waiting to be published.                                            *)
Dies(o) ==
  /\ phase'[o] = "down" /\ cache'[o][o] = 0 /\ version'[o] = version[o]
  /\ evq'[o] = <<>> /\ pub'[o] = <<>> /\ reached'[o] \subseteq reached[o]
  /\ cutoff'[o] \/ (~cutoff[o] /\ ~AwaitsPublish(o))
  /\ SameRecord(o) /\ (overtook[o] => overtook'[o]) /\ crashes' # crashes

(* A step of another server.                                               *)
Rests(o) ==
  /\ phase'[o] = phase[o]
  /\ SameQueues(o) /\ SameDevice(o) /\ SameRecord(o)
  /\ reached'[o] \subseteq reached[o] /\ KeepsFlags(o)

(* A server publishes states of its own device only.                       *)
OnlyOwn == \A o \in Nodes : \A i \in 1..Len(pub[o]) : pub[o][i].origin = o

LocalStep(o) == \/ Changes(o) \/ Loads(o) \/ Dumps(o) \/ Hears(o)
                \/ Publishes(o) \/ Learns(o) \/ Dies(o) \/ Rests(o)

(* The parts of a message.                                                 *)
LEMMA MsgType ==
  ASSUME NEW m \in Msg
  PROVE  m.origin \in Nodes /\ m.ver \in Nat /\ 1 <= m.ver
  BY ClusterAssumption DEF Msg, Versions

(* The types of the parts of the state that belong to one server.          *)
LEMMA LocalTypes ==
  ASSUME Types, NEW o \in Nodes
  PROVE  /\ evq[o] \in Seq(Msg) /\ pub[o] \in Seq(Msg) /\ chan[o] \in Seq(Msg)
         /\ version[o] \in Nat /\ lastpub[o] \in Nat /\ sent[o] \in Nat
         /\ \A x \in Nodes : cache[x][o] \in Nat
         /\ reached[o] \subseteq Nodes
         /\ phase[o] \in {"down", "dump", "subscribe", "up"}
  BY ClusterAssumption DEF Types

(* The elements of a queue.                                                *)
LEMMA SeqOfMsg ==
  ASSUME NEW q \in Seq(Msg)
  PROVE  /\ Len(q) \in Nat
         /\ \A i \in 1..Len(q) :
              /\ q[i] \in Msg /\ q[i].origin \in Nodes
              /\ q[i].ver \in Nat /\ 1 <= q[i].ver
  <1>1. \A i \in 1..Len(q) : q[i] \in Msg
    OBVIOUS
  <1> QED BY <1>1, MsgType

(* The effect on server o of each action of server n.                      *)
Effects(n, o) ==
  /\ ast_event_queue_and_cache(n) => IF n = o THEN Changes(o) ELSE Rests(o)
  /\ load_module(n) \/ redis_subscribe_to_channels(n)
       => IF n = o THEN Loads(o) ELSE Rests(o)
  /\ redis_dump_ast_event_cache(n) => IF n = o THEN Dumps(o) ELSE Rests(o)
  /\ ast_event_cb(n) => IF n = o THEN Hears(o) ELSE Rests(o)
  /\ redis_publish(n) => IF n = o THEN Publishes(o) ELSE Rests(o)
  /\ redis_subscription_cb(n)
       => IF n = o THEN Learns(o) \/ Rests(o) ELSE Rests(o)
  /\ crash(n) => IF n = o THEN Dies(o) ELSE Rests(o)
  /\ redis_subscribe(n) => Rests(o)

(* All reasoning about the actions themselves is in this lemma and in      *)
(* PairSteps below; what follows reasons about their effects.              *)
LEMMA ActionEffects ==
  ASSUME Types, OnlyOwn, NEW n \in Nodes, NEW o \in Nodes
  PROVE  Effects(n, o)
  <1> USE DEF SameQueues, SameDevice, SameRecord
  <1>1. ASSUME ast_event_queue_and_cache(n)
        PROVE  IF n = o THEN Changes(o) ELSE Rests(o)
    <2>1. CASE n = o
      BY <1>1, <2>1 DEF ast_event_queue_and_cache, Changes, Types
    <2>2. CASE n # o
      BY <1>1, <2>2
      DEF ast_event_queue_and_cache, Rests, Types, KeepsFlags
    <2> QED BY <2>1, <2>2
  <1>2. ASSUME load_module(n) \/ redis_subscribe_to_channels(n)
        PROVE  IF n = o THEN Loads(o) ELSE Rests(o)
    <2>0. KeepsFlags(o)
      BY <1>2 DEF load_module, redis_subscribe_to_channels, history, KeepsFlags
    <2> QED BY <1>2, <2>0 DEF load_module, redis_subscribe_to_channels,
              history, Loads, Rests, Types
  <1>3. ASSUME redis_dump_ast_event_cache(n)
        PROVE  IF n = o THEN Dumps(o) ELSE Rests(o)
    <2>0. /\ missed[o] => missed'[o]
          /\ overtook[o] => overtook'[o]
          /\ cutoff[o] => cutoff'[o]
      BY <1>3, ZenonT(20) DEF redis_dump_ast_event_cache, Types
    <2>1. CASE n = o
      <3>1. \/ overtook'[o]
            \/ \A i \in 1..Len(evq[o]) : evq[o][i].origin # o
        BY <1>3, <2>1, ZenonT(20) DEF redis_dump_ast_event_cache, Types
      <3> QED BY <1>3, <2>0, <2>1, <3>1
              DEF redis_dump_ast_event_cache, Dumps, Types, KeepsFlags
    <2>2. CASE n # o
      BY <1>3, <2>0, <2>2
      DEF redis_dump_ast_event_cache, Rests, Types, KeepsFlags
    <2> QED BY <2>1, <2>2
  <1>4. ASSUME ast_event_cb(n) PROVE IF n = o THEN Hears(o) ELSE Rests(o)
    <2>0. /\ missed[o] => missed'[o]
          /\ overtook[o] => overtook'[o]
          /\ cutoff[o] => cutoff'[o]
      BY <1>4, ZenonT(20) DEF ast_event_cb, Types
    <2>1. CASE n = o
      <3>0. /\ evq[o] \in Seq(Msg) /\ evq[o] # <<>> /\ pub[o] \in Seq(Msg)
            /\ Head(evq[o]).ver \in Nat /\ lastpub[o] \in Nat
            /\ \A i \in 1..Len(pub[o]) : pub[o][i].ver \in Nat
        <4>1. evq[o] # <<>>
          BY <1>4, <2>1 DEF ast_event_cb
        <4>2. Head(evq[o]) \in Msg
          BY <4>1, LocalTypes
        <4> QED BY <4>1, <4>2, LocalTypes, MsgType, SeqOfMsg
      <3>1. \/ missed'[o]
            \/ ~ /\ phase[o] = "subscribe" /\ Head(evq[o]).origin = o
                 /\ lastpub[o] < Head(evq[o]).ver
                 /\ \A i \in 1..Len(pub[o]) : pub[o][i].ver < Head(evq[o]).ver
        BY <1>4, <2>1, ZenonT(20) DEF ast_event_cb, Types
      <3> QED BY <1>4, <2>0, <2>1, <3>0, <3>1
              DEF ast_event_cb, SendOut, Hears, Types, KeepsFlags
    <2>2. CASE n # o
      BY <1>4, <2>0, <2>2 DEF ast_event_cb, Rests, Types, KeepsFlags
    <2> QED BY <2>1, <2>2
  <1>5. ASSUME redis_publish(n) PROVE IF n = o THEN Publishes(o) ELSE Rests(o)
    <2>0. KeepsFlags(o)
      BY <1>5 DEF redis_publish, KeepsFlags
    <2>1. pub[n] \in Seq(Msg) /\ pub[n] # <<>> /\ Head(pub[n]) = pub[n][1]
      BY <1>5 DEF redis_publish, Types
    <2>2. Head(pub[n]).origin = n
      BY <2>1 DEF OnlyOwn
    <2>3. CASE n = o
      <3>1. /\ pub'[o] = Tail(pub[o]) /\ lastpub'[o] = Head(pub[o]).ver
            /\ evq'[o] = evq[o] /\ SameDevice(o) /\ phase'[o] = phase[o]
        BY <1>5, <2>2, <2>3 DEF redis_publish, Types
      <3>2. /\ sent'[o] = IF Head(pub[o]).ver = version[o]
                            THEN sent[o] + 1 ELSE sent[o]
            /\ reached'[o] = reached[o] \cup
                               {x \in rsub : Head(pub[o]).ver = version[o]}
        BY <1>5, <2>2, <2>3 DEF redis_publish, Types
      <3> QED BY <2>0, <2>1, <2>3, <3>1, <3>2 DEF Publishes
    <2>4. CASE n # o
      BY <1>5, <2>0, <2>2, <2>4 DEF redis_publish, Rests, Types
    <2> QED BY <2>3, <2>4
  <1>6. ASSUME redis_subscription_cb(n)
        PROVE  IF n = o THEN Learns(o) \/ Rests(o) ELSE Rests(o)
    <2>0. KeepsFlags(o)
      BY <1>6 DEF redis_subscription_cb, history, KeepsFlags
    <2>1. chan[n] \in Seq(Msg) /\ chan[n] # <<>>
      BY <1>6 DEF redis_subscription_cb, Types
    <2>2. PICK m \in Msg : m = Head(chan[n])
      BY <2>1
    <2>3. /\ \/ cache' = cache /\ evq' = evq
             \/ /\ m.origin # n
                /\ cache' = [cache EXCEPT ![n][m.origin] = m.ver]
                /\ evq' = [evq EXCEPT ![n] = Append(@, m)]
          /\ pub' = pub /\ phase' = phase /\ version' = version
          /\ UNCHANGED history
      BY <1>6, <2>2 DEF redis_subscription_cb, FedBack
    <2>4. CASE cache' = cache /\ evq' = evq
      BY <2>0, <2>3, <2>4 DEF Rests, history
    <2>5. CASE /\ m.origin # n
               /\ cache' = [cache EXCEPT ![n][m.origin] = m.ver]
               /\ evq' = [evq EXCEPT ![n] = Append(@, m)]
      <3>1. cache'[o][o] = cache[o][o]
        BY <2>5 DEF Types
      <3>2. IF n = o THEN evq'[o] = Append(evq[o], m) ELSE evq'[o] = evq[o]
        BY <2>5 DEF Types
      <3> QED BY <2>0, <2>3, <2>5, <3>1, <3>2 DEF Learns, Rests, history
    <2> QED BY <2>3, <2>4, <2>5
  <1>7. ASSUME crash(n) PROVE IF n = o THEN Dies(o) ELSE Rests(o)
    <2>0. overtook[o] => overtook'[o]
      BY <1>7 DEF crash
    <2>1. CASE n = o
      <3>1. cutoff'[o] \/ (~cutoff[o] /\ ~AwaitsPublish(o))
        BY <1>7, <2>1, ZenonT(20) DEF crash, Types
      <3> QED BY <1>7, <2>0, <2>1, <3>1 DEF crash, Dies, Types
    <2>2. CASE n # o
      <3>1. (missed[o] => missed'[o]) /\ (cutoff[o] => cutoff'[o])
        BY <1>7, <2>2, ZenonT(20) DEF crash, Types
      <3> QED BY <1>7, <2>0, <2>2, <3>1 DEF crash, Rests, Types, KeepsFlags
    <2> QED BY <2>1, <2>2
  <1>8. ASSUME redis_subscribe(n) PROVE Rests(o)
    BY <1>8 DEF redis_subscribe, nodeVars, history, Rests, KeepsFlags
  <1> QED
    BY <1>1, <1>2, <1>3, <1>4, <1>5, <1>6, <1>7, <1>8 DEF Effects

(* Every step does one of these things to every server.                    *)
LEMMA LocalSteps ==
  ASSUME Types, OnlyOwn, [Next]_vars, NEW o \in Nodes
  PROVE  LocalStep(o)
  <1>1. CASE Next
    <2>1. PICK n \in Nodes :
            \/ ast_event_queue_and_cache(n) \/ Module(n) \/ redis_subscribe(n)
            \/ ast_event_cb(n) \/ redis_publish(n) \/ redis_subscription_cb(n)
            \/ crash(n)
      BY <1>1 DEF Next
    <2>2. Effects(n, o)
      BY ActionEffects
    <2> QED BY <2>1, <2>2 DEF Effects, Module, LocalStep
  <1>2. CASE UNCHANGED vars
    BY <1>2 DEF vars, nodeVars, history, LocalStep, Rests, SameQueues,
         SameDevice, SameRecord, KeepsFlags
  <1> QED BY <1>1, <1>2

-----------------------------------------------------------------------------
(* What a step can do to what n knows of o's device, and is about to be    *)
(* told of it: redis publishes a state of it to the subscribers,           *)
Posts(n, o) ==
  /\ Publishes(o) /\ rsub' = rsub /\ cache'[n][o] = cache[n][o]
  /\ chan'[n] = IF n \in rsub THEN Append(chan[n], Head(pub[o])) ELSE chan[n]

(* n handles a message,                                                    *)
Reads(n, o) ==
  /\ Rests(o) /\ rsub' = rsub
  /\ chan[n] # <<>> /\ chan'[n] = Tail(chan[n])
  /\ cache'[n][o] = IF Head(chan[n]).origin = o THEN Head(chan[n]).ver
                    ELSE cache[n][o]

(* a message about another device joins the channel,                       *)
Passes(n, o) ==
  /\ Rests(o) /\ rsub' = rsub /\ cache'[n][o] = cache[n][o]
  /\ \E m \in Msg : m.origin # o /\ chan'[n] = Append(chan[n], m)

(* n crashes,                                                              *)
Cut(n, o) ==
  /\ Rests(o) /\ cache'[n][o] = 0 /\ chan'[n] = <<>>
  /\ n \notin reached'[o] /\ crashes' # crashes

(* or nothing.                                                             *)
Still(n, o) ==
  /\ \/ Changes(o) \/ Loads(o) \/ Dumps(o) \/ Hears(o)
     \/ Learns(o) \/ Dies(o) \/ Rests(o)
  /\ cache'[n][o] = cache[n][o] /\ chan'[n] = chan[n]
  /\ n \in rsub => n \in rsub'

(* Every step does one of these things to every pair of servers.           *)
LEMMA PairSteps ==
  ASSUME Types, OnlyOwn, [Next]_vars, NEW n \in Nodes, NEW o \in Nodes, n # o
  PROVE  \/ Posts(n, o) \/ Reads(n, o) \/ Passes(n, o) \/ Cut(n, o)
         \/ Still(n, o)
  <1> DEFINE Goal == \/ Posts(n, o) \/ Reads(n, o) \/ Passes(n, o)
                     \/ Cut(n, o) \/ Still(n, o)
  <1>e. \A x \in Nodes : Effects(x, o)
    BY ActionEffects
  <1>1. ASSUME NEW x \in Nodes, ast_event_queue_and_cache(x) PROVE Goal
    <2>1. cache'[n][o] = cache[n][o] /\ chan' = chan /\ rsub' = rsub
      BY <1>1 DEF ast_event_queue_and_cache, Types
    <2> QED BY <1>e, <1>1, <2>1 DEF Effects, Still
  <1>2. ASSUME NEW x \in Nodes, Module(x) \/ ast_event_cb(x) PROVE Goal
    <2>1. cache' = cache /\ chan' = chan /\ rsub' = rsub
      BY <1>2 DEF Module, load_module, redis_subscribe_to_channels,
           redis_dump_ast_event_cache, ast_event_cb
    <2> QED BY <1>e, <1>2, <2>1 DEF Effects, Still, Module
  <1>3. ASSUME NEW x \in Nodes, redis_subscribe(x) PROVE Goal
    BY <1>e, <1>3 DEF Effects, Still, redis_subscribe, nodeVars
  <1>4. ASSUME NEW x \in Nodes, redis_publish(x) PROVE Goal
    <2>1. pub[x] \in Seq(Msg) /\ pub[x] # <<>>
      BY <1>4 DEF redis_publish, Types
    <2>2. Head(pub[x]) \in Msg /\ Head(pub[x]).origin = x
      <3>1. /\ Head(pub[x]) = pub[x][1] /\ pub[x][1] \in Msg
            /\ 1 \in 1..Len(pub[x])
        BY <2>1
      <3> QED BY <3>1 DEF OnlyOwn
    <2>3. /\ cache' = cache /\ rsub' = rsub
          /\ chan'[n] = IF n \in rsub THEN Append(chan[n], Head(pub[x]))
                        ELSE chan[n]
      BY <1>4 DEF redis_publish
    <2> QED BY <1>e, <1>4, <2>2, <2>3 DEF Effects, Posts, Passes, Still
  <1>5. ASSUME NEW x \in Nodes, redis_subscription_cb(x) PROVE Goal
    <2>1. chan[x] \in Seq(Msg) /\ chan[x] # <<>>
      BY <1>5 DEF redis_subscription_cb, Types
    <2>2. PICK m \in Msg : m = Head(chan[x])
      BY <2>1
    <2>3. /\ \/ cache' = cache /\ m.origin = x
             \/ /\ m.origin # x
                /\ cache' = [cache EXCEPT ![x][m.origin] = m.ver]
          /\ chan' = [chan EXCEPT ![x] = Tail(@)] /\ rsub' = rsub
      BY <1>5, <2>2 DEF redis_subscription_cb, FedBack
    <2>4. CASE x = n
      <3>1. Rests(o)
        BY <1>e, <1>5, <2>4 DEF Effects
      <3>2. chan'[n] = Tail(chan[n])
        BY <2>3, <2>4 DEF Types
      <3>3. cache'[n][o] = IF m.origin = o THEN m.ver ELSE cache[n][o]
        <4>1. CASE cache' = cache /\ m.origin = x
          BY <2>4, <4>1
        <4>2. CASE /\ m.origin # x
                   /\ cache' = [cache EXCEPT ![x][m.origin] = m.ver]
          BY <2>4, <4>2 DEF Types
        <4> QED BY <2>3, <4>1, <4>2
      <3> QED BY <2>1, <2>2, <2>3, <2>4, <3>1, <3>2, <3>3 DEF Reads
    <2>5. CASE x # n
      <3>1. chan'[n] = chan[n]
        BY <2>3, <2>5 DEF Types
      <3>2. cache'[n][o] = cache[n][o]
        <4>1. CASE cache' = cache
          BY <4>1
        <4>2. CASE cache' = [cache EXCEPT ![x][m.origin] = m.ver]
          BY <2>5, <4>2 DEF Types
        <4> QED BY <2>3, <4>1, <4>2
      <3> QED BY <1>e, <1>5, <2>3, <3>1, <3>2 DEF Effects, Still
    <2> QED BY <2>4, <2>5
  <1>6. ASSUME NEW x \in Nodes, crash(x) PROVE Goal
    <2>1. CASE x = n
      <3>1. /\ cache'[n][o] = 0 /\ chan'[n] = <<>> /\ n \notin reached'[o]
            /\ crashes' # crashes
        BY <1>6, <2>1 DEF crash, Types
      <3> QED BY <1>e, <1>6, <2>1, <3>1 DEF Effects, Cut
    <2>2. CASE x # n
      <3>1. /\ cache'[n][o] = cache[n][o] /\ chan'[n] = chan[n]
            /\ n \in rsub => n \in rsub'
        BY <1>6, <2>2 DEF crash, Types
      <3> QED BY <1>e, <1>6, <3>1 DEF Effects, Still
    <2> QED BY <2>1, <2>2
  <1>7. CASE UNCHANGED vars
    <2>1. Rests(o)
      BY <1>7 DEF vars, nodeVars, history, Rests, SameQueues, SameDevice,
           SameRecord, KeepsFlags
    <2> QED BY <1>7, <2>1 DEF vars, nodeVars, Still
  <1> QED
    BY <1>1, <1>2, <1>3, <1>4, <1>5, <1>6, <1>7 DEF Next
-----------------------------------------------------------------------------
(* m is the current state of o's device.                                   *)
Current(o, m) == m.origin = o /\ m.ver = version[o]

(* The event of that state is still in o's event queue.                    *)
InQueue(o) == \E i \in 1..Len(evq[o]) : Current(o, evq[o][i])

(* The last message of q has state v.                                      *)
LastIs(q, v) == q # <<>> /\ q[Len(q)].ver = v

(* An event of o's own device in its event queue has the event of the      *)
(* current state with it or behind it, and that one is there once.         *)
OwnInv(o) ==
  /\ \A i \in 1..Len(evq[o]) : evq[o][i].origin = o =>
       \E j \in i..Len(evq[o]) : Current(o, evq[o][j])
  /\ \A i, j \in 1..Len(evq[o]) :
        Current(o, evq[o][i]) /\ Current(o, evq[o][j]) => i = j

(* What load_module has done so far shows in the cache, the publisher and  *)
(* redis: nothing waits to be published before the dump, and between the   *)
(* dump and the subscription only what was dumped.  A current state that   *)
(* was sent to others by then was sent before a crash, which emptied the   *)
(* cache that the dump reads.                                              *)
LoadInv(o) ==
  /\ cache[o][o] \in {0, version[o]}
  /\ lastpub[o] <= version[o]
  /\ \A i \in 1..Len(pub[o]) : pub[o][i].origin = o
  /\ phase[o] \in {"down", "dump"} =>
       pub[o] = <<>> /\ (reached[o] = {} \/ cache[o][o] = 0)
  /\ phase[o] = "subscribe" /\ pub[o] # <<>> =>
       Len(pub[o]) = 1 /\ reached[o] = {} /\ lastpub[o] <= pub[o][1].ver

(* Nothing queued is newer than the device's state.                        *)
LEMMA NewestLast ==
  ASSUME IInv, NEW o \in Nodes
  PROVE  /\ \A i \in 1..Len(evq[o]) : 
              evq[o][i].origin = o => evq[o][i].ver <= version[o]
         /\ (\A i \in 1..Len(pub[o]) : pub[o][i].origin = o)
              => \A i \in 1..Len(pub[o]) : pub[o][i].ver <= version[o]
  BY DEF IInv, AllHad, Had

(* Events leave the queue at its head, so an older one goes first.         *)
LEMMA StepOwn ==
  ASSUME IInv, IInv', NEW o \in Nodes, LocalStep(o), OwnInv(o)
  PROVE  OwnInv(o)'
  <1>0. Types /\ Types'
    BY DEF IInv
  <1>t. /\ evq[o] \in Seq(Msg) /\ version[o] \in Nat
        /\ \A i \in 1..Len(evq[o]) : evq[o][i] \in Msg /\ evq[o][i].ver \in Nat
    BY <1>0, LocalTypes, SeqOfMsg
  <1>1. CASE Changes(o)
    <2> DEFINE e == [origin |-> o, ver |-> version[o] + 1]
    <2>1. /\ version'[o] = version[o] + 1 /\ evq'[o] = Append(evq[o], e)
          /\ e.origin = o /\ e.ver = version[o] + 1
      BY <1>1 DEF Changes
    <2> HIDE DEF e
    <2>2. /\ Len(evq'[o]) = Len(evq[o]) + 1 /\ evq'[o][Len(evq[o]) + 1] = e
          /\ \A i \in 1..Len(evq[o]) : evq'[o][i] = evq[o][i]
      BY <1>t, <2>1
    <2>3. \A i \in 1..Len(evq[o]) : ~ Current(o, evq[o][i])'
      BY <1>t, <2>1, <2>2, NewestLast DEF Current
    <2>4. Current(o, evq[o][Len(evq[o])])'
      BY <1>t, <2>1, <2>2 DEF Current
    <2> QED BY <1>t, <2>2, <2>3, <2>4 DEF OwnInv
  <1>2. CASE version'[o] = version[o] /\ evq'[o] = evq[o]
    BY <1>2 DEF OwnInv, Current
  <1>3. CASE Hears(o)
    <2>1. /\ version'[o] = version[o] /\ evq[o] # <<>>
          /\ evq'[o] = Tail(evq[o])
      BY <1>3 DEF Hears, SameDevice
    <2>2. /\ Len(evq'[o]) = Len(evq[o]) - 1
          /\ \A i \in 1..Len(evq'[o]) : evq'[o][i] = evq[o][i + 1]
          /\ Len(evq[o]) \in Nat
      BY <1>t, <2>1
    <2>3. ASSUME NEW i \in 1..Len(evq'[o]), evq'[o][i].origin = o
          PROVE  \E j \in i..Len(evq'[o]) : Current(o, evq[o][j])'
      <3>0. i + 1 \in 1..Len(evq[o]) /\ evq[o][i + 1].origin = o
        BY <2>2, <2>3
      <3>1. PICK j \in (i + 1)..Len(evq[o]) : Current(o, evq[o][j])
        BY <3>0 DEF OwnInv
      <3>2. j - 1 \in i..Len(evq'[o]) /\ evq'[o][j - 1] = evq[o][j]
        BY <2>2, <3>1
      <3> QED BY <2>1, <3>1, <3>2 DEF Current
    <2>4. ASSUME NEW i \in 1..Len(evq'[o]), NEW j \in 1..Len(evq'[o]),
                 Current(o, evq[o][i])', Current(o, evq[o][j])'
          PROVE  i = j
      <3>1. i + 1 \in 1..Len(evq[o]) /\ j + 1 \in 1..Len(evq[o])
        BY <2>2
      <3>2. Current(o, evq[o][i + 1]) /\ Current(o, evq[o][j + 1])
        BY <2>1, <2>2, <2>4 DEF Current
      <3>3. i + 1 = j + 1
        BY <3>1, <3>2 DEF OwnInv
      <3> QED BY <3>3
    <2> QED BY <2>3, <2>4 DEF OwnInv
  <1>4. CASE Learns(o)
    <2>1. PICK m \in Msg : m.origin # o /\ evq'[o] = Append(evq[o], m)
      BY <1>4 DEF Learns
    <2>2. /\ version'[o] = version[o]
          /\ Len(evq'[o]) = Len(evq[o]) + 1 /\ evq'[o][Len(evq[o]) + 1] = m
          /\ \A i \in 1..Len(evq[o]) : evq'[o][i] = evq[o][i]
      BY <1>t, <1>4, <2>1 DEF Learns, SameDevice
    <2>3. /\ \A i \in 1..Len(evq[o]) :
               Current(o, evq[o][i])' <=> Current(o, evq[o][i])
          /\ ~ Current(o, evq[o][Len(evq[o])])'
      BY <2>1, <2>2 DEF Current
    <2>4. \A i \in 1..Len(evq'[o]) :
            i \in 1..Len(evq[o]) \/ i = Len(evq[o]) + 1
      BY <1>t, <2>2
    <2>5. ASSUME NEW i \in 1..Len(evq'[o]), evq'[o][i].origin = o
          PROVE  \E j \in i..Len(evq'[o]) : Current(o, evq[o][j])'
      <3>1. i \in 1..Len(evq[o]) /\ evq[o][i].origin = o
        BY <2>1, <2>2, <2>4, <2>5
      <3>2. PICK j \in i..Len(evq[o]) : Current(o, evq[o][j])
        BY <3>1 DEF OwnInv
      <3>3. j \in 1..Len(evq[o]) /\ j \in i..Len(evq'[o])
        BY <1>t, <2>2, <3>1
      <3> QED BY <2>3, <3>2, <3>3
    <2>6. ASSUME NEW i \in 1..Len(evq'[o]), NEW j \in 1..Len(evq'[o]),
                 Current(o, evq[o][i])', Current(o, evq[o][j])'
          PROVE  i = j
      <3>1. i \in 1..Len(evq[o]) /\ j \in 1..Len(evq[o])
        BY <2>2, <2>3, <2>4, <2>6
      <3> QED BY <2>3, <2>6, <3>1 DEF OwnInv
    <2> QED BY <2>5, <2>6 DEF OwnInv
  <1>5. CASE evq'[o] = <<>>
    BY <1>5 DEF OwnInv
  <1> QED BY <1>1, <1>2, <1>3, <1>4, <1>5 DEF LocalStep, Loads, Dumps,
       Publishes, Rests, Dies, SameQueues, SameDevice

(* Each step of load_module, and of the callbacks beside it.               *)
LEMMA StepLoad ==
  ASSUME IInv, IInv', NEW o \in Nodes, LocalStep(o), LoadInv(o)
  PROVE  LoadInv(o)'
  <1>0. Types /\ Types'
    BY DEF IInv
  <1>t. /\ evq[o] \in Seq(Msg) /\ pub[o] \in Seq(Msg) /\ version[o] \in Nat
        /\ lastpub[o] \in Nat /\ Len(pub[o]) \in Nat /\ cache[o][o] \in Nat
        /\ phase[o] \in {"down", "dump", "subscribe", "up"}
        /\ \A i \in 1..Len(pub[o]) : pub[o][i].ver \in Nat
        /\ reached[o] \subseteq Nodes
    BY <1>0, LocalTypes, SeqOfMsg
  <1>u. \A i \in 1..Len(pub[o]) : pub[o][i].ver <= version[o]
    BY NewestLast DEF LoadInv
  <1>1. CASE Changes(o)
    <2>1. /\ version'[o] = version[o] + 1 /\ cache'[o][o] = version[o] + 1
          /\ pub'[o] = pub[o] /\ phase'[o] = phase[o]
          /\ lastpub'[o] = lastpub[o] /\ reached'[o] = {}
      BY <1>1 DEF Changes
    <2> QED BY <1>t, <2>1 DEF LoadInv
  <1>2. CASE Loads(o) \/ Rests(o) \/ Learns(o)
    BY <1>2, <1>t DEF LoadInv, Loads, Rests, Learns, SameQueues, SameDevice,
         SameRecord
  <1>3. CASE Dumps(o)
    <2>1. pub[o] = <<>> /\ (reached[o] = {} \/ cache[o][o] = 0)
      BY <1>3 DEF LoadInv, Dumps
    <2>2. CASE cache[o][o] = 0
      BY <1>3, <1>t, <2>1, <2>2 DEF LoadInv, Dumps, SameDevice, SameRecord
    <2>3. CASE cache[o][o] # 0
      <3> DEFINE e == [origin |-> o, ver |-> cache[o][o]]
      <3>1. e.origin = o /\ e.ver = version[o] /\ pub'[o] = Append(pub[o], e)
        BY <1>3, <2>3 DEF LoadInv, Dumps
      <3> HIDE DEF e
      <3>2. Len(pub'[o]) = 1 /\ pub'[o][1] = e
        BY <2>1, <3>1
      <3> QED BY <1>3, <1>t, <2>1, <3>1, <3>2
              DEF LoadInv, Dumps, SameDevice, SameRecord
    <2> QED BY <2>2, <2>3
  <1>4. CASE Hears(o)
    <2>1. CASE phase[o] = "up" /\ Head(evq[o]).origin = o
      <3>1. /\ Len(pub'[o]) = Len(pub[o]) + 1
            /\ pub'[o][Len(pub[o]) + 1] = Head(evq[o])
            /\ \A i \in 1..Len(pub[o]) : pub'[o][i] = pub[o][i]
        BY <1>4, <1>t, <2>1 DEF Hears
      <3> QED BY <1>4, <1>t, <2>1, <3>1
              DEF LoadInv, Hears, SameDevice, SameRecord
    <2>2. CASE ~ (phase[o] = "up" /\ Head(evq[o]).origin = o)
      BY <1>4, <1>t, <2>2 DEF LoadInv, Hears, SameDevice, SameRecord
    <2> QED BY <2>1, <2>2
  <1>5. CASE Publishes(o)
    <2>1. /\ Len(pub'[o]) = Len(pub[o]) - 1
          /\ \A i \in 1..Len(pub'[o]) : pub'[o][i] = pub[o][i + 1]
          /\ Head(pub[o]) = pub[o][1] /\ 1 \in 1..Len(pub[o])
          /\ Len(pub[o]) = 1 => pub'[o] = <<>>
      <3> DEFINE q == pub[o]
      <3>1. q \in Seq(Msg) /\ q # <<>> /\ pub'[o] = Tail(q)
        BY <1>5, <1>t DEF Publishes
      <3> HIDE DEF q
      <3>2. /\ Len(Tail(q)) = Len(q) - 1 /\ Head(q) = q[1]
            /\ \A i \in 1..Len(Tail(q)) : Tail(q)[i] = q[i + 1]
        BY <3>1
      <3>3. 1 \in 1..Len(q) /\ (Len(q) = 1 => Tail(q) = <<>>)
        BY <3>1
      <3> QED BY <3>1, <3>2, <3>3 DEF q
    <2>2. lastpub'[o] = pub[o][1].ver /\ lastpub'[o] <= version[o]
      BY <1>5, <1>t, <1>u, <2>1 DEF Publishes
    <2>3. phase[o] \notin {"down", "dump"}
      <3>1. pub[o] # <<>>
        BY <1>5 DEF Publishes
      <3> QED BY <3>1 DEF LoadInv
    <2>4. ASSUME NEW i \in 1..Len(pub'[o])
          PROVE  pub'[o][i].origin = o
      <3>1. i + 1 \in 1..Len(pub[o])
        BY <1>t, <2>1
      <3> QED BY <2>1, <3>1 DEF LoadInv
    <2>5. phase[o] = "subscribe" => pub'[o] = <<>>
      <3>1. pub[o] # <<>>
        BY <1>5 DEF Publishes
      <3> QED BY <3>1, <2>1 DEF LoadInv
    <2>6. /\ version'[o] = version[o] /\ cache'[o][o] = cache[o][o]
          /\ phase'[o] = phase[o]
      BY <1>5 DEF Publishes, SameDevice
    <2> QED BY <2>2, <2>3, <2>4, <2>5, <2>6 DEF LoadInv
  <1>6. CASE Dies(o)
    BY <1>6, <1>t DEF LoadInv, Dies, SameRecord
  <1> QED BY <1>1, <1>2, <1>3, <1>4, <1>5, <1>6 DEF LocalStep

(* Where the current state's event is before and after ast_event_cb.       *)
LEMMA HearsQueue ==
  ASSUME IInv, IInv', NEW o \in Nodes, OwnInv(o), OwnInv(o)', Hears(o)
  PROVE  /\ Head(evq[o]) \in Msg
         /\ Current(o, Head(evq[o])) => InQueue(o) /\ ~InQueue(o)'
         /\ ~Current(o, Head(evq[o])) /\ Head(evq[o]).origin = o
              => InQueue(o) /\ InQueue(o)'
         /\ Head(evq[o]).origin # o => (InQueue(o)' <=> InQueue(o))
  <1>0. Types
    BY DEF IInv
  <1>t. /\ evq[o] \in Seq(Msg) /\ Len(evq[o]) \in Nat
    BY <1>0, LocalTypes
  <1>1. /\ version'[o] = version[o] /\ evq[o] # <<>>
        /\ evq'[o] = Tail(evq[o])
    BY DEF Hears, SameDevice
  <1>2. /\ Len(evq'[o]) = Len(evq[o]) - 1
        /\ \A i \in 1..Len(evq'[o]) : evq'[o][i] = evq[o][i + 1]
        /\ Head(evq[o]) = evq[o][1] /\ evq[o][1] \in Msg
        /\ 1 \in 1..Len(evq[o])
    BY <1>t, <1>1
  <1>3. \A i \in 2..Len(evq[o]) :
          i - 1 \in 1..Len(evq'[o]) /\ evq'[o][i - 1] = evq[o][i]
    BY <1>t, <1>2
  <1>4. InQueue(o)' <=> \E i \in 2..Len(evq[o]) : Current(o, evq[o][i])
    <2>1. ASSUME NEW i \in 1..Len(evq'[o]), Current(o, evq[o][i])'
          PROVE  \E j \in 2..Len(evq[o]) : Current(o, evq[o][j])
      <3>1. i + 1 \in 2..Len(evq[o]) /\ Current(o, evq[o][i + 1])
        BY <1>t, <1>1, <1>2, <2>1 DEF Current
      <3> QED BY <3>1
    <2>2. ASSUME NEW i \in 2..Len(evq[o]), Current(o, evq[o][i])
          PROVE  InQueue(o)'
      <3>1. i - 1 \in 1..Len(evq'[o]) /\ Current(o, evq[o][i - 1])'
        BY <1>1, <1>3, <2>2 DEF Current
      <3> QED BY <3>1 DEF InQueue
    <2> QED BY <2>1, <2>2 DEF InQueue
  <1>5. ASSUME Current(o, Head(evq[o])) PROVE InQueue(o) /\ ~InQueue(o)'
    <2>1. \A i \in 2..Len(evq[o]) : i # 1 /\ i \in 1..Len(evq[o])
      BY <1>t
    <2>2. \A i \in 2..Len(evq[o]) : ~Current(o, evq[o][i])
      BY <1>2, <1>5, <2>1 DEF OwnInv
    <2> QED BY <1>2, <1>4, <1>5, <2>2 DEF InQueue
  <1>6. ASSUME ~Current(o, Head(evq[o])), Head(evq[o]).origin = o
        PROVE  InQueue(o) /\ InQueue(o)'
    <2>1. PICK j \in 1..Len(evq[o]) : Current(o, evq[o][j])
      BY <1>2, <1>6 DEF OwnInv
    <2>2. j # 1 /\ j \in 2..Len(evq[o])
      BY <1>t, <1>2, <1>6, <2>1
    <2> QED BY <1>4, <2>1, <2>2 DEF InQueue
  <1>7. ASSUME Head(evq[o]).origin # o PROVE InQueue(o)' <=> InQueue(o)
    <2>1. ~Current(o, evq[o][1])
      BY <1>2, <1>7 DEF Current
    <2>2. \A j \in 1..Len(evq[o]) : j = 1 \/ j \in 2..Len(evq[o])
      BY <1>t
    <2>3. \A j \in 2..Len(evq[o]) : j \in 1..Len(evq[o])
      BY <1>t
    <2> QED BY <1>4, <2>1, <2>2, <2>3 DEF InQueue
  <1> QED BY <1>2, <1>5, <1>6, <1>7

(* A message from another server leaves the current state's event alone,   *)
LEMMA LearnsQueue ==
  ASSUME IInv, NEW o \in Nodes, Learns(o)
  PROVE  InQueue(o)' <=> InQueue(o)
  <1>t. /\ evq[o] \in Seq(Msg) /\ Len(evq[o]) \in Nat
    BY LocalTypes DEF IInv
  <1>1. PICK m \in Msg : m.origin # o /\ evq'[o] = Append(evq[o], m)
    BY DEF Learns
  <1>2. /\ version'[o] = version[o]
        /\ Len(evq'[o]) = Len(evq[o]) + 1 /\ evq'[o][Len(evq[o]) + 1] = m
        /\ \A i \in 1..Len(evq[o]) : evq'[o][i] = evq[o][i]
    BY <1>t, <1>1 DEF Learns, SameDevice
  <1>3. \A i \in 1..Len(evq'[o]) : i \in 1..Len(evq[o]) \/ i = Len(evq[o]) + 1
    BY <1>t, <1>2
  <1>4. \A i \in 1..Len(evq[o]) : i \in 1..Len(evq'[o])
    BY <1>t, <1>2
  <1> QED BY <1>1, <1>2, <1>3, <1>4 DEF InQueue, Current

(* as does a step that leaves the queue alone,                             *)
LEMMA SameQueue ==
  ASSUME NEW o \in Nodes, evq'[o] = evq[o], version'[o] = version[o]
  PROVE  InQueue(o)' <=> InQueue(o)
  BY DEF InQueue, Current

(* and a change of the device puts it there.                               *)
LEMMA ChangesQueue ==
  ASSUME IInv, NEW o \in Nodes, Changes(o) PROVE InQueue(o)'
  <1>t. /\ evq[o] \in Seq(Msg) /\ Len(evq[o]) \in Nat
    BY LocalTypes DEF IInv
  <1> DEFINE e == [origin |-> o, ver |-> version[o] + 1]
  <1>1. /\ version'[o] = version[o] + 1 /\ evq'[o] = Append(evq[o], e)
        /\ e.origin = o /\ e.ver = version[o] + 1
    BY DEF Changes
  <1> HIDE DEF e
  <1>2. Len(evq[o]) + 1 \in 1..Len(evq'[o]) /\ evq'[o][Len(evq[o]) + 1] = e
    BY <1>t, <1>1
  <1> QED BY <1>1, <1>2 DEF InQueue, Current

(* The last message of a queue after an Append and after a Tail.           *)
LEMMA AppendLast ==
  ASSUME NEW q \in Seq(Msg), NEW e \in Msg
  PROVE  LastIs(Append(q, e), e.ver)
  BY DEF LastIs

LEMMA TailLast ==
  ASSUME NEW q \in Seq(Msg), q # <<>>, NEW v, LastIs(q, v)
  PROVE  LastIs(Tail(q), v) \/ (Tail(q) = <<>> /\ Head(q).ver = v)
  BY DEF LastIs
-----------------------------------------------------------------------------
(* A loaded server's current state is missed, or its event is still        *)
(* queued, or it is the last message the publisher holds, or the last that *)
(* redis got.                                                              *)
LostInv(o) ==
  phase[o] \in {"subscribe", "up"} /\ cache[o][o] # 0 =>
    \/ missed[o] \/ InQueue(o) \/ LastIs(pub[o], version[o])
    \/ pub[o] = <<>> /\ lastpub[o] = version[o]

(* State v is in q.                                                        *)
Once(q, v) == \E i \in 1..Len(q) : q[i].ver = v

(* Where the current state is to be published and something older is to be *)
(* published after it, the current state's event is still to come.         *)
AgainInv(o) ==
  Once(pub[o], version[o]) =>
    \/ phase[o] = "up" /\ InQueue(o)
    \/ LastIs(pub[o], version[o])

(* The hard case is an event that is dispatched between the dump and the   *)
(* subscription: either it is missed, or what was dumped is as new.        *)
LEMMA StepLost ==
  ASSUME IInv, IInv', NEW o \in Nodes, LocalStep(o), OwnInv(o), OwnInv(o)',
         LoadInv(o), LoadInv(o)', LostInv(o)
  PROVE  LostInv(o)'
  <1>0. Types /\ Types'
    BY DEF IInv
  <1>t. /\ evq[o] \in Seq(Msg) /\ pub[o] \in Seq(Msg) /\ version[o] \in Nat
        /\ lastpub[o] \in Nat /\ Len(pub[o]) \in Nat /\ cache[o][o] \in Nat
        /\ phase[o] \in {"down", "dump", "subscribe", "up"}
        /\ \A i \in 1..Len(pub[o]) : pub[o][i].ver \in Nat
    BY <1>0, LocalTypes, SeqOfMsg
  <1>u. \A i \in 1..Len(pub[o]) : pub[o][i].ver <= version[o]
    BY NewestLast DEF LoadInv
  <1>1. CASE Changes(o)
    BY <1>1, ChangesQueue DEF LostInv
  <1>2. CASE Loads(o) \/ Rests(o)
    <2>1. /\ evq'[o] = evq[o] /\ pub'[o] = pub[o] /\ version'[o] = version[o]
          /\ cache'[o][o] = cache[o][o] /\ lastpub'[o] = lastpub[o]
          /\ missed[o] => missed'[o]
      BY <1>2
      DEF Loads, Rests, SameQueues, SameDevice, SameRecord, KeepsFlags
    <2>2. phase'[o] \in {"subscribe", "up"} => phase[o] \in {"subscribe", "up"}
      BY <1>2 DEF Loads, Rests
    <2> QED BY <2>1, <2>2, SameQueue DEF LostInv
  <1>3. CASE Learns(o)
    <2>1. /\ pub'[o] = pub[o] /\ version'[o] = version[o]
          /\ cache'[o][o] = cache[o][o] /\ lastpub'[o] = lastpub[o]
          /\ phase'[o] = phase[o] /\ (missed[o] => missed'[o])
      BY <1>3 DEF Learns, SameDevice, SameRecord, KeepsFlags
    <2> QED BY <1>3, <2>1, LearnsQueue DEF LostInv
  <1>4. CASE Dumps(o)
    <2>1. CASE cache[o][o] = 0
      BY <1>4, <2>1 DEF LostInv, Dumps, SameDevice
    <2>2. CASE cache[o][o] # 0
      <3>1. [origin |-> o, ver |-> cache[o][o]] \in Msg
        BY <1>0, <2>2 DEF Types, Msg, Versions
      <3>2. LastIs(pub'[o], version[o])
        BY <1>4, <1>t, <2>2, <3>1, AppendLast DEF Dumps, LoadInv
      <3> QED BY <1>4, <3>2 DEF LostInv, Dumps, SameDevice
    <2> QED BY <2>1, <2>2
  <1>5. CASE Hears(o)
    <2> SUFFICES ASSUME phase[o] \in {"subscribe", "up"}, cache[o][o] # 0,
                        ~missed'[o]
                 PROVE  \/ InQueue(o)' \/ LastIs(pub'[o], version[o])
                        \/ pub'[o] = <<>> /\ lastpub[o] = version[o]
      BY <1>5 DEF LostInv, Hears, SameDevice, SameRecord
    <2> DEFINE e == Head(evq[o])
    <2>0. /\ ~missed[o] /\ e \in Msg
          /\ pub'[o] = IF phase[o] = "up" /\ e.origin = o
                         THEN Append(pub[o], e) ELSE pub[o]
          /\ \/ phase[o] # "subscribe" \/ e.origin # o
             \/ e.ver <= lastpub[o]
             \/ \E i \in 1..Len(pub[o]) : e.ver <= pub[o][i].ver
      BY <1>5, HearsQueue DEF KeepsFlags, Hears
    <2>q. /\ Current(o, e) => InQueue(o) /\ ~InQueue(o)'
          /\ ~Current(o, e) /\ e.origin = o => InQueue(o)'
          /\ e.origin # o => (InQueue(o)' <=> InQueue(o))
      BY <1>5, HearsQueue
    <2> HIDE DEF e
    <2>1. CASE Current(o, e) /\ phase[o] = "up"
      <3>1. pub'[o] = Append(pub[o], e) /\ e.ver = version[o]
        BY <2>0, <2>1 DEF Current
      <3> QED BY <1>t, <2>0, <3>1, AppendLast
    <2>2. CASE Current(o, e) /\ phase[o] = "subscribe"
      <3>0. pub'[o] = pub[o] /\ e.origin = o /\ e.ver = version[o]
        BY <2>0, <2>2 DEF Current
      <3>1. CASE pub[o] = <<>>
        <4>1. lastpub[o] = version[o]
          BY <1>t, <2>0, <2>2, <3>0, <3>1 DEF LoadInv
        <4> QED BY <3>0, <3>1, <4>1
      <3>2. CASE pub[o] # <<>>
        <4>1. Len(pub[o]) = 1 /\ lastpub[o] <= pub[o][1].ver
          BY <2>2, <3>2 DEF LoadInv
        <4>2. pub[o][1].ver = version[o]
          BY <1>t, <1>u, <2>0, <2>2, <3>0, <4>1 DEF LoadInv
        <4> QED BY <3>0, <3>2, <4>1, <4>2 DEF LastIs
      <3> QED BY <3>1, <3>2
    <2>3. CASE ~Current(o, e)
      BY <2>0, <2>q, <2>3 DEF LostInv
    <2> QED BY <2>1, <2>2, <2>3
  <1>6. CASE Publishes(o)
    <2>1. /\ InQueue(o)' <=> InQueue(o)
          /\ pub[o] # <<>> /\ pub'[o] = Tail(pub[o])
          /\ version'[o] = version[o] /\ cache'[o][o] = cache[o][o]
          /\ phase'[o] = phase[o] /\ lastpub'[o] = Head(pub[o]).ver
          /\ missed[o] => missed'[o]
      BY <1>6, SameQueue DEF Publishes, SameDevice, KeepsFlags
    <2> QED BY <1>t, <2>1, TailLast DEF LostInv
  <1>7. CASE Dies(o)
    BY <1>7 DEF Dies, LostInv
  <1> QED BY <1>1, <1>2, <1>3, <1>4, <1>5, <1>6, <1>7 DEF LocalStep

(* Once, after an Append and after a Tail.                                 *)
LEMMA AppendOnce ==
  ASSUME NEW q \in Seq(Msg), NEW e \in Msg, NEW v, Once(Append(q, e), v)
  PROVE  Once(q, v) \/ e.ver = v
  BY DEF Once

LEMMA TailOnce ==
  ASSUME NEW q \in Seq(Msg), q # <<>>, NEW v, Once(Tail(q), v)
  PROVE  Once(q, v)
  BY DEF Once

(* An older event is appended only while the current one is behind it.     *)
LEMMA StepAgain ==
  ASSUME IInv, IInv', NEW o \in Nodes, LocalStep(o), OwnInv(o), OwnInv(o)',
         LoadInv(o), LoadInv(o)', AgainInv(o)
  PROVE  AgainInv(o)'
  <1>0. Types /\ Types'
    BY DEF IInv
  <1>t. /\ evq[o] \in Seq(Msg) /\ pub[o] \in Seq(Msg) /\ version[o] \in Nat
        /\ Len(pub[o]) \in Nat
        /\ phase[o] \in {"down", "dump", "subscribe", "up"}
        /\ \A i \in 1..Len(pub[o]) : pub[o][i].ver \in Nat
    BY <1>0, LocalTypes, SeqOfMsg
  <1>u. \A i \in 1..Len(pub[o]) : pub[o][i].ver <= version[o]
    BY NewestLast DEF LoadInv
  <1>1. CASE Changes(o)
    <2>1. ~Once(pub'[o], version'[o])
      BY <1>1, <1>t, <1>u DEF Changes, Once
    <2> QED BY <2>1 DEF AgainInv
  <1>2. CASE Loads(o) \/ Rests(o)
    <2>1. evq'[o] = evq[o] /\ pub'[o] = pub[o] /\ version'[o] = version[o]
      BY <1>2 DEF Loads, Rests, SameQueues, SameDevice
    <2>2. phase[o] = "up" => phase'[o] = "up"
      BY <1>2 DEF Loads, Rests
    <2> QED BY <2>1, <2>2, SameQueue DEF AgainInv
  <1>3. CASE Learns(o)
    BY <1>3, LearnsQueue DEF AgainInv, Learns, SameDevice
  <1>4. CASE Dumps(o)
    <2>1. CASE cache[o][o] = 0
      BY <1>4, <2>1 DEF LoadInv, AgainInv, Dumps, Once
    <2>2. CASE cache[o][o] # 0
      <3>1. [origin |-> o, ver |-> cache[o][o]] \in Msg
        BY <1>0, <2>2 DEF Types, Msg, Versions
      <3>2. LastIs(pub'[o], version[o])
        BY <1>4, <1>t, <2>2, <3>1, AppendLast DEF Dumps, LoadInv
      <3> QED BY <1>4, <3>2 DEF AgainInv, Dumps, SameDevice
    <2> QED BY <2>1, <2>2
  <1>5. CASE Hears(o)
    <2> DEFINE e == Head(evq[o])
    <2>0. /\ e \in Msg /\ phase'[o] = phase[o] /\ version'[o] = version[o]
          /\ pub'[o] = IF phase[o] = "up" /\ e.origin = o
                         THEN Append(pub[o], e) ELSE pub[o]
      BY <1>5, HearsQueue DEF Hears, SameDevice
    <2>q. /\ Current(o, e) => InQueue(o) /\ ~InQueue(o)'
          /\ ~Current(o, e) /\ e.origin = o => InQueue(o)'
          /\ e.origin # o => (InQueue(o)' <=> InQueue(o))
      BY <1>5, HearsQueue
    <2> HIDE DEF e
    <2>1. CASE phase[o] = "up" /\ e.origin = o
      BY <1>t, <2>0, <2>1, <2>q, AppendLast DEF AgainInv, Current
    <2>2. CASE ~(phase[o] = "up" /\ e.origin = o)
      BY <2>0, <2>2, <2>q DEF AgainInv
    <2> QED BY <2>1, <2>2
  <1>6. CASE Publishes(o)
    <2>1. /\ InQueue(o)' <=> InQueue(o)
          /\ pub[o] # <<>> /\ pub'[o] = Tail(pub[o])
          /\ version'[o] = version[o] /\ phase'[o] = phase[o]
      BY <1>6, SameQueue DEF Publishes, SameDevice
    <2>2. Once(pub'[o], version[o]) => Once(pub[o], version[o])
      BY <1>t, <2>1, TailOnce
    <2>3. ~Once(<<>>, version[o])
      BY DEF Once
    <2> QED BY <1>t, <2>1, <2>2, <2>3, TailLast DEF AgainInv
  <1>7. CASE Dies(o)
    BY <1>7 DEF Dies, AgainInv, Once
  <1> QED BY <1>1, <1>2, <1>3, <1>4, <1>5, <1>6, <1>7 DEF LocalStep
-----------------------------------------------------------------------------
(* State v is in q more than once, and more than twice.                    *)
Twice(q, v) == \E i, j \in 1..Len(q) : i < j /\ q[i].ver = v /\ q[j].ver = v

Thrice(q, v) == \E i, j, k \in 1..Len(q) :
                  /\ i < j /\ j < k
                  /\ q[i].ver = v /\ q[j].ver = v /\ q[k].ver = v

(* How often the current state was published, and will be: for its event,  *)
(* and for the dump that is still to come.                                 *)
Due(o) == sent[o] + (IF InQueue(o) THEN 1 ELSE 0)
            + (IF phase[o] \in {"down", "dump"} /\ cache[o][o] # 0
                 THEN 1 ELSE 0)

(* Each occurrence in the publisher uses up one of the two.                *)
StormInv(o) == /\ Due(o) <= 2
               /\ Once(pub[o], version[o]) => Due(o) <= 1
               /\ Twice(pub[o], version[o]) => Due(o) <= 0
               /\ ~Thrice(pub[o], version[o])

(* Twice and Thrice, after an Append and after a Tail.                     *)
LEMMA AppendTimes ==
  ASSUME NEW q \in Seq(Msg), NEW e \in Msg, NEW v
  PROVE  /\ Twice(Append(q, e), v) => \/ Twice(q, v)
                                      \/ Once(q, v) /\ e.ver = v
         /\ Thrice(Append(q, e), v) => \/ Thrice(q, v)
                                       \/ Twice(q, v) /\ e.ver = v
  <1> DEFINE r == Append(q, e)
  <1>1. /\ Len(q) \in Nat /\ Len(r) = Len(q) + 1 /\ r[Len(q) + 1] = e
        /\ \A i \in 1..Len(q) : r[i] = q[i]
    OBVIOUS
  <1> HIDE DEF r
  <1>2. Twice(r, v) => Twice(q, v) \/ (Once(q, v) /\ e.ver = v)
    BY <1>1 DEF Twice, Once
  <1>3. Thrice(r, v) => Thrice(q, v) \/ (Twice(q, v) /\ e.ver = v)
    <2> SUFFICES ASSUME NEW i \in 1..Len(r), NEW j \in 1..Len(r),
                        NEW k \in 1..Len(r), i < j, j < k,
                        r[i].ver = v, r[j].ver = v, r[k].ver = v
                 PROVE  Thrice(q, v) \/ (Twice(q, v) /\ e.ver = v)
      BY DEF Thrice
    <2>1. /\ i \in 1..Len(q) /\ j \in 1..Len(q)
          /\ q[i].ver = v /\ q[j].ver = v
      BY <1>1
    <2>2. \/ k \in 1..Len(q) /\ q[k].ver = v
          \/ e.ver = v
      BY <1>1
    <2> QED BY <2>1, <2>2 DEF Twice, Thrice
  <1> QED BY <1>2, <1>3 DEF r

LEMMA TailTimes ==
  ASSUME NEW q \in Seq(Msg), q # <<>>, NEW v
  PROVE  /\ Once(Tail(q), v) => Once(q, v)
         /\ Twice(Tail(q), v) => Twice(q, v)
         /\ Thrice(Tail(q), v) => Thrice(q, v)
         /\ Head(q).ver = v => /\ Once(q, v)
                               /\ Once(Tail(q), v) => Twice(q, v)
                               /\ Twice(Tail(q), v) => Thrice(q, v)
  <1> DEFINE r == Tail(q)
  <1>1. /\ Len(q) \in Nat /\ Len(r) = Len(q) - 1 /\ Head(q) = q[1]
        /\ 1 \in 1..Len(q)
        /\ \A i \in 1..Len(r) : /\ r[i] = q[i + 1] /\ i + 1 \in 1..Len(q)
                                /\ 1 < i + 1
    OBVIOUS
  <1> HIDE DEF r
  <1>2. Once(r, v) => Once(q, v)
    BY <1>1 DEF Once
  <1>3. Head(q).ver = v => Once(q, v) /\ (Once(r, v) => Twice(q, v))
    BY <1>1 DEF Once, Twice
  <1>4. ASSUME NEW i \in 1..Len(r), NEW j \in 1..Len(r), i < j,
               r[i].ver = v, r[j].ver = v
        PROVE  /\ Twice(q, v)
               /\ Head(q).ver = v => Thrice(q, v)
    <2>1. /\ i + 1 \in 1..Len(q) /\ j + 1 \in 1..Len(q) /\ i + 1 < j + 1
          /\ 1 < i + 1 /\ q[i + 1].ver = v /\ q[j + 1].ver = v
      BY <1>1, <1>4
    <2> QED BY <1>1, <2>1 DEF Twice, Thrice
  <1>5. Thrice(r, v) => Thrice(q, v)
    <2> SUFFICES ASSUME NEW i \in 1..Len(r), NEW j \in 1..Len(r),
                        NEW k \in 1..Len(r), i < j, j < k,
                        r[i].ver = v, r[j].ver = v, r[k].ver = v
                 PROVE  Thrice(q, v)
      BY DEF Thrice
    <2>1. /\ i + 1 \in 1..Len(q) /\ j + 1 \in 1..Len(q) /\ k + 1 \in 1..Len(q)
          /\ i + 1 < j + 1 /\ j + 1 < k + 1
          /\ q[i + 1].ver = v /\ q[j + 1].ver = v /\ q[k + 1].ver = v
      BY <1>1
    <2> QED BY <2>1 DEF Thrice
  <1> QED BY <1>2, <1>3, <1>4, <1>5 DEF r, Twice

(* A dump and an ast_event_cb move one from Due to the publisher, and a    *)
(* PUBLISH moves it back.                                                  *)
LEMMA StepStorm ==
  ASSUME IInv, IInv', NEW o \in Nodes, LocalStep(o), OwnInv(o), OwnInv(o)',
         LoadInv(o), StormInv(o)
  PROVE  StormInv(o)'
  <1>0. Types /\ Types'
    BY DEF IInv
  <1>t. /\ evq[o] \in Seq(Msg) /\ pub[o] \in Seq(Msg) /\ version[o] \in Nat
        /\ Len(pub[o]) \in Nat /\ sent[o] \in Nat
        /\ phase[o] \in {"down", "dump", "subscribe", "up"}
        /\ \A i \in 1..Len(pub[o]) : pub[o][i].ver \in Nat
    BY <1>0, LocalTypes, SeqOfMsg
  <1>u. \A i \in 1..Len(pub[o]) : pub[o][i].ver <= version[o]
    BY NewestLast DEF LoadInv
  <1>d. Due(o) \in Nat
    BY <1>t DEF Due
  <1>1. CASE Changes(o)
    <2>1. \A i \in 1..Len(pub'[o]) : pub'[o][i].ver # version'[o]
      <3>1. pub'[o] = pub[o] /\ version'[o] = version[o] + 1
        BY <1>1 DEF Changes
      <3> QED BY <1>t, <1>u, <3>1
    <2>2. Due(o)' <= 2
      <3>1. sent'[o] = 0 /\ InQueue(o)'
        BY <1>1, ChangesQueue DEF Changes
      <3> QED BY <3>1 DEF Due
    <2> QED BY <2>1, <2>2 DEF StormInv, Once, Twice, Thrice
  <1>2. CASE Loads(o) \/ Rests(o) \/ Learns(o)
    <2>1. /\ pub'[o] = pub[o] /\ version'[o] = version[o]
          /\ cache'[o][o] = cache[o][o] /\ sent'[o] = sent[o]
      BY <1>2 DEF Loads, Rests, Learns, SameQueues, SameDevice, SameRecord
    <2>2. phase'[o] \in {"down", "dump"} <=> phase[o] \in {"down", "dump"}
      BY <1>2 DEF Loads, Rests, Learns
    <2>3. InQueue(o)' <=> InQueue(o)
      BY <1>2, SameQueue, LearnsQueue
      DEF Loads, Rests, SameQueues, SameDevice
    <2>4. Due(o)' = Due(o)
      BY <2>1, <2>2, <2>3 DEF Due
    <2> QED BY <2>1, <2>4 DEF StormInv
  <1>3. CASE Dumps(o)
    <2>0. /\ pub[o] = <<>> /\ version'[o] = version[o]
          /\ cache'[o][o] = cache[o][o] /\ sent'[o] = sent[o]
          /\ InQueue(o)' <=> InQueue(o)
          /\ phase[o] = "dump" /\ phase'[o] = "subscribe"
      BY <1>3, SameQueue DEF Dumps, LoadInv, SameDevice, SameRecord
    <2>1. CASE cache[o][o] = 0
      <3>1. Due(o)' = Due(o) /\ pub'[o] = pub[o]
        BY <1>3, <1>t, <2>0, <2>1 DEF Due, Dumps
      <3> QED BY <2>0, <3>1 DEF StormInv
    <2>2. CASE cache[o][o] # 0
      <3>1. Due(o)' = Due(o) - 1
        BY <1>t, <2>0, <2>2 DEF Due
      <3>2. Len(pub'[o]) = 1
        BY <1>3, <2>0, <2>2 DEF Dumps
      <3>3. ~Twice(pub'[o], version'[o]) /\ ~Thrice(pub'[o], version'[o])
        BY <3>2 DEF Twice, Thrice
      <3> QED BY <1>d, <3>1, <3>3 DEF StormInv
    <2> QED BY <2>1, <2>2
  <1>4. CASE Hears(o)
    <2> DEFINE e == Head(evq[o])
    <2>0. /\ e \in Msg /\ phase'[o] = phase[o] /\ version'[o] = version[o]
          /\ cache'[o][o] = cache[o][o] /\ sent'[o] = sent[o]
          /\ pub'[o] = IF phase[o] = "up" /\ e.origin = o
                         THEN Append(pub[o], e) ELSE pub[o]
      BY <1>4, HearsQueue DEF Hears, SameDevice, SameRecord
    <2>q. /\ Current(o, e) => InQueue(o) /\ ~InQueue(o)'
          /\ ~Current(o, e) /\ e.origin = o => InQueue(o) /\ InQueue(o)'
          /\ e.origin # o => (InQueue(o)' <=> InQueue(o))
      BY <1>4, HearsQueue
    <2> HIDE DEF e
    <2>1. CASE Current(o, e)
      <3>1. Due(o)' = Due(o) - 1
        BY <1>t, <2>0, <2>1, <2>q DEF Due
      <3>2. /\ Twice(pub'[o], version[o])
                 => Twice(pub[o], version[o]) \/ Once(pub[o], version[o])
            /\ Thrice(pub'[o], version[o])
                 => Thrice(pub[o], version[o]) \/ Twice(pub[o], version[o])
        BY <1>t, <2>0, AppendTimes
      <3>3. Due(o)' \in Nat
        BY <1>0, LocalTypes, <2>0, <1>t DEF Due
      <3> QED BY <1>d, <2>0, <3>1, <3>2, <3>3 DEF StormInv
    <2>2. CASE ~Current(o, e)
      <3>1. Due(o)' = Due(o)
        BY <1>t, <2>0, <2>2, <2>q DEF Due
      <3>2. \/ pub'[o] = pub[o]
            \/ pub'[o] = Append(pub[o], e) /\ e.ver # version[o]
        BY <2>0, <2>2 DEF Current
      <3>3. /\ Once(pub'[o], version[o]) => Once(pub[o], version[o])
            /\ Twice(pub'[o], version[o]) => Twice(pub[o], version[o])
            /\ Thrice(pub'[o], version[o]) => Thrice(pub[o], version[o])
        BY <1>t, <2>0, <3>2, AppendTimes, AppendOnce
      <3> QED BY <1>d, <2>0, <3>1, <3>3 DEF StormInv
    <2> QED BY <2>1, <2>2
  <1>5. CASE Publishes(o)
    <2>0. /\ InQueue(o)' <=> InQueue(o)
          /\ pub[o] # <<>> /\ pub'[o] = Tail(pub[o])
          /\ version'[o] = version[o] /\ phase'[o] = phase[o]
          /\ cache'[o][o] = cache[o][o]
          /\ sent'[o] = IF Head(pub[o]).ver = version[o]
                          THEN sent[o] + 1 ELSE sent[o]
      BY <1>5, SameQueue DEF Publishes, SameDevice
    <2>1. CASE Head(pub[o]).ver = version[o]
      <3>1. Due(o)' = Due(o) + 1
        BY <1>t, <2>0, <2>1 DEF Due
      <3>2. /\ Once(pub[o], version[o])
            /\ Once(pub'[o], version[o]) => Twice(pub[o], version[o])
            /\ Twice(pub'[o], version[o]) => Thrice(pub[o], version[o])
            /\ Thrice(pub'[o], version[o]) => Thrice(pub[o], version[o])
        BY <1>t, <2>0, <2>1, TailTimes
      <3> QED BY <1>d, <2>0, <3>1, <3>2 DEF StormInv
    <2>2. CASE Head(pub[o]).ver # version[o]
      <3>1. Due(o)' = Due(o)
        BY <1>t, <2>0, <2>2 DEF Due
      <3>2. /\ Once(pub'[o], version[o]) => Once(pub[o], version[o])
            /\ Twice(pub'[o], version[o]) => Twice(pub[o], version[o])
            /\ Thrice(pub'[o], version[o]) => Thrice(pub[o], version[o])
        BY <1>t, <2>0, TailTimes
      <3> QED BY <1>d, <2>0, <3>1, <3>2 DEF StormInv
    <2> QED BY <2>1, <2>2
  <1>6. CASE Dies(o)
    <2>1. Due(o)' <= Due(o) /\ pub'[o] = <<>> /\ Due(o)' \in Nat
      BY <1>6, <1>t DEF Dies, Due, SameRecord, InQueue
    <2> QED BY <1>d, <2>1 DEF StormInv, Once, Twice, Thrice
  <1> QED BY <1>1, <1>2, <1>3, <1>4, <1>5, <1>6 DEF LocalStep
-----------------------------------------------------------------------------
(* The states of o's device in q: none is older than b, none is newer, and *)
(* they are in the order in which they occurred.                           *)
From(q, o, b) == \A i \in 1..Len(q) : q[i].origin = o => b <= q[i].ver
UpTo(q, o, b) == \A i \in 1..Len(q) : q[i].origin = o => q[i].ver <= b
Ordered(q, o) == \A i, j \in 1..Len(q) :
                   i <= j /\ q[i].origin = o /\ q[j].origin = o
                     => q[i].ver <= q[j].ver

(* From, UpTo and Ordered, after an Append and after a Tail.               *)
LEMMA AppendOrder ==
  ASSUME NEW q \in Seq(Msg), NEW e \in Msg, NEW o, NEW b \in Nat
  PROVE  /\ From(q, o, b) /\ (e.origin = o => b <= e.ver)
              => From(Append(q, e), o, b)
         /\ UpTo(q, o, b) /\ (e.origin = o => e.ver <= b)
              => UpTo(Append(q, e), o, b)
         /\ Ordered(q, o) /\ (e.origin = o => UpTo(q, o, e.ver))
              => Ordered(Append(q, e), o)
  <1> DEFINE r == Append(q, e)
  <1>1. /\ Len(q) \in Nat /\ Len(r) = Len(q) + 1 /\ r[Len(q) + 1] = e
        /\ \A i \in 1..Len(q) : r[i] = q[i]
        /\ \A i \in 1..Len(r) : i \in 1..Len(q) \/ i = Len(q) + 1
    OBVIOUS
  <1>2. e.ver \in Nat
    BY MsgType
  <1> HIDE DEF r
  <1>3. From(q, o, b) /\ (e.origin = o => b <= e.ver) => From(r, o, b)
    BY <1>1 DEF From
  <1>4. UpTo(q, o, b) /\ (e.origin = o => e.ver <= b) => UpTo(r, o, b)
    BY <1>1 DEF UpTo
  <1>5. ASSUME Ordered(q, o), e.origin = o => UpTo(q, o, e.ver),
               NEW i \in 1..Len(r), NEW j \in 1..Len(r), i <= j,
               r[i].origin = o, r[j].origin = o
        PROVE  r[i].ver <= r[j].ver
    <2>1. CASE j \in 1..Len(q)
      <3>1. i \in 1..Len(q)
        BY <1>1, <1>5, <2>1
      <3> QED BY <1>1, <1>5, <2>1, <3>1 DEF Ordered
    <2>2. CASE j = Len(q) + 1
      <3>1. i = j \/ i \in 1..Len(q)
        BY <1>1, <2>2
      <3> QED BY <1>1, <1>2, <1>5, <2>2, <3>1 DEF UpTo
    <2> QED BY <1>1, <2>1, <2>2
  <1> QED BY <1>3, <1>4, <1>5 DEF r, Ordered

LEMMA TailOrder ==
  ASSUME NEW q \in Seq(Msg), q # <<>>, NEW o, NEW b \in Nat
  PROVE  /\ From(q, o, b) => From(Tail(q), o, b)
         /\ UpTo(q, o, b) => UpTo(Tail(q), o, b)
         /\ Ordered(q, o) => Ordered(Tail(q), o)
         /\ From(q, o, b) /\ Head(q).origin = o => b <= Head(q).ver
         /\ UpTo(q, o, b) /\ Head(q).origin = o => Head(q).ver <= b
         /\ Ordered(q, o) /\ Head(q).origin = o
              => From(Tail(q), o, Head(q).ver)
         /\ Head(q).ver \in Nat
  <1> DEFINE r == Tail(q)
  <1>1. /\ Len(q) \in Nat /\ Len(r) = Len(q) - 1 /\ Head(q) = q[1]
        /\ 1 \in 1..Len(q) /\ q[1] \in Msg
        /\ \A i \in 1..Len(r) : r[i] = q[i + 1] /\ i + 1 \in 1..Len(q)
    OBVIOUS
  <1> HIDE DEF r
  <1>2. /\ From(q, o, b) => From(r, o, b)
        /\ UpTo(q, o, b) => UpTo(r, o, b)
        /\ From(q, o, b) /\ Head(q).origin = o => b <= Head(q).ver
        /\ UpTo(q, o, b) /\ Head(q).origin = o => Head(q).ver <= b
    BY <1>1 DEF From, UpTo
  <1>3. ASSUME Ordered(q, o), NEW i \in 1..Len(r), NEW j \in 1..Len(r), i <= j,
               r[i].origin = o, r[j].origin = o
        PROVE  r[i].ver <= r[j].ver
    <2>1. i + 1 \in 1..Len(q) /\ j + 1 \in 1..Len(q) /\ i + 1 <= j + 1
      BY <1>1, <1>3
    <2> QED BY <1>1, <1>3, <2>1 DEF Ordered
  <1>4. ASSUME Ordered(q, o), Head(q).origin = o PROVE From(r, o, Head(q).ver)
    <2> SUFFICES ASSUME NEW i \in 1..Len(r), r[i].origin = o
                 PROVE  Head(q).ver <= r[i].ver
      BY DEF From
    <2>1. i + 1 \in 1..Len(q) /\ 1 <= i + 1 /\ r[i] = q[i + 1]
      BY <1>1
    <2> QED BY <1>1, <1>4, <2>1 DEF Ordered
  <1>5. Head(q).ver \in Nat
    BY <1>1, MsgType
  <1> QED BY <1>2, <1>3, <1>4, <1>5 DEF r, Ordered

(* The disjunction that PairSteps proves.                                  *)
PairStep(n, o) == \/ Posts(n, o) \/ Reads(n, o) \/ Passes(n, o) \/ Cut(n, o)
                  \/ Still(n, o)

(* A step that concerns a pair is one of the steps that concern o.         *)
LEMMA PairIsLocal ==
  ASSUME NEW n, NEW o, PairStep(n, o) PROVE LocalStep(o)
  BY DEF PairStep, LocalStep, Posts, Reads, Passes, Cut, Still

(* That a dump overtook events is never forgotten.                         *)
LEMMA OvertookStays ==
  ASSUME NEW o, LocalStep(o), overtook[o] PROVE overtook'[o]
  BY DEF LocalStep, Changes, Loads, Dumps, Hears, Publishes, Learns, Dies,
       Rests, KeepsFlags

(* If no dump overtook events, what redis got last, what waits to be       *)
(* published and what waits in the event queue are in order.               *)
LocalOrder(o) ==
  ~overtook[o] =>
    /\ From(pub[o], o, lastpub[o]) /\ Ordered(pub[o], o)
    /\ From(evq[o], o, lastpub[o]) /\ Ordered(evq[o], o)
    /\ \A k \in 1..Len(pub[o]) : From(evq[o], o, pub[o][k].ver)

(* The dump is the one step that publishes without taking its event off    *)
(* the queue; without overtook there is none there to fall behind.         *)
LEMMA StepLocalOrder ==
  ASSUME IInv, IInv', NEW o \in Nodes, LocalStep(o), LoadInv(o), LocalOrder(o)
  PROVE  LocalOrder(o)'
  <1>0. Types /\ Types'
    BY DEF IInv
  <1>t. /\ evq[o] \in Seq(Msg) /\ pub[o] \in Seq(Msg) /\ version[o] \in Nat
        /\ Len(pub[o]) \in Nat /\ lastpub[o] \in Nat
        /\ \A i \in 1..Len(pub[o]) : pub[o][i] \in Msg /\ pub[o][i].ver \in Nat
    BY <1>0, LocalTypes, SeqOfMsg
  <1>u. \A i \in 1..Len(pub[o]) : pub[o][i].ver <= version[o]
    BY NewestLast DEF LoadInv
  <1>g. overtook[o] => overtook'[o]
    BY OvertookStays
  <1> SUFFICES ASSUME ~overtook'[o]
               PROVE  /\ From(pub[o], o, lastpub[o])' /\ Ordered(pub[o], o)'
                      /\ From(evq[o], o, lastpub[o])' /\ Ordered(evq[o], o)'
                      /\ \A k \in 1..Len(pub'[o]) :
                           From(evq'[o], o, pub'[o][k].ver)
    BY DEF LocalOrder
  <1>h. /\ From(pub[o], o, lastpub[o]) /\ Ordered(pub[o], o)
        /\ From(evq[o], o, lastpub[o]) /\ Ordered(evq[o], o)
        /\ \A k \in 1..Len(pub[o]) : From(evq[o], o, pub[o][k].ver)
    BY <1>g DEF LocalOrder
  <1>1. CASE Changes(o)
    <2> DEFINE e == [origin |-> o, ver |-> version[o] + 1]
    <2>1. /\ evq'[o] = Append(evq[o], e) /\ pub'[o] = pub[o]
          /\ lastpub'[o] = lastpub[o] /\ version'[o] = version[o] + 1
          /\ e.origin = o /\ e.ver = version[o] + 1
      BY <1>1 DEF Changes
    <2>2. e \in Msg
      <3>1. version'[o] \in 0..MaxVersion
        BY <1>0 DEF Types
      <3>2. version[o] + 1 \in Versions
        BY <1>t, <2>1, <3>1, ClusterAssumption DEF Versions
      <3> QED BY <3>2 DEF Msg
    <2> HIDE DEF e
    <2>3. UpTo(evq[o], o, e.ver)
      <3>1. \A i \in 1..Len(evq[o]) : evq[o][i].ver \in Nat
        BY <1>0, LocalTypes, SeqOfMsg
      <3>2. \A i \in 1..Len(evq[o]) :
              evq[o][i].origin = o => evq[o][i].ver <= version[o]
        BY NewestLast
      <3> QED BY <1>t, <2>1, <3>1, <3>2 DEF UpTo
    <2>4. /\ lastpub[o] <= e.ver
          /\ \A k \in 1..Len(pub[o]) : pub[o][k].ver <= e.ver
      <3>1. lastpub[o] <= version[o]
        BY DEF LoadInv
      <3> QED BY <1>t, <1>u, <2>1, <3>1
    <2> QED BY <1>h, <1>t, <2>1, <2>2, <2>3, <2>4, AppendOrder
  <1>2. CASE Loads(o) \/ Rests(o)
    <2>1. evq'[o] = evq[o] /\ pub'[o] = pub[o] /\ lastpub'[o] = lastpub[o]
      BY <1>2 DEF Loads, Rests, SameQueues, SameRecord
    <2> QED BY <1>h, <2>1
  <1>3. CASE Dumps(o)
    <2>1. /\ \A i \in 1..Len(evq'[o]) : evq'[o][i].origin # o
          /\ pub[o] = <<>> /\ lastpub'[o] = lastpub[o]
      BY <1>3 DEF Dumps, LoadInv, SameRecord
    <2>2. CASE cache[o][o] = 0
      <3>1. Len(pub'[o]) = 0
        BY <1>3, <2>1, <2>2 DEF Dumps
      <3> QED BY <2>1, <3>1 DEF From, Ordered
    <2>3. CASE cache[o][o] # 0
      <3>1. /\ Len(pub'[o]) = 1 /\ pub'[o][1].ver = version[o]
        BY <1>3, <2>1, <2>3 DEF Dumps, LoadInv
      <3> QED BY <1>t, <2>1, <3>1 DEF From, Ordered, LoadInv
    <2> QED BY <2>2, <2>3
  <1>4. CASE Hears(o)
    <2> DEFINE e == Head(evq[o])
    <2>0. /\ evq[o] # <<>> /\ evq'[o] = Tail(evq[o])
          /\ lastpub'[o] = lastpub[o]
          /\ pub'[o] = IF phase[o] = "up" /\ e.origin = o
                         THEN Append(pub[o], e) ELSE pub[o]
      BY <1>4 DEF Hears, SameRecord
    <2>1. /\ e \in Msg
      BY <1>t, <2>0
    <2>2. /\ From(evq'[o], o, lastpub[o]) /\ Ordered(evq'[o], o)
          /\ \A k \in 1..Len(pub[o]) : From(evq'[o], o, pub[o][k].ver)
      BY <1>h, <1>t, <2>0, TailOrder
    <2>3. CASE phase[o] = "up" /\ e.origin = o
      <3>1. /\ lastpub[o] <= e.ver /\ From(evq'[o], o, e.ver)
            /\ \A k \in 1..Len(pub[o]) : pub[o][k].ver <= e.ver
        BY <1>h, <1>t, <2>0, <2>3, TailOrder
      <3>2. UpTo(pub[o], o, e.ver)
        BY <3>1 DEF UpTo
      <3> HIDE DEF e
      <3>3. /\ pub'[o] = Append(pub[o], e)
            /\ \A k \in 1..Len(pub'[o]) :
                 \/ pub'[o][k] = e
                 \/ k \in 1..Len(pub[o]) /\ pub'[o][k] = pub[o][k]
        BY <1>t, <2>0, <2>1, <2>3
      <3> QED BY <1>h, <1>t, <2>0, <2>1, <2>2, <3>1, <3>2, <3>3, AppendOrder
    <2>4. CASE ~(phase[o] = "up" /\ e.origin = o)
      BY <1>h, <2>0, <2>2, <2>4
    <2> QED BY <2>3, <2>4
  <1>5. CASE Publishes(o)
    <2>1. /\ pub[o] # <<>> /\ pub'[o] = Tail(pub[o])
          /\ lastpub'[o] = Head(pub[o]).ver /\ evq'[o] = evq[o]
      BY <1>5 DEF Publishes
    <2>2. /\ Head(pub[o]) = pub[o][1] /\ 1 \in 1..Len(pub[o])
          /\ \A k \in 1..Len(pub'[o]) : /\ pub'[o][k] = pub[o][k + 1]
                                        /\ k + 1 \in 1..Len(pub[o])
      BY <1>t, <2>1
    <2>3. Head(pub[o]).origin = o
      BY <2>2 DEF LoadInv
    <2> QED BY <1>h, <1>t, <2>1, <2>2, <2>3, TailOrder
  <1>6. CASE Learns(o)
    <2>1. PICK m \in Msg : m.origin # o /\ evq'[o] = Append(evq[o], m)
      BY <1>6 DEF Learns
    <2>2. pub'[o] = pub[o] /\ lastpub'[o] = lastpub[o]
      BY <1>6 DEF Learns, SameRecord
    <2> QED BY <1>h, <1>t, <2>1, <2>2, AppendOrder
  <1>7. CASE Dies(o)
    BY <1>7 DEF Dies, From, Ordered
  <1> QED BY <1>1, <1>2, <1>3, <1>4, <1>5, <1>6, <1>7 DEF LocalStep

(* And so are what n has cached, what redis has sent it, and what redis    *)
(* got last.                                                               *)
PairOrder(n, o) ==
  ~overtook[o] =>
    /\ cache[n][o] <= lastpub[o] /\ From(chan[n], o, cache[n][o])
    /\ UpTo(chan[n], o, lastpub[o]) /\ Ordered(chan[n], o)

(* redis appends at the end what n takes from the front.                   *)
LEMMA StepPairOrder ==
  ASSUME IInv, IInv', NEW n \in Nodes, NEW o \in Nodes, PairStep(n, o),
         LoadInv(o), LocalOrder(o), PairOrder(n, o)
  PROVE  PairOrder(n, o)'
  <1>0. Types /\ Types'
    BY DEF IInv
  <1>t. /\ chan[n] \in Seq(Msg) /\ pub[o] \in Seq(Msg) /\ cache[n][o] \in Nat
        /\ lastpub[o] \in Nat /\ lastpub'[o] \in Nat
    BY <1>0, LocalTypes, ClusterAssumption DEF Types
  <1>g. overtook[o] => overtook'[o]
    BY PairIsLocal, OvertookStays
  <1> SUFFICES ASSUME ~overtook'[o]
               PROVE  /\ (cache[n][o] <= lastpub[o])'
                      /\ From(chan'[n], o, cache'[n][o])
                      /\ UpTo(chan'[n], o, lastpub'[o])
                      /\ Ordered(chan'[n], o)
    BY DEF PairOrder
  <1>h. /\ cache[n][o] <= lastpub[o] /\ From(chan[n], o, cache[n][o])
        /\ UpTo(chan[n], o, lastpub[o]) /\ Ordered(chan[n], o)
    BY <1>g DEF PairOrder
  <1>1. CASE Posts(n, o)
    <2> DEFINE m == Head(pub[o])
    <2>1. /\ pub[o] # <<>> /\ lastpub'[o] = m.ver /\ cache'[n][o] = cache[n][o]
          /\ chan'[n] = IF n \in rsub THEN Append(chan[n], m) ELSE chan[n]
      BY <1>1 DEF Posts, Publishes
    <2>2. m = pub[o][1] /\ 1 \in 1..Len(pub[o]) /\ m \in Msg
      BY <1>t, <2>1
    <2>3. m.origin = o /\ lastpub[o] <= m.ver /\ m.ver \in Nat
      BY <1>g, <1>t, <2>1, <2>2, TailOrder DEF LocalOrder, LoadInv
    <2> HIDE DEF m
    <2>4. UpTo(chan[n], o, m.ver)
      <3>1. \A i \in 1..Len(chan[n]) : chan[n][i].ver \in Nat
        BY <1>t, SeqOfMsg
      <3> QED BY <1>h, <1>t, <2>3, <3>1 DEF UpTo
    <2>5. cache[n][o] <= m.ver
      BY <1>h, <1>t, <2>3
    <2> QED BY <1>h, <1>t, <2>1, <2>2, <2>3, <2>4, <2>5, AppendOrder
  <1>2. CASE Reads(n, o)
    <2>1. /\ chan[n] # <<>> /\ chan'[n] = Tail(chan[n])
          /\ cache'[n][o] = IF Head(chan[n]).origin = o THEN Head(chan[n]).ver
                            ELSE cache[n][o]
          /\ lastpub'[o] = lastpub[o]
      BY <1>2 DEF Reads, Rests, SameRecord
    <2> QED BY <1>h, <1>t, <2>1, TailOrder
  <1>3. CASE Passes(n, o)
    <2>1. PICK m \in Msg : m.origin # o /\ chan'[n] = Append(chan[n], m)
      BY <1>3 DEF Passes
    <2>2. cache'[n][o] = cache[n][o] /\ lastpub'[o] = lastpub[o]
      BY <1>3 DEF Passes, Rests, SameRecord
    <2> QED BY <1>h, <1>t, <2>1, <2>2, AppendOrder
  <1>4. CASE Cut(n, o)
    <2>1. cache'[n][o] = 0 /\ chan'[n] = <<>>
      BY <1>4 DEF Cut
    <2> QED BY <1>t, <2>1 DEF From, UpTo, Ordered
  <1>5. CASE Still(n, o)
    <2>1. /\ cache'[n][o] = cache[n][o] /\ chan'[n] = chan[n]
          /\ lastpub'[o] = lastpub[o]
      BY <1>5 DEF Still, Changes, Loads, Dumps, Hears, Learns, Dies, Rests,
           SameRecord
    <2> QED BY <1>h, <2>1
  <1> QED BY <1>1, <1>2, <1>3, <1>4, <1>5 DEF PairStep
-----------------------------------------------------------------------------
(* The last that redis sent n of o's device is its current state, and n    *)
(* has still to handle it or has it cached.                                *)
Delivered(n, o) ==
  \/ \E i \in 1..Len(chan[n]) :
       /\ Current(o, chan[n][i])
       /\ \A j \in (i + 1)..Len(chan[n]) : chan[n][j].origin # o
  \/ /\ \A i \in 1..Len(chan[n]) : chan[n][i].origin # o
     /\ cache[n][o] = version[o]

(* A server that redis sent the current state is subscribed, and gets it   *)
(* once more, or gets nothing after it, unless its owner crashed.          *)
ReachInv(n, o) ==
  n \in reached[o] =>
    /\ n \in rsub
    /\ \/ phase[o] = "up" /\ InQueue(o)
       \/ LastIs(pub[o], version[o])
       \/ pub[o] = <<>> /\ Delivered(n, o)
       \/ cutoff[o]

(* If no dump overtook events, it has the state then, or has only to       *)
(* handle it.                                                              *)
HasInv(n, o) ==
  n \in reached[o] /\ ~overtook[o] =>
    \/ cache[n][o] = version[o]
    \/ \E i \in 1..Len(chan[n]) : Current(o, chan[n][i])

(* Handling messages, and messages about other devices, keep it so.        *)
LEMMA StepDelivered ==
  ASSUME IInv, NEW n \in Nodes, NEW o \in Nodes, Delivered(n, o),
         version'[o] = version[o],
         \/ Reads(n, o) \/ Passes(n, o)
         \/ cache'[n][o] = cache[n][o] /\ chan'[n] = chan[n]
  PROVE  Delivered(n, o)'
  <1>t. chan[n] \in Seq(Msg) /\ Len(chan[n]) \in Nat
    BY LocalTypes DEF IInv
  <1>1. CASE cache'[n][o] = cache[n][o] /\ chan'[n] = chan[n]
    BY <1>1 DEF Delivered, Current
  <1>2. CASE Passes(n, o)
    <2>1. PICK m \in Msg : m.origin # o /\ chan'[n] = Append(chan[n], m)
      BY <1>2 DEF Passes
    <2>2. /\ cache'[n][o] = cache[n][o]
          /\ Len(chan'[n]) = Len(chan[n]) + 1 /\ chan'[n][Len(chan[n]) + 1] = m
          /\ \A i \in 1..Len(chan[n]) : chan'[n][i] = chan[n][i]
      BY <1>t, <1>2, <2>1 DEF Passes
    <2>3. CASE \E i \in 1..Len(chan[n]) :
                 /\ Current(o, chan[n][i])
                 /\ \A j \in (i + 1)..Len(chan[n]) : chan[n][j].origin # o
      <3>1. PICK i \in 1..Len(chan[n]) :
              /\ Current(o, chan[n][i])
              /\ \A j \in (i + 1)..Len(chan[n]) : chan[n][j].origin # o
        BY <2>3
      <3>2. i \in 1..Len(chan'[n]) /\ Current(o, chan[n][i])'
        BY <1>t, <2>2, <3>1 DEF Current
      <3>3. \A j \in (i + 1)..Len(chan'[n]) : chan'[n][j].origin # o
        BY <1>t, <2>1, <2>2, <3>1
      <3> QED BY <3>2, <3>3 DEF Delivered
    <2>4. CASE /\ \A i \in 1..Len(chan[n]) : chan[n][i].origin # o
               /\ cache[n][o] = version[o]
      <3>1. \A i \in 1..Len(chan'[n]) : chan'[n][i].origin # o
        BY <1>t, <2>1, <2>2, <2>4
      <3> QED BY <2>2, <2>4, <3>1 DEF Delivered
    <2> QED BY <2>3, <2>4 DEF Delivered
  <1>3. CASE Reads(n, o)
    <2>1. /\ chan[n] # <<>> /\ chan'[n] = Tail(chan[n])
          /\ cache'[n][o] = IF Head(chan[n]).origin = o THEN Head(chan[n]).ver
                            ELSE cache[n][o]
      BY <1>3 DEF Reads
    <2>2. /\ Len(chan'[n]) = Len(chan[n]) - 1 /\ Head(chan[n]) = chan[n][1]
          /\ 1 \in 1..Len(chan[n])
          /\ \A i \in 1..Len(chan'[n]) : chan'[n][i] = chan[n][i + 1]
      BY <1>t, <2>1
    <2>3. CASE \E i \in 1..Len(chan[n]) :
                 /\ Current(o, chan[n][i])
                 /\ \A j \in (i + 1)..Len(chan[n]) : chan[n][j].origin # o
      <3>1. PICK i \in 1..Len(chan[n]) :
              /\ Current(o, chan[n][i])
              /\ \A j \in (i + 1)..Len(chan[n]) : chan[n][j].origin # o
        BY <2>3
      <3>2. CASE i = 1
        <4>1. cache'[n][o] = version'[o]
          BY <2>1, <2>2, <3>1, <3>2 DEF Current
        <4>2. \A j \in 1..Len(chan'[n]) : chan'[n][j].origin # o
          BY <1>t, <2>2, <3>1, <3>2
        <4> QED BY <4>1, <4>2 DEF Delivered
      <3>3. CASE i # 1
        <4>1. /\ i - 1 \in 1..Len(chan'[n]) /\ chan'[n][i - 1] = chan[n][i]
          BY <1>t, <2>2, <3>3
        <4>2. \A j \in ((i - 1) + 1)..Len(chan'[n]) : chan'[n][j].origin # o
          BY <1>t, <2>2, <3>1, <3>3
        <4>3. Current(o, chan[n][i - 1])'
          BY <3>1, <4>1 DEF Current
        <4> QED BY <4>1, <4>2, <4>3 DEF Delivered
      <3> QED BY <3>2, <3>3
    <2>4. CASE /\ \A i \in 1..Len(chan[n]) : chan[n][i].origin # o
               /\ cache[n][o] = version[o]
      <3>0. \A i \in 1..Len(chan'[n]) : i + 1 \in 1..Len(chan[n])
        BY <1>t, <2>2
      <3>1. \A i \in 1..Len(chan'[n]) : chan'[n][i].origin # o
        BY <2>2, <2>4, <3>0
      <3> QED BY <2>1, <2>2, <2>4, <3>1 DEF Delivered
    <2> QED BY <2>3, <2>4 DEF Delivered
  <1> QED BY <1>1, <1>2, <1>3

(* What the queues hold of the current state awaits its PUBLISH.           *)
LEMMA AwaitsIf ==
  ASSUME IInv, NEW o \in Nodes, LoadInv(o), ~AwaitsPublish(o)
  PROVE  ~InQueue(o) /\ ~LastIs(pub[o], version[o])
  <1>t. /\ evq[o] \in Seq(Msg) /\ pub[o] \in Seq(Msg)
        /\ Len(pub[o]) \in Nat
    BY LocalTypes DEF IInv
  <1>m. \A m \in Msg : Current(o, m) => m = [origin |-> o, ver |-> version[o]]
    BY DEF Msg, Current
  <1>1. ASSUME InQueue(o) PROVE FALSE
    <2>1. PICK i \in 1..Len(evq[o]) : Current(o, evq[o][i])
      BY <1>1 DEF InQueue
    <2>2. evq[o][i] = [origin |-> o, ver |-> version[o]]
      BY <1>t, <1>m, <2>1
    <2> QED BY <2>2 DEF AwaitsPublish
  <1>2. ASSUME LastIs(pub[o], version[o]) PROVE FALSE
    <2>1. Len(pub[o]) \in 1..Len(pub[o]) /\ pub[o][Len(pub[o])] \in Msg
      BY <1>t, <1>2 DEF LastIs
    <2>2. Current(o, pub[o][Len(pub[o])])
      BY <1>2, <2>1 DEF LastIs, LoadInv, Current
    <2>3. pub[o][Len(pub[o])] = [origin |-> o, ver |-> version[o]]
      BY <1>m, <2>1, <2>2
    <2> QED BY <2>1, <2>3 DEF AwaitsPublish
  <1> QED BY <1>1, <1>2

(* An older state is published after the current one only if the current   *)
(* one follows (AgainInv), and then it is delivered again.                 *)
LEMMA StepReach ==
  ASSUME IInv, IInv', NEW n \in Nodes, NEW o \in Nodes, PairStep(n, o),
         OwnInv(o), OwnInv(o)', LoadInv(o), AgainInv(o), ReachInv(n, o)
  PROVE  ReachInv(n, o)'
  <1>0. Types /\ Types'
    BY DEF IInv
  <1>t. /\ evq[o] \in Seq(Msg) /\ pub[o] \in Seq(Msg) /\ version[o] \in Nat
        /\ Len(pub[o]) \in Nat /\ chan[n] \in Seq(Msg)
        /\ Len(chan[n]) \in Nat
    BY <1>0, LocalTypes, SeqOfMsg
  <1> SUFFICES ASSUME n \in reached'[o]
               PROVE  /\ n \in rsub'
                      /\ \/ phase'[o] = "up" /\ InQueue(o)'
                         \/ LastIs(pub'[o], version'[o])
                         \/ pub'[o] = <<>> /\ Delivered(n, o)'
                         \/ cutoff'[o]
    BY DEF ReachInv
  <1>1. CASE Posts(n, o)
    <2> DEFINE m == Head(pub[o])
    <2>1. /\ pub[o] # <<>> /\ pub'[o] = Tail(pub[o])
          /\ reached'[o] = IF m.ver = version[o] THEN reached[o] \cup rsub
                           ELSE reached[o]
          /\ rsub' = rsub /\ version'[o] = version[o]
          /\ phase'[o] = phase[o] /\ evq'[o] = evq[o]
          /\ chan'[n] = IF n \in rsub THEN Append(chan[n], m) ELSE chan[n]
          /\ cutoff[o] => cutoff'[o]
      BY <1>1 DEF Posts, Publishes, SameDevice, KeepsFlags
    <2>2. m = pub[o][1] /\ 1 \in 1..Len(pub[o]) /\ m \in Msg
      BY <1>t, <2>1
    <2>3. m.origin = o
      BY <2>2 DEF LoadInv
    <2> HIDE DEF m
    <2>4. n \in rsub
      BY <2>1 DEF ReachInv
    <2>5. \/ phase[o] = "up" /\ InQueue(o)
          \/ LastIs(pub[o], version[o])
          \/ cutoff[o]
      <3>1. CASE m.ver = version[o]
        BY <2>2, <3>1 DEF AgainInv, Once
      <3>2. CASE m.ver # version[o]
        BY <2>1, <3>2 DEF ReachInv
      <3> QED BY <3>1, <3>2
    <2>6. CASE phase[o] = "up" /\ InQueue(o)
      BY <2>1, <2>4, <2>6, SameQueue
    <2>7. CASE LastIs(pub[o], version[o])
      <3>1. \/ LastIs(pub'[o], version'[o])
            \/ pub'[o] = <<>> /\ m.ver = version[o]
        BY <1>t, <2>1, <2>7, TailLast DEF m
      <3>2. ASSUME m.ver = version[o] PROVE Delivered(n, o)'
        <4>1. /\ Len(chan'[n]) = Len(chan[n]) + 1
              /\ chan'[n][Len(chan[n]) + 1] = m
          BY <1>t, <2>1, <2>2, <2>4
        <4>2. /\ Len(chan'[n]) \in 1..Len(chan'[n])
              /\ Current(o, chan[n][Len(chan[n])])'
              /\ \A j \in (Len(chan'[n]) + 1)..Len(chan'[n]) :
                    chan'[n][j].origin # o
          BY <1>t, <2>1, <2>3, <3>2, <4>1 DEF Current
        <4> QED BY <4>2 DEF Delivered
      <3> QED BY <2>1, <2>4, <3>1, <3>2
    <2> QED BY <2>1, <2>4, <2>5, <2>6, <2>7
  <1>2. CASE Reads(n, o) \/ Passes(n, o)
    <2>1. /\ Rests(o) /\ rsub' = rsub
      BY <1>2 DEF Reads, Passes
    <2>2. /\ n \in reached[o] /\ version'[o] = version[o]
          /\ pub'[o] = pub[o] /\ phase'[o] = phase[o] /\ evq'[o] = evq[o]
          /\ cutoff[o] => cutoff'[o]
      BY <2>1 DEF Rests, SameQueues, SameDevice, KeepsFlags
    <2>3. Delivered(n, o) => Delivered(n, o)'
      BY <1>2, <2>2, StepDelivered
    <2> QED BY <2>1, <2>2, <2>3, SameQueue DEF ReachInv
  <1>3. CASE Cut(n, o)
    BY <1>3 DEF Cut
  <1>4. CASE Still(n, o)
    <2>0. /\ cache'[n][o] = cache[n][o] /\ chan'[n] = chan[n]
          /\ n \in rsub => n \in rsub'
      BY <1>4 DEF Still
    <2>d. version'[o] = version[o] /\ Delivered(n, o) => Delivered(n, o)'
      BY <2>0, StepDelivered
    <2>1. CASE Changes(o)
      BY <2>1 DEF Changes
    <2>6. CASE Dies(o)
      <3>1. /\ n \in reached[o] /\ version'[o] = version[o]
            /\ pub'[o] = <<>>
            /\ cutoff'[o] \/ (~cutoff[o] /\ ~AwaitsPublish(o))
        BY <2>6 DEF Dies
      <3>2. CASE cutoff'[o]
        BY <2>0, <3>1, <3>2 DEF ReachInv
      <3>3. CASE ~cutoff[o] /\ ~AwaitsPublish(o)
        <4>1. ~InQueue(o) /\ ~LastIs(pub[o], version[o])
          BY <3>3, AwaitsIf
        <4> QED BY <2>0, <2>d, <3>1, <3>3, <4>1 DEF ReachInv
      <3> QED BY <3>1, <3>2, <3>3
    <2>2. CASE Loads(o) \/ Rests(o)
      <3>1. /\ n \in reached[o] /\ version'[o] = version[o]
            /\ pub'[o] = pub[o] /\ evq'[o] = evq[o]
            /\ phase[o] = "up" => phase'[o] = "up"
            /\ cutoff[o] => cutoff'[o]
        BY <2>2 DEF Loads, Rests, SameQueues, SameDevice, KeepsFlags
      <3> QED BY <2>0, <2>d, <3>1, SameQueue DEF ReachInv
    <2>3. CASE Learns(o)
      <3>1. /\ n \in reached[o] /\ version'[o] = version[o]
            /\ pub'[o] = pub[o] /\ phase'[o] = phase[o]
            /\ cutoff[o] => cutoff'[o]
        BY <2>3 DEF Learns, SameDevice, KeepsFlags
      <3> QED BY <2>0, <2>3, <2>d, <3>1, LearnsQueue DEF ReachInv
    <2>4. CASE Dumps(o)
      <3>1. /\ n \in reached[o] /\ version'[o] = version[o]
            /\ phase[o] = "dump" /\ pub[o] = <<>> /\ pub'[o] = <<>>
            /\ cutoff[o] => cutoff'[o]
        BY <2>4 DEF Dumps, LoadInv, SameDevice, KeepsFlags
      <3>2. ~LastIs(pub[o], version[o])
        BY <3>1 DEF LastIs
      <3> QED BY <2>0, <2>d, <3>1, <3>2 DEF ReachInv
    <2>5. CASE Hears(o)
      <3> DEFINE e == Head(evq[o])
      <3>0. /\ e \in Msg /\ phase'[o] = phase[o] /\ version'[o] = version[o]
            /\ n \in reached[o]
            /\ pub'[o] = IF phase[o] = "up" /\ e.origin = o
                           THEN Append(pub[o], e) ELSE pub[o]
            /\ cutoff[o] => cutoff'[o]
        BY <2>5, HearsQueue DEF Hears, SameDevice, KeepsFlags
      <3>q. /\ Current(o, e) => InQueue(o) /\ ~InQueue(o)'
            /\ ~Current(o, e) /\ e.origin = o => InQueue(o)'
            /\ e.origin # o => (InQueue(o)' <=> InQueue(o))
        BY <2>5, HearsQueue
      <3> HIDE DEF e
      <3>r. n \in rsub'
        BY <2>0, <3>0 DEF ReachInv
      <3>1. CASE phase[o] = "up" /\ e.origin = o
        BY <1>t, <3>0, <3>1, <3>q, <3>r, AppendLast DEF Current
      <3>2. CASE ~(phase[o] = "up" /\ e.origin = o)
        BY <2>d, <3>0, <3>2, <3>q, <3>r DEF ReachInv
      <3> QED BY <3>1, <3>2
    <2> QED BY <1>4, <2>1, <2>2, <2>3, <2>4, <2>5, <2>6 DEF Still
  <1> QED BY <1>1, <1>2, <1>3, <1>4 DEF PairStep
(* Without overtook no older state is behind the one that redis sent.      *)
LEMMA StepHas ==
  ASSUME IInv, NEW n \in Nodes, NEW o \in Nodes, PairStep(n, o),
         LoadInv(o), PairOrder(n, o), HasInv(n, o)
  PROVE  HasInv(n, o)'
  <1>t. /\ pub[o] \in Seq(Msg) /\ chan[n] \in Seq(Msg) /\ Len(chan[n]) \in Nat
        /\ version[o] \in Nat /\ cache[n][o] \in Nat
    BY LocalTypes DEF IInv
  <1>g. overtook[o] => overtook'[o]
    BY PairIsLocal, OvertookStays
  <1> SUFFICES ASSUME n \in reached'[o], ~overtook'[o]
               PROVE  \/ cache'[n][o] = version'[o]
                      \/ \E i \in 1..Len(chan'[n]) : Current(o, chan[n][i])'
    BY DEF HasInv
  <1>1. ASSUME version'[o] = version[o], n \in reached[o],
               cache'[n][o] = cache[n][o],
               \/ chan'[n] = chan[n]
               \/ \E m \in Msg : chan'[n] = Append(chan[n], m)
        PROVE  \/ cache'[n][o] = version'[o]
               \/ \E i \in 1..Len(chan'[n]) : Current(o, chan[n][i])'
    <2>1. CASE cache[n][o] = version[o]
      BY <1>1, <2>1
    <2>2. CASE cache[n][o] # version[o]
      <3>1. PICK i \in 1..Len(chan[n]) : Current(o, chan[n][i])
        BY <1>1, <1>g, <2>2 DEF HasInv
      <3>2. i \in 1..Len(chan'[n]) /\ chan'[n][i] = chan[n][i]
        BY <1>1, <1>t
      <3> QED BY <1>1, <3>1, <3>2 DEF Current
    <2> QED BY <2>1, <2>2
  <1>2. CASE Posts(n, o)
    <2> DEFINE m == Head(pub[o])
    <2>1. /\ pub[o] # <<>> /\ version'[o] = version[o]
          /\ cache'[n][o] = cache[n][o]
          /\ reached'[o] = IF m.ver = version[o] THEN reached[o] \cup rsub
                           ELSE reached[o]
          /\ chan'[n] = IF n \in rsub THEN Append(chan[n], m) ELSE chan[n]
      BY <1>2 DEF Posts, Publishes, SameDevice
    <2>2. m = pub[o][1] /\ 1 \in 1..Len(pub[o]) /\ m \in Msg
      BY <1>t, <2>1
    <2>3. m.origin = o
      BY <2>2 DEF LoadInv
    <2> HIDE DEF m
    <2>4. CASE n \in rsub /\ m.ver = version[o]
      <3>1. Len(chan[n]) + 1 \in 1..Len(chan'[n])
            /\ chan'[n][Len(chan[n]) + 1] = m
        BY <1>t, <2>1, <2>2, <2>4
      <3> QED BY <2>1, <2>3, <2>4, <3>1 DEF Current
    <2>5. CASE ~(n \in rsub /\ m.ver = version[o])
      <3>1. n \in reached[o]
        BY <2>1, <2>5
      <3> QED BY <1>1, <2>1, <2>2, <3>1
    <2> QED BY <2>4, <2>5
  <1>3. CASE Reads(n, o)
    <2> DEFINE m == Head(chan[n])
    <2>1. /\ version'[o] = version[o] /\ n \in reached[o]
          /\ chan[n] # <<>> /\ chan'[n] = Tail(chan[n])
          /\ cache'[n][o] = IF m.origin = o THEN m.ver ELSE cache[n][o]
      BY <1>3 DEF Reads, Rests, SameDevice
    <2>2. /\ m \in Msg /\ m = chan[n][1]
          /\ \A i \in 2..Len(chan[n]) : /\ i - 1 \in 1..Len(chan'[n])
                                        /\ chan'[n][i - 1] = chan[n][i]
      BY <1>t, <2>1
    <2> HIDE DEF m
    <2>3. CASE cache[n][o] = version[o]
      <3>1. CASE m.origin = o
        <4>1. m.ver <= version[o]
          BY <1>t, <2>1, <2>2, <3>1, HeadHad DEF IInv, Had, m
        <4>2. version[o] <= m.ver /\ m.ver \in Nat
          BY <1>g, <1>t, <2>1, <2>3, <3>1, TailOrder DEF PairOrder, m
        <4> QED BY <1>t, <2>1, <3>1, <4>1, <4>2
      <3>2. CASE m.origin # o
        BY <2>1, <2>3, <3>2
      <3> QED BY <3>1, <3>2
    <2>4. CASE cache[n][o] # version[o]
      <3>1. PICK i \in 1..Len(chan[n]) : Current(o, chan[n][i])
        BY <1>g, <2>1, <2>4 DEF HasInv
      <3>2. CASE i = 1
        BY <2>1, <2>2, <3>1, <3>2 DEF Current
      <3>3. CASE i # 1
        <4>1. i - 1 \in 1..Len(chan'[n]) /\ chan'[n][i - 1] = chan[n][i]
          BY <2>2, <3>1, <3>3
        <4> QED BY <2>1, <3>1, <4>1 DEF Current
      <3> QED BY <3>2, <3>3
    <2> QED BY <2>3, <2>4
  <1>4. CASE Passes(n, o)
    BY <1>1, <1>4 DEF Passes, Rests, SameDevice
  <1>5. CASE Cut(n, o)
    BY <1>5 DEF Cut
  <1>6. CASE Still(n, o)
    <2>1. \/ reached'[o] = {}
          \/ version'[o] = version[o] /\ reached'[o] \subseteq reached[o]
      BY <1>6 DEF Still, Changes, Loads, Dumps, Hears, Learns, Dies, Rests,
           SameDevice
    <2> QED BY <1>1, <1>6, <2>1 DEF Still
  <1> QED BY <1>2, <1>3, <1>4, <1>5, <1>6 DEF PairStep
-----------------------------------------------------------------------------
(* The inductive invariant.                                                *)
CInv ==
  /\ IInv
  /\ \A o \in Nodes : /\ OwnInv(o) /\ LoadInv(o) /\ LostInv(o) /\ AgainInv(o)
                      /\ StormInv(o) /\ LocalOrder(o)
  /\ \A n, o \in Nodes :
       n # o => ReachInv(n, o) /\ HasInv(n, o) /\ PairOrder(n, o)

(* It holds at the start: nothing is queued and nothing is known.          *)
LEMMA InitCInv == Init => CInv
  <1> SUFFICES ASSUME Init PROVE CInv
    OBVIOUS
  <1>1. ASSUME NEW o \in Nodes
        PROVE  /\ OwnInv(o) /\ LoadInv(o) /\ LostInv(o) /\ AgainInv(o)
               /\ StormInv(o) /\ LocalOrder(o)
    <2>1. /\ evq[o] = <<>> /\ pub[o] = <<>> /\ version[o] = 0
          /\ cache[o][o] = 0 /\ phase[o] = "down" /\ lastpub[o] = 0
          /\ reached[o] = {} /\ sent[o] = 0
      BY DEF Init
    <2>2. OwnInv(o) /\ LoadInv(o) /\ LostInv(o)
      BY <2>1 DEF OwnInv, LoadInv, LostInv
    <2>3. AgainInv(o) /\ StormInv(o)
      BY <2>1 DEF AgainInv, StormInv, Due, InQueue, Once, Twice, Thrice
    <2>4. LocalOrder(o)
      BY <2>1 DEF LocalOrder, From, Ordered
    <2> QED BY <2>2, <2>3, <2>4
  <1>2. ASSUME NEW n \in Nodes, NEW o \in Nodes
        PROVE  ReachInv(n, o) /\ HasInv(n, o) /\ PairOrder(n, o)
    <2>1. /\ chan[n] = <<>> /\ cache[n][o] = 0 /\ lastpub[o] = 0
          /\ reached[o] = {}
      BY DEF Init
    <2> QED BY <2>1 DEF ReachInv, HasInv, PairOrder, From, UpTo, Ordered
  <1> QED BY <1>1, <1>2, InitIInv DEF CInv

(* Each part through each step.                                            *)
LEMMA StepCInv == CInv /\ [Next]_vars => CInv'
  <1> SUFFICES ASSUME CInv, [Next]_vars PROVE CInv'
    OBVIOUS
  <1>1. IInv /\ IInv' /\ Types /\ OnlyOwn
    BY StepIInv DEF CInv, IInv, OnlyOwn, LoadInv
  <1>2. ASSUME NEW o \in Nodes
        PROVE  (/\ OwnInv(o) /\ LoadInv(o) /\ LostInv(o) /\ AgainInv(o)
                /\ StormInv(o) /\ LocalOrder(o))'
    <2>1. /\ OwnInv(o) /\ LoadInv(o) /\ LostInv(o) /\ AgainInv(o)
          /\ StormInv(o) /\ LocalOrder(o)
      BY DEF CInv
    <2>2. LocalStep(o)
      BY <1>1, LocalSteps
    <2>3. OwnInv(o)' /\ LoadInv(o)'
      BY <1>1, <2>1, <2>2, StepOwn, StepLoad
    <2>4. LostInv(o)' /\ AgainInv(o)'
      BY <1>1, <2>1, <2>2, <2>3, StepLost, StepAgain
    <2>5. StormInv(o)' /\ LocalOrder(o)'
      BY <1>1, <2>1, <2>2, <2>3, StepStorm, StepLocalOrder
    <2> QED BY <2>3, <2>4, <2>5
  <1>3. ASSUME NEW n \in Nodes, NEW o \in Nodes, n # o
        PROVE  ReachInv(n, o)' /\ HasInv(n, o)' /\ PairOrder(n, o)'
    <2>1. /\ OwnInv(o) /\ LoadInv(o) /\ AgainInv(o) /\ LocalOrder(o)
          /\ ReachInv(n, o) /\ HasInv(n, o) /\ PairOrder(n, o)
      BY <1>3 DEF CInv
    <2>2. PairStep(n, o)
      BY <1>1, <1>3, PairSteps DEF PairStep
    <2>3. OwnInv(o)'
      BY <1>2
    <2> QED BY <1>1, <2>1, <2>2, <2>3, StepReach,
              StepHas, StepPairOrder
  <1> QED BY <1>1, <1>2, <1>3 DEF CInv

(* No event storm, in a cluster of any size and after any crashes: a       *)
(* device's current state is PUBLISHed at most twice, for its event by     *)
(* ast_event_cb and for a dump by redis_dump_ast_event_cache; what         *)
(* redis_subscription_cb feeds to another Asterisk is not sent out again.  *)
THEOREM StormFree == Spec => []NoEventStorm
  <1>1. CInv => NoEventStorm
    <2> SUFFICES ASSUME CInv, NEW o \in Nodes PROVE sent[o] <= 2
      BY DEF NoEventStorm
    <2>1. Due(o) <= 2 /\ sent[o] \in Nat
      BY LocalTypes DEF CInv, IInv, StormInv
    <2> QED BY <2>1 DEF Due
  <1> QED BY <1>1, InitCInv, StepCInv, PTL DEF Spec

(* Whatever a loaded, idle server has not told redis went through its      *)
(* event queue between redis_dump_ast_event_cache and the subscription:    *)
(* load_module, the callbacks and the publisher lose nothing else.         *)
THEOREM OnlyTheGapLoses == Spec => []NothingElseLost
  <1>1. CInv => NothingElseLost
    <2> SUFFICES ASSUME CInv, NEW o \in Nodes, phase[o] = "up",
                        evq[o] = <<>>, pub[o] = <<>>, cache[o][o] # 0
                 PROVE  lastpub[o] = cache[o][o] \/ missed[o]
      BY DEF NothingElseLost
    <2>1. LostInv(o) /\ LoadInv(o)
      BY DEF CInv
    <2>2. ~InQueue(o) /\ ~LastIs(pub[o], version[o])
      BY DEF InQueue, LastIs
    <2> QED BY <2>1, <2>2 DEF LostInv, LoadInv
  <1> QED BY <1>1, InitCInv, StepCInv, PTL DEF Spec

(* When no queue holds anything any more, every server that redis sent the *)
(* current state of a device has it in its cache, whatever older states    *)
(* were dumped, dispatched or echoed around it; but if its owner's         *)
(* redis_dump_ast_event_cache overtook queued events and its process died  *)
(* before ast_event_cb and the publisher had made up for that, they may    *)
(* have an older one.                                                      *)
THEOREM ReachedAgree == Spec => []Agreement
  <1>1. CInv => Agreement
    <2> SUFFICES ASSUME CInv, Quiet, NEW o \in Nodes,
                        NEW n \in reached[o] \ {o},
                        ~(overtook[o] /\ cutoff[o])
                 PROVE  cache[n][o] = version[o]
      BY DEF Agreement
    <2>1. n \in Nodes /\ n # o
      BY LocalTypes DEF CInv, IInv
    <2>2. ReachInv(n, o) /\ HasInv(n, o)
      BY <2>1 DEF CInv
    <2>3. evq[o] = <<>> /\ pub[o] = <<>> /\ chan[n] = <<>>
      BY <2>1 DEF Quiet
    <2>4. CASE ~cutoff[o]
      BY <2>2, <2>3, <2>4 DEF ReachInv, InQueue, LastIs, Delivered
    <2>5. CASE ~overtook[o]
      BY <2>2, <2>3, <2>5 DEF HasInv
    <2> QED BY <2>4, <2>5
  <1> QED BY <1>1, InitCInv, StepCInv, PTL DEF Spec

(* redis_subscription_cb never takes a server's own device back to an      *)
(* older state, and takes back what it knows of another's only if that     *)
(* server's dump overtook events still in its event queue; only a crash    *)
(* empties a cache.                                                        *)
THEOREM NoStale == Spec => NoStaleOverwrite
  <1> DEFINE Kept == \A n, o \in Nodes :
                       \/ cache'[n][o] >= cache[n][o]
                       \/ crashes' # crashes
                       \/ n # o /\ overtook[o]
  <1>1. CInv /\ [Next]_vars => [Kept]_vars
    <2> SUFFICES ASSUME CInv, [Next]_vars, NEW n \in Nodes, NEW o \in Nodes
                 PROVE  \/ cache'[n][o] >= cache[n][o]
                        \/ crashes' # crashes
                        \/ n # o /\ overtook[o]
      OBVIOUS
    <2>1. IInv /\ Types /\ Types' /\ OnlyOwn
      BY StepIInv DEF CInv, IInv, OnlyOwn, LoadInv
    <2>t. /\ cache[n][o] \in Nat /\ cache'[n][o] \in Nat /\ version[o] \in Nat
          /\ chan[n] \in Seq(Msg)
      BY <2>1, LocalTypes, ClusterAssumption DEF Types
    <2>2. CASE n = o
      <3>1. LocalStep(o) /\ LoadInv(o)
        BY <2>1, LocalSteps DEF CInv
      <3>2. CASE Changes(o)
        BY <2>2, <2>t, <3>1, <3>2 DEF Changes, LoadInv
      <3>3. CASE cache'[o][o] = cache[o][o]
        BY <2>2, <2>t, <3>3
      <3>4. CASE Dies(o)
        BY <3>4 DEF Dies
      <3> QED BY <3>1, <3>2, <3>3, <3>4 DEF LocalStep, Loads, Dumps, Hears,
                Publishes, Learns, Rests, SameDevice
    <2>3. CASE n # o
      <3>1. PairStep(n, o) /\ PairOrder(n, o)
        BY <2>1, <2>3, PairSteps DEF CInv, PairStep
      <3>2. CASE Reads(n, o)
        <4>1. /\ chan[n] # <<>>
              /\ cache'[n][o] = IF Head(chan[n]).origin = o
                                  THEN Head(chan[n]).ver ELSE cache[n][o]
          BY <3>2 DEF Reads
        <4>2. From(chan[n], o, cache[n][o]) \/ overtook[o]
          BY <3>1 DEF PairOrder
        <4> QED BY <2>3, <2>t, <4>1, <4>2, TailOrder
      <3>3. CASE cache'[n][o] = cache[n][o]
        BY <2>t, <3>3
      <3>4. CASE Cut(n, o)
        BY <3>4 DEF Cut
      <3> QED BY <3>1, <3>2, <3>3, <3>4 DEF PairStep, Posts, Passes, Still
    <2> QED BY <2>2, <2>3
  <1> QED BY <1>1, InitCInv, StepCInv, PTL DEF Spec, NoStaleOverwrite
=============================================================================
