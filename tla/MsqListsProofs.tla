--------------------------- MODULE MsqListsProofs ---------------------------
(***************************************************************************)
(* Theorems about MsqLists, for any number of servers and event types: its *)
(* variables keep their types, ListExact and FreedOnce.                    *)
(*                                                                         *)
(* msq_add_server adds a server only when the walk of the list has come to *)
(* its end, so no server is in the list twice, not even in a node that was *)
(* freed (Distinct); this bounds the list, and makes the server that       *)
(* _msq_remove_server takes from the front the first one the client        *)
(* wanted.  An entry with a callback has a channel that was not freed      *)
(* (Subscribed).                                                           *)
(***************************************************************************)
EXTENDS MsqLists, FiniteSetTheorems, SequenceTheorems, TLAPS

Nodes == [server : Servers, freed : BOOLEAN]

Distinct ==
  \A i, j \in 1..Len(servers_root) :
    servers_root[i].server = servers_root[j].server => i = j

Subscribed == \A e \in Events : callback[e] => channel[e] # "freed"

IInv == TypeOK /\ Distinct /\ Subscribed /\ ListExact /\ FreedOnce
-----------------------------------------------------------------------------
(* The minimum of a nonempty set of numbers is a member of it.             *)
LEMMA MinIsMember ==
  ASSUME NEW S \in SUBSET Nat, S # {}
  PROVE  Min(S) \in S
  <1>1. PICK x \in S : \A y \in S : ~(<<y, x>> \in OpToRel(<, Nat))
    BY WFMin, NatLessThanWellFounded, Zenon
  <1>2. ASSUME NEW y \in S PROVE x <= y
    <2>1. x \in Nat /\ y \in Nat /\ ~(<<y, x>> \in OpToRel(<, Nat))
      BY <1>1, Zenon
    <2>2. <<y, x>> \in Nat \X Nat /\ <<y, x>>[1] = y /\ <<y, x>>[2] = x
      BY <2>1
    <2>3. ~(y < x)
      BY <2>1, <2>2, Zenon DEF OpToRel
    <2>4. x \in Nat /\ y \in Nat
      BY <2>1
    <2> QED BY <2>3, <2>4
  <1>3. \E z \in S : \A y \in S : z <= y
    BY <1>2
  <1> QED BY <1>3, Zenon DEF Min

(* A list in which no server is twice is no longer than there are servers. *)
LEMMA ShortList ==
  ASSUME NEW q \in Seq(Nodes),
         \A i, j \in 1..Len(q) : q[i].server = q[j].server => i = j
  PROVE  Len(q) <= MaxServers
  <1> DEFINE f == [i \in 1..Len(q) |-> q[i].server]
  <1>0. Len(q) \in Nat /\ MaxServers \in Nat
    BY ListsAssumption
  <1>1. f \in [1..Len(q) -> Servers]
    <2>1. \A i \in 1..Len(q) : q[i] \in Nodes
      OBVIOUS
    <2>2. \A i \in 1..Len(q) : q[i].server \in Servers
      BY <2>1 DEF Nodes
    <2> QED BY <2>2
  <1>2. \A i, j \in 1..Len(q) : f[i] = f[j] => i = j
    OBVIOUS
  <1>3. IsFiniteSet(1..Len(q)) /\ Cardinality(1..Len(q)) = Len(q)
    <2> DEFINE n == Len(q)
    <2>1. n \in Int /\ 1 \in Int
      BY <1>0
    <2> HIDE DEF n
    <2>2. /\ IsFiniteSet(1..n)
          /\ Cardinality(1..n) = IF 1 > n THEN 0 ELSE n - 1 + 1
      BY <2>1, FS_Interval, Zenon
    <2>3. n = Len(q) /\ n \in Nat
      BY <1>0 DEF n
    <2> QED BY <2>2, <2>3
  <1>4. IsFiniteSet(Servers) /\ Cardinality(Servers) = MaxServers
    BY <1>0, FS_Interval DEF Servers
  <1> HIDE DEF f
  <1>5. ~(MaxServers < Len(q))
    BY <1>1, <1>2, <1>3, <1>4, FS_PigeonHole
  <1> QED BY <1>0, <1>5

(* Freeing a node changes no server of the list.                           *)
LEMMA FreedNode ==
  ASSUME NEW q \in Seq(Nodes), NEW n
  PROVE  LET r == [q EXCEPT ![n].freed = TRUE]
         IN  /\ r \in Seq(Nodes) /\ Len(r) = Len(q)
             /\ \A i \in 1..Len(q) : r[i].server = q[i].server
  <1> DEFINE r == [q EXCEPT ![n].freed = TRUE]
  <1>1. q \in [1..Len(q) -> Nodes] /\ Len(q) \in Nat
    BY LenProperties
  <1>2. \A i \in 1..Len(q) : r[i] \in Nodes /\ r[i].server = q[i].server
    BY <1>1 DEF Nodes
  <1>3. r \in [1..Len(q) -> Nodes]
    BY <1>1, <1>2
  <1> HIDE DEF r
  <1>4. r \in Seq(Nodes) /\ Len(r) = Len(q)
    BY <1>1, <1>3, IsASeq, LenProperties
  <1>5. r = [q EXCEPT ![n].freed = TRUE]
    BY DEF r
  <1> QED BY <1>2, <1>4, <1>5

LEMMA RemoveFirstType ==
  ASSUME NEW S, NEW w \in Seq(S), NEW s
  PROVE  RemoveFirst(w, s) \in Seq(S)
  <1> DEFINE I == {i \in 1..Len(w) : w[i] = s}
  <1>1. CASE \E i \in 1..Len(w) : w[i] = s
    <2>1. I \in SUBSET Nat /\ I # {}
      BY <1>1
    <2>2. Min(I) \in I
      BY <2>1, MinIsMember, Zenon
    <2>3. RemoveFirst(w, s) = RemoveAt(w, Min(I))
      BY <1>1 DEF RemoveFirst, SelectInSeq
    <2> DEFINE n == Min(I)
    <2>4. n \in 1..Len(w)
      BY <2>2
    <2> HIDE DEF n
    <2>5. SubSeq(w, 1, n - 1) \in Seq(S) /\ SubSeq(w, n + 1, Len(w)) \in Seq(S)
      BY <2>4
    <2>6. RemoveAt(w, n) \in Seq(S)
      BY <2>5 DEF RemoveAt
    <2> QED BY <2>3, <2>6 DEF n
  <1>2. CASE ~\E i \in 1..Len(w) : w[i] = s
    BY <1>2 DEF RemoveFirst
  <1> QED BY <1>1, <1>2

(* A server that is wanted first, and only once, is removed from the front.*)
LEMMA RemoveFirstHead ==
  ASSUME NEW S, NEW w \in Seq(S), w # <<>>,
         \A i \in 1..Len(w) : w[i] = w[1] => i = 1
  PROVE  RemoveFirst(w, w[1]) = Tail(w)
  <1> DEFINE I == {i \in 1..Len(w) : w[i] = w[1]}
  <1>1. 1 \in 1..Len(w)
    OBVIOUS
  <1>2. I = {1}
    BY <1>1
  <1>3. Min(I) = 1
    BY <1>2 DEF Min
  <1>4. RemoveFirst(w, w[1]) = RemoveAt(w, Min(I))
    BY <1>1, <1>2 DEF RemoveFirst, SelectInSeq
  <1>5. SubSeq(w, 1, 0) = <<>> /\ SubSeq(w, 2, Len(w)) = Tail(w)
    BY <1>1, TailIsSubSeq
  <1>6. RemoveAt(w, 1) = SubSeq(w, 1, 0) \o SubSeq(w, 2, Len(w))
    BY DEF RemoveAt
  <1>7. Tail(w) \in Seq(S)
    OBVIOUS
  <1> QED BY <1>3, <1>4, <1>5, <1>6, <1>7, ConcatEmptySeq
-----------------------------------------------------------------------------
LEMMA InitIInv == Init => IInv
  <1> SUFFICES ASSUME Init PROVE IInv
    OBVIOUS
  <1>1. /\ servers_root = <<>> /\ wanted = <<>>
        /\ dropped = FALSE /\ fault = "none" /\ inner = FALSE
    BY DEF Init
  <1>2. channel \in [Events -> {"null", "heap", "constant", "freed"}]
    BY DEF Init
  <1>3. callback \in [Events -> BOOLEAN]
    BY DEF Init
  <1>4. \A e \in Events : channel[e] # "freed"
    BY DEF Init
  <1>5. TypeOK
    <2>1. servers_root \in Seq([server : Servers, freed : BOOLEAN])
          /\ Len(servers_root) = 0 /\ wanted \in Seq(Servers)
      BY <1>1
    <2>2. inner \in BOOLEAN /\ dropped \in BOOLEAN
      BY <1>1
    <2>3. Len(servers_root) <= MaxServers
      BY <2>1, ListsAssumption
    <2>4. fault = "none"
      BY <1>1
    <2> QED BY <1>2, <1>3, <2>1, <2>2, <2>3, <2>4 DEF TypeOK
  <1>6. Distinct /\ Subscribed /\ FreedOnce
    BY <1>1, <1>4 DEF Distinct, Subscribed, FreedOnce
  <1>7. ListExact
    BY <1>1 DEF ListExact
  <1> QED BY <1>5, <1>6, <1>7 DEF IInv

(* Where the walk for s stops, the function finds s or crashes.            *)
LEMMA EndOfList ==
  ASSUME NEW s, ~Crashes(s), ~Found(s)
  PROVE  \A i \in 1..Len(servers_root) : servers_root[i].server # s
  <1>1. Stops(s) = {}
    BY DEF Crashes, Found
  <1> QED BY <1>1 DEF Stops, StopsAt

LEMMA AddServer ==
  ASSUME IInv, NEW s \in Servers, msq_add_server(s)
  PROVE  IInv'
  <1> USE DEF serverVars, eventVars
  <1>0. TypeOK /\ Distinct /\ Subscribed /\ ListExact /\ FreedOnce
    BY DEF IInv
  <1>1. CASE UNCHANGED vars
    BY <1>0, <1>1 DEF vars, IInv, TypeOK, Distinct, Subscribed, ListExact,
         FreedOnce
  <1>2. CASE /\ ~Found(s) /\ servers_root' = Append(servers_root, Node(s))
             /\ wanted' = Append(wanted, s)
    <2> DEFINE q == servers_root  n == Len(servers_root)
    <2>1. q \in Seq(Nodes) /\ n \in Nat /\ Node(s) \in Nodes
          /\ wanted \in Seq(Servers)
      BY <1>0 DEF TypeOK, Nodes, Node
    <2>2. /\ servers_root' \in Seq(Nodes) /\ Len(servers_root') = n + 1
          /\ servers_root'[n + 1] = Node(s)
          /\ \A i \in 1..n : servers_root'[i] = q[i]
      BY <1>2, <2>1, AppendProperties
    <2>3. \A i \in 1..n : q[i].server # s
      BY <1>2, EndOfList DEF msq_add_server
    <2>4. Distinct'
      <3> SUFFICES ASSUME NEW i \in 1..(n + 1), NEW j \in 1..(n + 1),
                          servers_root'[i].server = servers_root'[j].server
                   PROVE  i = j
        BY <2>2 DEF Distinct
      <3>1. Node(s).server = s
        BY DEF Node
      <3>2. \A h, k \in 1..n : q[h].server = q[k].server => h = k
        BY <1>0 DEF Distinct
      <3>3. i \in 1..n \/ i = n + 1
        BY <2>1
      <3>4. j \in 1..n \/ j = n + 1
        BY <2>1
      <3> HIDE DEF q, n
      <3> QED BY <2>2, <2>3, <3>1, <3>2, <3>3, <3>4
    <2>5. Len(servers_root') <= MaxServers
      BY <2>2, <2>4, ShortList DEF Distinct
    <2>6. /\ wanted' \in Seq(Servers) /\ Len(wanted') = Len(wanted) + 1
          /\ wanted'[Len(wanted) + 1] = s
          /\ \A i \in 1..Len(wanted) : wanted'[i] = wanted[i]
      BY <1>2, <2>1, AppendProperties
    <2>7. UNCHANGED <<inner, channel, callback, dropped, fault>>
      BY DEF msq_add_server
    <2>8. TypeOK'
      BY <1>0, <2>2, <2>5, <2>6, <2>7 DEF TypeOK, Nodes
    <2>9. Subscribed' /\ FreedOnce'
      BY <1>0, <2>7 DEF Subscribed, FreedOnce
    <2>10. ListExact'
      <3> SUFFICES ASSUME ~inner
                   PROVE  /\ servers_root' = [i \in 1..Len(wanted') |->
                                                 Node(wanted'[i])]
                          /\ fault' # "freed_node"
        BY <2>7 DEF ListExact
      <3>1. q = [i \in 1..Len(wanted) |-> Node(wanted[i])]
            /\ fault # "freed_node"
        BY <1>0 DEF ListExact
      <3>2. n = Len(wanted) /\ Len(wanted) \in Nat
        BY <2>1, <3>1
      <3>3. \A i \in 1..(n + 1) : servers_root'[i] = Node(wanted'[i])
        BY <2>1, <2>2, <2>6, <3>1, <3>2
      <3>4. servers_root' \in [1..(n + 1) -> Nodes]
        BY <2>2
      <3> QED BY <2>6, <2>7, <3>1, <3>2, <3>3, <3>4
    <2> QED BY <2>4, <2>8, <2>9, <2>10 DEF IInv
  <1> QED BY <1>1, <1>2 DEF msq_add_server, vars

LEMMA RemoveServer ==
  ASSUME IInv, NEW s \in Servers, _msq_remove_server(s)
  PROVE  IInv'
  <1> USE DEF serverVars, eventVars
  <1>0. TypeOK /\ Distinct /\ Subscribed /\ ListExact /\ FreedOnce
    BY DEF IInv
  <1>1. CASE UNCHANGED vars
    BY <1>0, <1>1 DEF vars, IInv, TypeOK, Distinct, Subscribed, ListExact,
         FreedOnce
  <1>2. CASE Found(s)
    <2> DEFINE q == servers_root  n == Min(Stops(s))
    <2>1. q \in Seq(Nodes) /\ wanted \in Seq(Servers)
      BY <1>0 DEF TypeOK, Nodes
    <2>2. /\ servers_root' = Unlinked(n) /\ inner' = (inner \/ n # 1)
          /\ wanted' = RemoveFirst(wanted, s)
          /\ UNCHANGED <<channel, callback, dropped, fault>>
      BY <1>2 DEF _msq_remove_server
    <2>3. Stops(s) \in SUBSET Nat /\ Stops(s) # {}
      BY <1>2 DEF Found, Stops
    <2>4. n \in 1..Len(q) /\ ~q[n].freed /\ q[n].server = s
      <3>1. n \in Stops(s)
        BY <2>3, MinIsMember, Zenon
      <3> QED BY <1>2, <3>1 DEF Found, Stops, StopsAt
    <2> HIDE DEF n
    <2>5. wanted' \in Seq(Servers)
      BY <2>1, <2>2, RemoveFirstType
    <2>6. servers_root' \in Seq(Nodes) /\ Distinct'
      <3>1. CASE n = 1
        <4>1. q # <<>>
          BY <2>1, <2>4
        <4>2. /\ servers_root' \in Seq(Nodes)
              /\ Len(servers_root') = Len(q) - 1
              /\ \A i \in 1..Len(servers_root') : servers_root'[i] = q[i + 1]
          BY <2>1, <2>2, <3>1, <4>1, HeadTailProperties DEF Unlinked
        <4>3. ASSUME NEW i \in 1..Len(servers_root'),
                     NEW j \in 1..Len(servers_root'),
                     servers_root'[i].server = servers_root'[j].server
              PROVE  i = j
          <5>1. i + 1 \in 1..Len(q) /\ j + 1 \in 1..Len(q)
            BY <2>1, <4>2
          <5>2. q[i + 1].server = q[j + 1].server
            BY <4>2, <4>3
          <5>3. i + 1 = j + 1
            BY <1>0, <5>1, <5>2 DEF Distinct
          <5> QED BY <5>3
        <4> QED BY <4>2, <4>3 DEF Distinct
      <3>2. CASE n # 1
        <4>1. servers_root' = [q EXCEPT ![n].freed = TRUE]
          BY <2>2, <3>2 DEF Unlinked
        <4>2. /\ servers_root' \in Seq(Nodes)
              /\ Len(servers_root') = Len(q)
              /\ \A i \in 1..Len(q) : servers_root'[i].server = q[i].server
          BY <2>1, <4>1, FreedNode
        <4> QED BY <1>0, <4>2 DEF Distinct
      <3> QED BY <3>1, <3>2
    <2>7. Len(servers_root') <= MaxServers
      BY <2>6, ShortList DEF Distinct
    <2>8. inner' \in BOOLEAN
      BY <2>2
    <2>9. TypeOK'
      BY <1>0, <2>2, <2>5, <2>6, <2>7, <2>8 DEF TypeOK, Nodes
    <2>10. Subscribed' /\ FreedOnce'
      BY <1>0, <2>2 DEF Subscribed, FreedOnce
    <2>11. ListExact'
      <3> SUFFICES ASSUME ~inner, n = 1
                   PROVE  /\ servers_root' = [i \in 1..Len(wanted') |->
                                                 Node(wanted'[i])]
                          /\ fault' # "freed_node"
        BY <2>2 DEF ListExact
      <3>1. q = [i \in 1..Len(wanted) |-> Node(wanted[i])]
            /\ fault # "freed_node"
        BY <1>0 DEF ListExact
      <3>2. Len(q) = Len(wanted) /\ Len(wanted) \in Nat
        BY <2>1, <3>1
      <3>3. \A i \in 1..Len(wanted) : q[i].server = wanted[i]
        BY <3>1 DEF Node
      <3>4. wanted # <<>> /\ q # <<>> /\ 1 \in 1..Len(wanted)
        BY <2>1, <2>4, <3>2
      <3>5. wanted[1] = s
        BY <2>4, <3>3, <3>4
      <3>6. \A i \in 1..Len(wanted) : wanted[i] = wanted[1] => i = 1
        BY <1>0, <3>2, <3>3, <3>4 DEF Distinct
      <3>7. wanted' = Tail(wanted)
        BY <2>1, <2>2, <3>4, <3>5, <3>6, RemoveFirstHead
      <3>8. servers_root' = Tail(q)
        BY <2>2 DEF Unlinked
      <3>9. /\ Len(wanted') = Len(wanted) - 1
            /\ \A i \in 1..Len(wanted') : wanted'[i] = wanted[i + 1]
        BY <2>1, <3>4, <3>7, HeadTailProperties
      <3>10. /\ Len(servers_root') = Len(wanted) - 1
             /\ servers_root' \in Seq(Nodes)
             /\ \A i \in 1..Len(wanted') : servers_root'[i] = q[i + 1]
        BY <2>1, <3>2, <3>4, <3>8, <3>9, HeadTailProperties
      <3>11. ASSUME NEW i \in 1..Len(wanted')
             PROVE  servers_root'[i] = Node(wanted'[i])
        <4>1. i + 1 \in 1..Len(wanted)
          BY <3>2, <3>9
        <4> QED BY <3>1, <3>9, <3>10, <4>1
      <3>12. servers_root' \in [1..Len(wanted') -> Nodes]
        BY <3>9, <3>10
      <3> QED BY <2>2, <3>1, <3>11, <3>12
    <2> QED BY <2>6, <2>9, <2>10, <2>11 DEF IInv
  <1> QED BY <1>1, <1>2 DEF _msq_remove_server, vars

LEMMA OtherServerSteps ==
  ASSUME IInv, Running, msq_remove_all_servers \/ walk_freed
  PROVE  IInv'
  <1> USE DEF serverVars, eventVars
  <1>0. TypeOK /\ Distinct /\ Subscribed /\ ListExact /\ FreedOnce
    BY DEF IInv
  <1>1. CASE msq_remove_all_servers
    <2>1. /\ servers_root' = <<>> /\ wanted' = <<>>
          /\ UNCHANGED <<inner, channel, callback, dropped, fault>>
      BY <1>1 DEF msq_remove_all_servers
    <2>2. /\ servers_root' \in Seq(Nodes) /\ Len(servers_root') = 0
          /\ wanted' \in Seq(Servers) /\ Len(wanted') = 0
      BY <2>1
    <2>3. TypeOK'
      BY <1>0, <2>1, <2>2, ListsAssumption DEF TypeOK, Nodes
    <2>4. Distinct' /\ Subscribed' /\ FreedOnce'
      BY <1>0, <2>1, <2>2 DEF Distinct, Subscribed, FreedOnce
    <2>5. ListExact'
      BY <1>0, <2>1, <2>2 DEF ListExact
    <2> QED BY <2>3, <2>4, <2>5 DEF IInv
  <1>2. CASE walk_freed
    <2>1. /\ fault' = "freed_node"
          /\ UNCHANGED <<servers_root, wanted, inner, channel, callback,
                         dropped>>
      BY <1>2 DEF walk_freed
    <2>2. TypeOK'
      BY <1>0, <2>1 DEF TypeOK
    <2>3. Distinct' /\ Subscribed' /\ FreedOnce'
      BY <1>0, <2>1 DEF Distinct, Subscribed, FreedOnce
    <2>4. inner
      <3>1. PICK i \in 1..Len(servers_root) : servers_root[i].freed
        BY <1>2 DEF walk_freed
      <3>2. SUFFICES ASSUME ~inner PROVE FALSE
        OBVIOUS
      <3>3. servers_root = [j \in 1..Len(wanted) |-> Node(wanted[j])]
        BY <1>0, <3>2 DEF ListExact
      <3>4. Len(servers_root) = Len(wanted)
        BY <1>0, <3>3 DEF TypeOK
      <3>5. servers_root[i] = Node(wanted[i])
        BY <3>1, <3>3, <3>4
      <3> QED BY <3>1, <3>5 DEF Node
    <2>5. ListExact'
      BY <2>1, <2>4 DEF ListExact
    <2> QED BY <2>2, <2>3, <2>5 DEF IInv
  <1> QED BY <1>1, <1>2

LEMMA EventSteps ==
  ASSUME IInv, Running, NEW e \in Events,
         \/ msq_add_subscription(e) \/ _msq_remove_subscription(e)
         \/ _msq_drop_all_subscriptions(e)
  PROVE  IInv'
  <1> USE DEF serverVars, eventVars
  <1>0. TypeOK /\ Distinct /\ Subscribed /\ ListExact /\ FreedOnce
    BY DEF IInv
  <1>1. UNCHANGED <<servers_root, wanted, inner>>
    BY DEF msq_add_subscription, _msq_remove_subscription,
         _msq_drop_all_subscriptions
  <1>2. /\ channel' \in [Events -> {"null", "heap", "constant", "freed"}]
        /\ fault' \in {"none", "double_free", "free_constant"}
        /\ fault' = "double_free" => dropped'
    <2>1. CASE msq_add_subscription(e)
      BY <1>0, <2>1 DEF msq_add_subscription, TypeOK, Running
    <2>2. CASE _msq_remove_subscription(e)
      BY <1>0, <2>2 DEF _msq_remove_subscription, TypeOK, Running, FreeFault,
           HasSubscription, Subscribed
    <2>3. CASE _msq_drop_all_subscriptions(e)
      BY <1>0, <2>3 DEF _msq_drop_all_subscriptions, TypeOK, Running, FreeFault
    <2> QED BY <2>1, <2>2, <2>3
  <1>3. callback' \in [Events -> BOOLEAN] /\ dropped' \in BOOLEAN
    BY <1>0 DEF msq_add_subscription, _msq_remove_subscription,
         _msq_drop_all_subscriptions, TypeOK
  <1>4. Subscribed'
    <2>1. CASE msq_add_subscription(e)
      BY <1>0, <2>1 DEF msq_add_subscription, TypeOK, Subscribed
    <2>2. CASE _msq_remove_subscription(e)
      BY <1>0, <2>2 DEF _msq_remove_subscription, TypeOK, Subscribed
    <2>3. CASE _msq_drop_all_subscriptions(e)
      BY <1>0, <2>3 DEF _msq_drop_all_subscriptions, TypeOK, Subscribed
    <2> QED BY <2>1, <2>2, <2>3
  <1>5. TypeOK'
    BY <1>0, <1>1, <1>2, <1>3 DEF TypeOK
  <1>6. Distinct' /\ FreedOnce'
    BY <1>0, <1>1, <1>2 DEF Distinct, FreedOnce
  <1>7. ListExact'
    BY <1>0, <1>1, <1>2 DEF ListExact
  <1> QED BY <1>4, <1>5, <1>6, <1>7 DEF IInv

LEMMA Inductive == Spec => []IInv
  <1>1. IInv /\ [Next]_vars => IInv'
    <2> SUFFICES ASSUME IInv, [Next]_vars PROVE IInv'
      OBVIOUS
    <2>1. CASE UNCHANGED vars
      BY <2>1 DEF vars, serverVars, eventVars, IInv, TypeOK, Distinct,
           Subscribed, ListExact, FreedOnce
    <2> QED BY <2>1, AddServer, RemoveServer, OtherServerSteps, EventSteps
            DEF Next
  <1> QED BY InitIInv, <1>1, PTL DEF Spec
-----------------------------------------------------------------------------
(***************************************************************************)
(* The variables keep their types; the list, with the freed nodes that     *)
(* _msq_remove_server leaves in it, never has more nodes than the client   *)
(* has servers to give to msq_add_server.                                  *)
(***************************************************************************)
THEOREM TypeCorrect == Spec => []TypeOK
  <1>1. IInv => TypeOK
    BY DEF IInv
  <1> QED BY Inductive, <1>1, PTL

(***************************************************************************)
(* For any servers: while _msq_remove_server has only taken out the first, *)
(* the list is exactly the servers added and not removed, in their order,  *)
(* and no function walks into freed memory.                                *)
(***************************************************************************)
THEOREM ListIsExact == Spec => []ListExact
  <1>1. IInv => ListExact
    BY DEF IInv
  <1> QED BY Inductive, <1>1, PTL

(***************************************************************************)
(* No sequence of msq_add_subscription and _msq_remove_subscription frees  *)
(* a channel twice, for any event types; _msq_drop_all_subscriptions does. *)
(***************************************************************************)
THEOREM NoDoubleFree == Spec => []FreedOnce
  <1>1. IInv => FreedOnce
    BY DEF IInv
  <1> QED BY Inductive, <1>1, PTL
=============================================================================
