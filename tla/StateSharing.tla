---------------------------- MODULE StateSharing ----------------------------
(***************************************************************************)
(* What a cluster of res_redis servers promises about the states of their  *)
(* devices, without event queues, caches, phases of loading or a publisher *)
(* connection: the owner of a device announces states it really had, every *)
(* member is given every announcement in one common order, only these tell *)
(* a server anything of another's device, and nothing but the device tells *)
(* its owner.  RedisCluster implements it.                                 *)
(***************************************************************************)
EXTENDS Naturals, Sequences

CONSTANT Nodes

VARIABLES state,    \* state[o]: the state of o's device, numbered
          known,    \* known[n][o]: what n believes it to be, 0: nothing
          members,  \* who is given announcements
          pending   \* announcements a member has not been handed yet

vars == <<state, known, members, pending>>

Init == /\ state = [o \in Nodes |-> 0]
        /\ known = [n \in Nodes |-> [o \in Nodes |-> 0]]
        /\ members = {}
        /\ pending = [n \in Nodes |-> <<>>]

Change(o) == /\ state' = [state EXCEPT ![o] = @ + 1]
             /\ known' = [known EXCEPT ![o][o] = state[o] + 1]
             /\ UNCHANGED <<members, pending>>

Announce(o, v) ==
  /\ v \in 1..state[o]
  /\ pending' = [n \in Nodes |->
                   IF n \in members
                     THEN Append(pending[n], [origin |-> o, ver |-> v])
                     ELSE pending[n]]
  /\ UNCHANGED <<state, known, members>>

Join(n) == /\ members' = members \cup {n}
           /\ UNCHANGED <<state, known, pending>>

Learn(n) ==
  /\ pending[n] # <<>>
  /\ pending' = [pending EXCEPT ![n] = Tail(@)]
  /\ LET m == Head(pending[n])
     IN  known' = IF m.origin = n THEN known
                  ELSE [known EXCEPT ![n][m.origin] = m.ver]
  /\ UNCHANGED <<state, members>>

Forget(n) == /\ known' = [known EXCEPT ![n] = [o \in Nodes |-> 0]]
             /\ members' = members \ {n}
             /\ pending' = [pending EXCEPT ![n] = <<>>]
             /\ UNCHANGED state

Next == \E n \in Nodes : \/ Change(n) \/ Join(n) \/ Learn(n) \/ Forget(n)
                         \/ \E v \in 1..state[n] : Announce(n, v)

Spec == Init /\ [][Next]_vars
=============================================================================
