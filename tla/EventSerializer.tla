-------------------------- MODULE EventSerializer --------------------------
(***************************************************************************)
(* lib/ast_event_message_serializer.c: message2json writes an event as one *)
(* line of JSON into a buffer of MAX_EVENT_LENGTH characters, json2message *)
(* makes an event of such a line, on the server that sent it or another.   *)
(*                                                                         *)
(* An event is a sequence of information elements (IEs).  A line is a      *)
(* sequence of parts: the key of an entry with its colon, the value of an  *)
(* entry, or bare text between two commas.  A part is what the end of the  *)
(* buffer can cut; characters are not modelled.                            *)
(***************************************************************************)
EXTENDS Integers, Sequences

CONSTANTS MaxIEs,   \* bound on the IEs of an event, its EntityID not counted
          BufLen    \* parts that fit into the buffer

ASSUME SerializerAssumption == MaxIEs \in Nat /\ BufLen \in Nat \ {0}

(* Kinds of IE, by how they are encoded.  "text" is a string without a     *)
(* comma, "list" one with a comma, "raw" a raw IE that is not an EntityID. *)
Ies == {[ie |-> k, val |-> v] : k \in {"newmsgs", "cachable"},
                                   v \in {"0", "1"}}
         \cup {[ie |-> "state", val |-> "1"], [ie |-> "text", val |-> "string"],
               [ie |-> "list", val |-> "string"],
               [ie |-> "raw", val |-> "string"]}
Eid(n) == [ie |-> "eid", val |-> n]

(* The server the event originates on, and another one.                    *)
Origin == "origin"
Hosts  == {Origin, "other"}

(* Asterisk gives every new event the EntityID of its server, as last IE.  *)
Events == {s \o <<Eid(Origin)>> : s \in UNION {[1..k -> Ies] : k \in 0..MaxIEs}}

VARIABLES
  pc,         \* encode, close, decode, done
  event,      \* the event given to message2json
  host,       \* the server that runs json2message
  i,          \* the iterator over event, then the position in msg
  msg, cut,   \* the line so far; did the buffer end?
  decoded,    \* the event json2message builds
  cacheable,  \* *cacheable
  res         \* the result of json2message; "fault": a NULL value was used

vars == <<pc, event, host, i, msg, cut, decoded, cacheable, res>>

Init ==
  /\ pc = "encode" /\ i = 1
  /\ event \in Events /\ host \in Hosts
  /\ msg = <<>> /\ cut = FALSE
  /\ decoded = <<>> /\ cacheable = FALSE /\ res = "none"
-----------------------------------------------------------------------------
(* message2json.                                                           *)

Key(k) == [part |-> "key", of |-> k]
Val(v) == [part |-> "val", of |-> v]
Bare   == [part |-> "bare", of |-> "string"]

(* A state's name written without a key.                                   *)
Encoded_BareName(e) ==
  CASE e.ie = "state" -> <<Key(e.ie), Val(e.val), Bare>>
    [] e.ie = "list"  -> <<Key(e.ie), Val("half"), Bare>>
    [] e.ie = "raw"   -> <<Bare>>
    [] OTHER          -> <<Key(e.ie), Val(e.val)>>

(* What one IE adds to the line.  A state is followed by its name, a raw   *)
(* IE has no key.  No IE of an event has the payload types EXISTS and      *)
(* UNKNOWN, which Asterisk uses in subscriptions only.                     *)
Encoded(e) ==
  CASE e.ie = "state" -> <<Key(e.ie), Val(e.val), Key("statestr"), Val("name")>>
    [] e.ie = "list"  -> <<Key(e.ie), Val("half"), Bare>>
    [] e.ie = "raw"   -> <<Bare>>
    [] OTHER          -> <<Key(e.ie), Val(e.val)>>

Shorter(m, n) == IF m < n THEN m ELSE n

(* sprintf in place of snprintf.                                           *)
encode_ie_Unbounded ==
  /\ pc = "encode"
  /\ msg' = msg \o Encoded(event[i])
  /\ i' = i + 1
  /\ pc' = IF i' > Len(event) THEN "close" ELSE "encode"
  /\ UNCHANGED <<event, host, cut, decoded, cacheable, res>>

(* One turn of the loop: snprintf into what is left of the buffer.         *)
encode_ie ==
  /\ pc = "encode"
  /\ LET line == msg \o Encoded(event[i])
     IN  /\ msg' = SubSeq(line, 1, Shorter(Len(line), BufLen))
         /\ cut' = (cut \/ Len(line) > BufLen)
  /\ i' = i + 1
  /\ pc' = IF i' > Len(event) THEN "close" ELSE "encode"
  /\ UNCHANGED <<event, host, decoded, cacheable, res>>

(* What can be left of the last part when the buffer ended within it or    *)
(* right after it, and its last character became the closing brace.        *)
CutPart(p) ==
  CASE p.part = "key"  -> {<<Bare>>, <<p, Val("cut")>>}
    [] p.part = "val"  -> {<<p>>, <<Val("cut")>>}
    [] p.part = "bare" -> {<<p>>}

(* The last character is replaced: a comma, unless the line was cut.       *)
close_line ==
  /\ pc = "close"
  /\ pc' = "decode" /\ i' = 1
  /\ \/ ~cut /\ UNCHANGED msg
     \/ cut /\ \E p \in CutPart(msg[Len(msg)]) :
                 msg' = SubSeq(msg, 1, Len(msg) - 1) \o p
  /\ UNCHANGED <<event, host, cut, decoded, cacheable, res>>
-----------------------------------------------------------------------------
(* json2message.                                                           *)

(* atoi of a value.                                                        *)
Atoi(v) == IF v \in {"0", "1"} THEN v ELSE "0"

(* The IE appended for a key and its value.                                *)
Appended(k, v) ==
  [ie |-> k, val |-> IF k \in {"newmsgs", "cachable", "state"}
                       THEN Atoi(v) ELSE v]

(* ie_maps has an entry for every key but statestr.                        *)
KnownKey_Any(k) == TRUE
KnownKey(k) == k # "statestr"

(* The comparison with the server's own EntityID is forgotten.             *)
IsOwnEid_Never(k, v) == FALSE
IsOwnEid(k, v) == k = "eid" /\ v = host

(* An entry without a colon: its value is NULL, and is trimmed.            *)
decode_bare ==
  /\ pc = "decode" /\ i <= Len(msg) /\ msg[i].part = "bare"
  /\ res' = "fault" /\ pc' = "done"
  /\ UNCHANGED <<event, host, i, msg, cut, decoded, cacheable>>

(* An entry: give up if it is the own EntityID, skip it if the key is not  *)
(* known, append it otherwise.                                             *)
decode_entry ==
  /\ pc = "decode" /\ i <= Len(msg) /\ msg[i].part = "key"
  /\ LET k == msg[i].of
         v == msg[i + 1].of
     IN  \/ /\ IsOwnEid(k, v)
            /\ res' = "EID_SELF_EXCEPTION" /\ pc' = "done"
            /\ UNCHANGED <<i, decoded, cacheable>>
         \/ /\ ~IsOwnEid(k, v)
            /\ i' = i + 2
            /\ decoded' = IF KnownKey(k) THEN Append(decoded, Appended(k, v))
                                         ELSE decoded
            /\ cacheable' = IF k = "cachable" THEN Atoi(v) = "1" ELSE cacheable
            /\ UNCHANGED <<pc, res>>
  /\ UNCHANGED <<event, host, msg, cut>>

HasEid(e) == \E j \in 1..Len(e) : e[j].ie = "eid"

(* The line ends: an event without an EntityID gets this server's.         *)
decode_end ==
  /\ pc = "decode" /\ i > Len(msg)
  /\ pc' = "done" /\ res' = "NO_EXCEPTION"
  /\ decoded' = IF HasEid(decoded) THEN decoded ELSE Append(decoded, Eid(host))
  /\ UNCHANGED <<event, host, i, msg, cut, cacheable>>

Next == encode_ie \/ close_line \/ decode_bare \/ decode_entry \/ decode_end

Spec == Init /\ [][Next]_vars
-----------------------------------------------------------------------------
Results == {"none", "NO_EXCEPTION", "EID_SELF_EXCEPTION", "fault"}

(* The line never outgrows its buffer (but for the brace that may stand    *)
(* for the value after a key), and the iterator stays inside the event.    *)
TypeOK ==
  /\ pc \in {"encode", "close", "decode", "done"}
  /\ event \in Events /\ host \in Hosts
  /\ i \in 1..(BufLen + 2) \cup 1..(Len(event) + 1)
  /\ Len(msg) <= BufLen + 1
  /\ cut \in BOOLEAN /\ cacheable \in BOOLEAN
  /\ res \in Results

Has(e, k) == \E j \in 1..Len(e) : e[j].ie = k

(* Events without a comma in a string and without a raw IE but EntityID.   *)
Plain(e) == ~Has(e, "list") /\ ~Has(e, "raw")

(* The last Cachable IE counts.                                            *)
ToBeCached(e) == \E j \in 1..Len(e) :
                   /\ e[j] = [ie |-> "cachable", val |-> "1"]
                   /\ \A l \in (j + 1)..Len(e) : e[l].ie # "cachable"

(* Another server decodes a plain event that fits into the buffer to the   *)
(* same IEs in the same order, with the sender's EntityID, and caches it   *)
(* if they say so.                                                         *)
RoundTrip ==
  pc = "done" /\ host # Origin /\ Plain(event) /\ ~cut =>
    /\ res = "NO_EXCEPTION" /\ decoded = event
    /\ cacheable = ToBeCached(event)

(* A server takes a message of its own for news only if the buffer cut it: *)
(* then the EntityID at its end is lost, json2message appends the server's *)
(* and the event is sent out once more.                                    *)
OwnMessageRecognised ==
  pc = "done" /\ host = Origin /\ res = "NO_EXCEPTION" => cut

(* json2message trims a NULL value only if the event had a string with a   *)
(* comma or a raw IE, or if the buffer ended within a key.                 *)
NullValueNeedsCause ==
  res = "fault" => Has(event, "list") \/ Has(event, "raw") \/ cut
=============================================================================
