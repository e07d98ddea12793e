----------------------- MODULE EventSerializerProofs -----------------------
(***************************************************************************)
(* Theorems about EventSerializer, for events of any length and a buffer   *)
(* of any size: the types, RoundTrip, OwnMessageRecognised and             *)
(* NullValueNeedsCause.                                                    *)
(*                                                                         *)
(* The line of an event that fits is laid out by offsets: off[j] is where  *)
(* the parts of its IE j begin (Laid).  message2json extends the offsets   *)
(* by one IE with every turn of its loop.  json2message is always at the   *)
(* first part of some IE, with the IEs before it decoded, or behind the    *)
(* first two parts of an IE that has more (DecodeInv).  So what the two    *)
(* loops compute follows from their steps, with no induction over events.  *)
(***************************************************************************)
EXTENDS EventSerializer, SequenceTheorems, TLAPS

(* Keys and values.                                                        *)
Texts == {"newmsgs", "cachable", "state", "text", "list", "raw", "eid",
          "statestr", "0", "1", "string", "half", "name", "cut", "origin",
          "other"}
Parts == [part : {"key", "val", "bare"}, of : Texts]
Pairs == [ie : Texts, val : Texts]

Size(j) == Len(Encoded(event[j]))

(* The parts of the first n - 1 IEs are the line.                          *)
Laid(off, n) ==
  /\ off[1] = 1 /\ off[n] = Len(msg) + 1
  /\ \A j \in 1..(n - 1) :
       /\ off[j + 1] = off[j] + Size(j)
       /\ off[j] + Size(j) <= Len(msg) + 1
       /\ \A k \in 1..Size(j) : msg[off[j] + k - 1] = Encoded(event[j])[k]

Offsets(n) == [1..n -> 1..(Len(msg) + 1)]

(* While the line is written: its length, and its layout unless it is cut. *)
EncodeInv ==
  /\ pc = "encode" => i \in 1..Len(event)
  /\ pc = "close" => i = Len(event) + 1
  /\ pc \in {"encode", "close"} =>
       /\ Len(msg) <= BufLen /\ (cut => Len(msg) = BufLen)
       /\ ~cut => \E off \in Offsets(i) : Laid(off, i)
       /\ ~cut /\ msg # <<>> => msg[Len(msg)].part # "key"
       /\ decoded = <<>> /\ ~cacheable

(* json2message is at the first part of IE n ...                           *)
AtStart(off, n) ==
  /\ i = off[n]
  /\ host = Origin => n <= Len(event)
  /\ decoded = SubSeq(event, 1, n - 1)

(* ... or has read the key and the value of an IE that is a state or a     *)
(* string with a comma.                                                    *)
AtRest(off, n) ==
  /\ n < Len(event) /\ event[n].ie \in {"state", "list"}
  /\ i = off[n] + 2
  /\ event[n].ie = "state" => decoded = SubSeq(event, 1, n)

DecodeInv ==
  /\ pc \in {"decode", "done"} =>
       /\ i \in 1..(Len(msg) + 1)
       /\ msg # <<>> => msg[Len(msg)].part # "key"
  /\ pc = "decode" /\ ~cut =>
       \E off \in Offsets(Len(event) + 1), n \in 1..(Len(event) + 1) :
         /\ Laid(off, Len(event) + 1)
         /\ AtStart(off, n) \/ AtRest(off, n)
  /\ pc = "decode" => /\ decoded \in Seq(Pairs)
                      /\ cacheable <=> ToBeCached(decoded)

(* What the end of json2message says of the event.                         *)
DoneInv ==
  /\ pc # "done" <=> res = "none"
  /\ pc = "done" /\ ~cut =>
       /\ res = "fault" => ~Plain(event)
       /\ res = "EID_SELF_EXCEPTION" => host = Origin
       /\ res = "NO_EXCEPTION" => /\ host # Origin /\ decoded = event
                                  /\ cacheable <=> ToBeCached(event)

IInv == /\ TypeOK /\ msg \in Seq(Parts)
        /\ EncodeInv /\ DecodeInv /\ DoneInv
-----------------------------------------------------------------------------
(* IEs and their parts.                                                    *)

Kinds == {"newmsgs", "cachable", "state", "text", "list", "raw"}

LEMMA IeFacts ==
  ASSUME NEW e \in Ies
  PROVE  /\ e \in Pairs /\ e.ie \in Kinds
         /\ e.ie \in {"newmsgs", "cachable"} => e.val \in {"0", "1"}
         /\ e.ie = "state" => e.val = "1"
  BY DEF Ies, Pairs, Kinds, Texts

LEMMA EidFacts ==
  Eid(Origin) \in Pairs /\ Eid(Origin).ie = "eid" /\ Eid(Origin).val = Origin
  BY DEF Eid, Origin, Pairs, Texts

(* An event: IEs, and the EntityID of its server at the end.               *)
LEMMA EventFacts ==
  ASSUME NEW ev \in Events
  PROVE  /\ ev \in Seq(Pairs) /\ Len(ev) \in Nat /\ Len(ev) >= 1
         /\ ev[Len(ev)] = Eid(Origin)
         /\ \A j \in 1..Len(ev) : j < Len(ev) => ev[j] \in Ies
  <1>0. PICK k \in 0..MaxIEs :
          \E q \in [1..k -> Ies] : ev = q \o <<Eid(Origin)>>
    BY DEF Events
  <1>1. PICK q \in [1..k -> Ies] : ev = q \o <<Eid(Origin)>>
    BY <1>0
  <1>2. k \in Nat
    BY SerializerAssumption
  <1>3. q \in Seq(Ies) /\ Len(q) = k
    BY <1>1, <1>2, IsASeq, LenProperties
  <1>4. q \in Seq(Pairs)
    <2>1. \A j \in 1..k : q[j] \in Pairs
      BY IeFacts
    <2> QED BY <1>2, <1>3, <2>1, IsASeq
  <1>5. <<Eid(Origin)>> \in Seq(Pairs) /\ Len(<<Eid(Origin)>>) = 1
        /\ <<Eid(Origin)>>[1] = Eid(Origin)
    BY EidFacts
  <1>6. /\ ev \in Seq(Pairs) /\ Len(ev) = k + 1
        /\ \A j \in 1..(k + 1) :
             ev[j] = IF j <= k THEN q[j] ELSE <<Eid(Origin)>>[j - k]
    BY <1>1, <1>3, <1>4, <1>5, ConcatProperties
  <1> QED BY <1>2, <1>3, <1>5, <1>6

(* The parts of an IE.                                                     *)
LEMMA EncodedFacts ==
  ASSUME NEW e \in Pairs, e.ie \in Kinds \cup {"eid"}
  PROVE  /\ Encoded(e) \in Seq(Parts)
         /\ Len(Encoded(e)) = CASE e.ie = "state" -> 4 [] e.ie = "list" -> 3
                                [] e.ie = "raw" -> 1 [] OTHER -> 2
         /\ Encoded(e)[Len(Encoded(e))].part # "key"
         /\ e.ie = "raw" => Encoded(e)[1].part = "bare"
         /\ e.ie # "raw" => Encoded(e)[1] = Key(e.ie)
         /\ e.ie \notin {"raw", "list"} => Encoded(e)[2] = Val(e.val)
         /\ e.ie = "state" => Encoded(e)[3] = Key("statestr")
         /\ e.ie = "list" => Encoded(e)[3].part = "bare"
  <1>1. CASE e.ie = "state"
    <2>1. Encoded(e) = <<Key(e.ie), Val(e.val), Key("statestr"), Val("name")>>
      BY <1>1 DEF Encoded
    <2> QED BY <1>1, <2>1 DEF Key, Val, Parts, Pairs, Texts
  <1>2. CASE e.ie = "list"
    <2>1. Encoded(e) = <<Key(e.ie), Val("half"), Bare>>
      BY <1>2 DEF Encoded
    <2> QED BY <1>2, <2>1 DEF Key, Val, Bare, Parts, Pairs, Texts
  <1>3. CASE e.ie = "raw"
    <2>1. Encoded(e) = <<Bare>>
      BY <1>3 DEF Encoded
    <2> QED BY <1>3, <2>1 DEF Bare, Parts, Texts
  <1>4. CASE e.ie \notin {"state", "list", "raw"}
    <2>1. Encoded(e) = <<Key(e.ie), Val(e.val)>>
      BY <1>4 DEF Encoded
    <2> QED BY <1>4, <2>1 DEF Key, Val, Parts, Pairs, Texts
  <1> QED BY <1>1, <1>2, <1>3, <1>4

(* The IE of an event that json2message appends is the one encoded.        *)
LEMMA SameAppended ==
  ASSUME NEW e \in Pairs, e \in Ies \/ e = Eid(Origin), e.ie # "list"
  PROVE  Appended(e.ie, e.val) = e
  <1>1. e.ie \in {"newmsgs", "cachable", "state"} => Atoi(e.val) = e.val
    BY IeFacts, EidFacts DEF Atoi
  <1>2. Appended(e.ie, e.val) = [ie |-> e.ie, val |-> e.val]
    BY <1>1 DEF Appended
  <1> QED BY <1>2 DEF Pairs

(* An IE appended to an event decides over its caching if it is Cachable.  *)
LEMMA CachedAppend ==
  ASSUME NEW d \in Seq(Pairs), NEW e \in Pairs
  PROVE  ToBeCached(Append(d, e)) <=> IF e.ie = "cachable" THEN e.val = "1"
                                      ELSE ToBeCached(d)
  <1> DEFINE a == Append(d, e)  n == Len(d)
  <1>1. /\ n \in Nat /\ Len(a) = n + 1 /\ a[n + 1] = e
        /\ \A j \in 1..n : a[j] = d[j]
    BY AppendProperties
  <1>2. e = [ie |-> e.ie, val |-> e.val]
    BY DEF Pairs
  <1> HIDE DEF a
  <1>3. CASE e.ie = "cachable"
    <2>1. ASSUME e.val = "1" PROVE ToBeCached(a)
      <3>1. a[n + 1] = [ie |-> "cachable", val |-> "1"]
        BY <1>1, <1>2, <1>3, <2>1
      <3>2. \A l \in ((n + 1) + 1)..Len(a) : FALSE
        BY <1>1
      <3> QED BY <1>1, <3>1, <3>2 DEF ToBeCached
    <2>2. ASSUME ToBeCached(a) PROVE e.val = "1"
      <3>1. PICK j \in 1..(n + 1) :
              /\ a[j] = [ie |-> "cachable", val |-> "1"]
              /\ \A l \in (j + 1)..(n + 1) : a[l].ie # "cachable"
        BY <1>1, <2>2 DEF ToBeCached
      <3>2. j = n + 1
        BY <1>1, <1>3, <3>1
      <3>3. e = [ie |-> "cachable", val |-> "1"]
        BY <1>1, <3>1, <3>2
      <3> QED BY <3>3
    <2> QED BY <1>3, <2>1, <2>2 DEF a
  <1>4. CASE e.ie # "cachable"
    <2>1. ASSUME ToBeCached(d) PROVE ToBeCached(a)
      <3>1. PICK j \in 1..n :
              /\ d[j] = [ie |-> "cachable", val |-> "1"]
              /\ \A l \in (j + 1)..n : d[l].ie # "cachable"
        BY <2>1 DEF ToBeCached
      <3>2. a[j] = [ie |-> "cachable", val |-> "1"]
        BY <1>1, <3>1
      <3>3. \A l \in (j + 1)..(n + 1) : a[l].ie # "cachable"
        BY <1>1, <1>4, <3>1
      <3> QED BY <1>1, <3>2, <3>3 DEF ToBeCached
    <2>2. ASSUME ToBeCached(a) PROVE ToBeCached(d)
      <3>1. PICK j \in 1..(n + 1) :
              /\ a[j] = [ie |-> "cachable", val |-> "1"]
              /\ \A l \in (j + 1)..(n + 1) : a[l].ie # "cachable"
        BY <1>1, <2>2 DEF ToBeCached
      <3>2. j \in 1..n
        BY <1>1, <1>4, <3>1
      <3>3. d[j] = [ie |-> "cachable", val |-> "1"]
        BY <1>1, <3>1, <3>2
      <3>4. \A l \in (j + 1)..n : d[l].ie # "cachable"
        BY <1>1, <3>1, <3>2
      <3> QED BY <3>2, <3>3, <3>4 DEF ToBeCached
    <2> QED BY <1>4, <2>1, <2>2 DEF a
  <1> QED BY <1>3, <1>4
-----------------------------------------------------------------------------
LEMMA IeOfEvent ==
  ASSUME NEW ev \in Events, NEW j \in 1..Len(ev)
  PROVE  /\ ev[j] \in Pairs /\ ev[j].ie \in Kinds \cup {"eid"}
         /\ ev[j].ie = "eid" <=> j = Len(ev)
         /\ ev[j] \in Ies \/ ev[j] = Eid(Origin)
  <1>1. CASE j = Len(ev)
    BY <1>1, EventFacts, EidFacts
  <1>2. CASE j # Len(ev)
    <2>1. ev[j] \in Ies
      BY <1>2, EventFacts
    <2> QED BY <1>2, <2>1, IeFacts DEF Kinds
  <1> QED BY <1>1, <1>2

LEMMA InitIInv == Init => IInv
  <1> SUFFICES ASSUME Init PROVE IInv
    OBVIOUS
  <1>1. /\ pc = "encode" /\ i = 1 /\ event \in Events /\ host \in Hosts
        /\ msg = <<>> /\ decoded = <<>> /\ res = "none"
        /\ cut = FALSE /\ cacheable = FALSE
    BY DEF Init
  <1>2. Len(event) \in Nat /\ Len(event) >= 1
    BY <1>1, EventFacts
  <1>3. msg \in Seq(Parts) /\ Len(msg) = 0
    BY <1>1
  <1>4. TypeOK
    <2>1. cut \in BOOLEAN /\ cacheable \in BOOLEAN
      BY <1>1
    <2>2. i \in 1..(Len(event) + 1) /\ Len(msg) <= BufLen + 1
      BY <1>1, <1>2, <1>3, SerializerAssumption
    <2>3. res \in Results
      BY <1>1 DEF Results
    <2> QED BY <1>1, <2>1, <2>2, <2>3 DEF TypeOK
  <1>5. EncodeInv
    <2> DEFINE off == [j \in 1..1 |-> 1]
    <2>1. off \in Offsets(i) /\ Laid(off, i)
      BY <1>1, <1>3 DEF Offsets, Laid
    <2>2. i \in 1..Len(event) /\ Len(msg) <= BufLen
      BY <1>1, <1>2, <1>3, SerializerAssumption
    <2> QED BY <1>1, <2>1, <2>2 DEF EncodeInv
  <1>6. DecodeInv /\ DoneInv
    BY <1>1 DEF DecodeInv, DoneInv
  <1> QED BY <1>3, <1>4, <1>5, <1>6 DEF IInv

LEMMA EncodeStep ==
  ASSUME IInv, encode_ie
  PROVE  IInv'
  <1> DEFINE x == Encoded(event[i])  line == msg \o x
  <1>1. /\ pc = "encode" /\ i' = i + 1
        /\ msg' = SubSeq(line, 1, Shorter(Len(line), BufLen))
        /\ cut' = (cut \/ Len(line) > BufLen)
        /\ pc' = IF i' > Len(event) THEN "close" ELSE "encode"
        /\ UNCHANGED <<event, host, decoded, cacheable, res>>
    BY DEF encode_ie
  <1>2. /\ event \in Events /\ host \in Hosts /\ cut \in BOOLEAN
        /\ cacheable \in BOOLEAN /\ res \in Results /\ msg \in Seq(Parts)
    BY DEF IInv, TypeOK
  <1>3. /\ i \in 1..Len(event) /\ Len(event) \in Nat
        /\ Len(msg) <= BufLen /\ (cut => Len(msg) = BufLen)
        /\ ~cut => \E off \in Offsets(i) : Laid(off, i)
        /\ decoded = <<>> /\ ~cacheable
    BY <1>1, <1>2, EventFacts DEF IInv, EncodeInv
  <1>4. event[i] \in Pairs /\ event[i].ie \in Kinds \cup {"eid"}
    BY <1>2, <1>3, IeOfEvent
  <1>5. /\ x \in Seq(Parts) /\ Len(x) \in {1, 2, 3, 4}
        /\ x[Len(x)].part # "key"
    BY <1>4, EncodedFacts
  <1>n. BufLen \in Nat /\ BufLen # 0 /\ Len(msg) \in Nat
    BY <1>2, SerializerAssumption
  <1> HIDE DEF x
  <1>6. /\ line \in Seq(Parts) /\ Len(line) = Len(msg) + Len(x)
        /\ \A j \in 1..(Len(msg) + Len(x)) :
             line[j] = IF j <= Len(msg) THEN msg[j] ELSE x[j - Len(msg)]
    BY <1>2, <1>5, ConcatProperties
  <1> HIDE DEF line
  <1>7. msg' \in Seq(Parts) /\ Len(msg') = Shorter(Len(line), BufLen)
    <2>1. Shorter(Len(line), BufLen) \in 0..Len(line)
      BY <1>5, <1>n, <1>6 DEF Shorter
    <2> QED BY <1>1, <1>6, <2>1
  <1>8. cut' \in BOOLEAN /\ (cut' <=> cut \/ Len(line) > BufLen)
    BY <1>1
  <1>9. Len(msg') <= BufLen /\ (cut' => Len(msg') = BufLen)
    BY <1>3, <1>5, <1>n, <1>6, <1>7, <1>8 DEF Shorter
  <1>10. ASSUME ~cut' PROVE msg' = line /\ ~cut
    BY <1>1, <1>5, <1>n, <1>6, <1>8, <1>10 DEF Shorter
  <1>11. ~cut' /\ msg' # <<>> => msg'[Len(msg')].part # "key"
    <2> SUFFICES ASSUME ~cut' PROVE msg'[Len(msg')].part # "key"
      OBVIOUS
    <2>1. line[Len(msg) + Len(x)] = x[Len(x)]
      <3>1. /\ Len(msg) + Len(x) \in 1..(Len(msg) + Len(x))
            /\ ~(Len(msg) + Len(x) <= Len(msg))
            /\ (Len(msg) + Len(x)) - Len(msg) = Len(x)
        BY <1>5, <1>n
      <3> QED BY <1>6, <3>1
    <2> QED BY <1>5, <1>6, <1>10, <2>1
  <1>12. i' \in 1..(Len(event) + 1)
         /\ (pc' = "encode" => i' \in 1..Len(event))
         /\ (pc' = "close" => i' = Len(event) + 1)
         /\ pc' \in {"encode", "close"}
    BY <1>1, <1>3
  <1>13. ASSUME ~cut' PROVE \E off \in Offsets(i)' : Laid(off, i)'
    <2>1. PICK off \in Offsets(i) : Laid(off, i)
      BY <1>3, <1>10, <1>13
    <2> DEFINE m == Len(msg)  z == Len(x)
    <2>2. /\ off[1] = 1 /\ off[i] = m + 1
          /\ \A j \in 1..(i - 1) :
               /\ off[j + 1] = off[j] + Size(j)
               /\ off[j] + Size(j) <= m + 1
               /\ \A k \in 1..Size(j) :
                    msg[off[j] + k - 1] = Encoded(event[j])[k]
      BY <2>1 DEF Laid
    <2>3. off \in [1..i -> 1..(m + 1)]
      BY <2>1 DEF Offsets
    <2>4. /\ Len(msg') = m + z /\ m \in Nat /\ z \in {1, 2, 3, 4} /\ i \in Nat
          /\ i >= 1
      BY <1>3, <1>5, <1>n, <1>6, <1>10, <1>13
    <2>5. /\ \A j \in 1..m : msg'[j] = msg[j]
          /\ \A j \in 1..z : msg'[m + j] = x[j]
      <3>1. msg' = line
        BY <1>10, <1>13
      <3>2. ASSUME NEW j \in 1..m PROVE msg'[j] = msg[j]
        BY <1>5, <1>n, <1>6, <3>1
      <3>3. ASSUME NEW j \in 1..z PROVE msg'[m + j] = x[j]
        <4>1. m + j \in 1..(m + z) /\ ~(m + j <= m) /\ (m + j) - m = j
          BY <1>5, <1>n
        <4> QED BY <1>6, <3>1, <4>1
      <3> QED BY <3>2, <3>3
    <2>6. Size(i) = z /\ Encoded(event[i]) = x
      BY DEF Size, x
    <2>7. \A j \in 1..(i - 1) : Size(j) \in Nat
      <3> TAKE j \in 1..(i - 1)
      <3>1. j \in 1..Len(event)
        BY <1>3
      <3>2. Encoded(event[j]) \in Seq(Parts)
        BY <1>2, <3>1, IeOfEvent, EncodedFacts
      <3> QED BY <3>2 DEF Size
    <2> HIDE DEF m, z
    <2>p. PICK new : new = [j \in 1..(i + 1) |-> IF j <= i THEN off[j]
                                                 ELSE m + z + 1]
      OBVIOUS
    <2>8. new \in [1..(i + 1) -> 1..(m + z + 1)]
      BY <2>3, <2>4, <2>p
    <2>9. /\ \A j \in 1..i : new[j] = off[j]
          /\ new[i + 1] = m + z + 1
      BY <2>4, <2>p
    <2>10. ASSUME NEW j \in 1..i
           PROVE  /\ new[j + 1] = new[j] + Size(j)
                  /\ new[j] + Size(j) <= m + z + 1
                  /\ \A k \in 1..Size(j) :
                       msg'[new[j] + k - 1] = Encoded(event[j])[k]
      <3>1. CASE j = i
        <4>1. new[j] = m + 1 /\ new[j + 1] = m + z + 1 /\ Size(j) = z
          BY <2>2, <2>4, <2>6, <2>9, <3>1
        <4>2. ASSUME NEW k \in 1..z
              PROVE  msg'[new[j] + k - 1] = Encoded(event[j])[k]
          <5>1. new[j] + k - 1 = m + k
            BY <2>4, <4>1
          <5> QED BY <2>5, <2>6, <3>1, <5>1
        <4> QED BY <2>4, <4>1, <4>2
      <3>2. CASE j # i
        <4>1. j \in 1..(i - 1) /\ j + 1 \in 1..i /\ j \in 1..i
          BY <2>4, <3>2
        <4>2. new[j] = off[j] /\ new[j + 1] = off[j + 1]
          BY <2>9, <4>1
        <4>3. off[j] \in 1..(m + 1) /\ Size(j) \in Nat
          BY <2>3, <2>7, <4>1
        <4>4. ASSUME NEW k \in 1..Size(j)
              PROVE  msg'[off[j] + k - 1] = Encoded(event[j])[k]
          <5>1. off[j] + Size(j) <= m + 1
            BY <2>2, <4>1
          <5>2. off[j] + k - 1 \in 1..m
            BY <2>4, <4>3, <5>1
          <5>3. msg[off[j] + k - 1] = Encoded(event[j])[k]
            BY <2>2, <4>1
          <5> QED BY <2>5, <5>2, <5>3
        <4>5. /\ off[j + 1] = off[j] + Size(j)
              /\ off[j] + Size(j) <= m + 1
          BY <2>2, <4>1
        <4> QED BY <2>4, <4>2, <4>3, <4>4, <4>5
      <3> QED BY <3>1, <3>2
    <2>11. \A j : Size(j)' = Size(j)
      BY <1>1 DEF Size
    <2>12. new[1] = 1
      BY <2>2, <2>4, <2>9
    <2>13. i' - 1 = i
      BY <1>1, <2>4
    <2>14. new \in Offsets(i)' /\ Laid(new, i)'
      BY <1>1, <2>4, <2>8, <2>9, <2>10, <2>11, <2>12, <2>13
         DEF Offsets, Laid
    <2> QED BY <2>14
  <1>14. TypeOK'
    BY <1>1, <1>2, <1>n, <1>7, <1>8, <1>9, <1>12 DEF TypeOK
  <1>15. EncodeInv'
    BY <1>1, <1>3, <1>9, <1>11, <1>12, <1>13 DEF EncodeInv
  <1>16. DecodeInv' /\ DoneInv'
    BY <1>1, <1>12 DEF DecodeInv, DoneInv, IInv
  <1> QED BY <1>7, <1>14, <1>15, <1>16 DEF IInv

LEMMA CutPartFacts ==
  ASSUME NEW p \in Parts, NEW c \in CutPart(p)
  PROVE  /\ c \in Seq(Parts) /\ Len(c) \in {1, 2}
         /\ c[Len(c)].part # "key"
  <1>1. CASE p.part = "key"
    <2>1. c = <<Bare>> \/ c = <<p, Val("cut")>>
      BY <1>1 DEF CutPart
    <2>2. Bare \in Parts /\ Val("cut") \in Parts
      BY DEF Bare, Val, Parts, Texts
    <2>3. Bare.part # "key" /\ Val("cut").part # "key"
      BY DEF Bare, Val
    <2>4. CASE c = <<Bare>>
      BY <2>2, <2>3, <2>4
    <2>5. CASE c = <<p, Val("cut")>>
      BY <2>2, <2>3, <2>5
    <2> QED BY <2>1, <2>4, <2>5
  <1>2. CASE p.part = "val"
    <2>1. c = <<p>> \/ c = <<Val("cut")>>
      BY <1>2 DEF CutPart
    <2>2. Val("cut") \in Parts /\ Val("cut").part # "key"
      BY DEF Val, Parts, Texts
    <2>3. CASE c = <<p>>
      BY <1>2, <2>3
    <2>4. CASE c = <<Val("cut")>>
      BY <2>2, <2>4
    <2> QED BY <2>1, <2>3, <2>4
  <1>3. CASE p.part = "bare"
    <2>1. c = <<p>>
      BY <1>3 DEF CutPart
    <2> QED BY <1>3, <2>1
  <1> QED BY <1>1, <1>2, <1>3 DEF Parts

LEMMA CloseStep ==
  ASSUME IInv, close_line
  PROVE  IInv'
  <1>1. /\ pc = "close" /\ pc' = "decode" /\ i' = 1
        /\ UNCHANGED <<event, host, cut, decoded, cacheable, res>>
    BY DEF close_line
  <1>2. /\ event \in Events /\ host \in Hosts /\ cut \in BOOLEAN
        /\ cacheable \in BOOLEAN /\ res \in Results /\ msg \in Seq(Parts)
    BY DEF IInv, TypeOK
  <1>3. /\ i = Len(event) + 1
        /\ Len(msg) <= BufLen /\ (cut => Len(msg) = BufLen)
        /\ ~cut => \E off \in Offsets(i) : Laid(off, i)
        /\ ~cut /\ msg # <<>> => msg[Len(msg)].part # "key"
        /\ decoded = <<>> /\ ~cacheable
    BY <1>1 DEF IInv, EncodeInv
  <1>n. /\ BufLen \in Nat /\ BufLen # 0 /\ Len(msg) \in Nat
        /\ Len(event) \in Nat /\ Len(event) >= 1
    BY <1>2, SerializerAssumption, EventFacts
  <1>4. /\ msg' \in Seq(Parts) /\ Len(msg') <= BufLen + 1
        /\ msg' # <<>> => msg'[Len(msg')].part # "key"
    <2>1. CASE ~cut
      <3>1. msg' = msg
        BY <2>1 DEF close_line
      <3> QED BY <1>2, <1>3, <1>n, <2>1, <3>1
    <2>2. CASE cut
      <3> DEFINE last == msg[Len(msg)]  init == SubSeq(msg, 1, Len(msg) - 1)
      <3>1. PICK p \in CutPart(last) : msg' = init \o p
        BY <2>2 DEF close_line
      <3>2. last \in Parts
        BY <1>2, <1>3, <1>n, <2>2
      <3>3. /\ p \in Seq(Parts) /\ Len(p) \in {1, 2}
            /\ p[Len(p)].part # "key"
        BY <3>1, <3>2, CutPartFacts
      <3>4. init \in Seq(Parts) /\ Len(init) = Len(msg) - 1
        BY <1>2, <1>3, <1>n, <2>2
      <3> HIDE DEF init, last
      <3>5. /\ msg' \in Seq(Parts) /\ Len(msg') = Len(init) + Len(p)
            /\ \A j \in 1..(Len(init) + Len(p)) :
                 msg'[j] = IF j <= Len(init) THEN init[j]
                           ELSE p[j - Len(init)]
        BY <3>1, <3>3, <3>4, ConcatProperties
      <3>6. msg'[Len(msg')] = p[Len(p)]
        <4> DEFINE a == Len(init)  z == Len(p)
        <4>1. a \in Nat /\ z \in {1, 2}
          BY <3>3, <3>4
        <4>2. a + z \in 1..(a + z) /\ ~(a + z <= a) /\ (a + z) - a = z
          BY <4>1
        <4> QED BY <3>5, <4>2
      <3> QED BY <1>3, <1>n, <3>3, <3>4, <3>5, <3>6
    <2> QED BY <1>2, <2>1, <2>2
  <1>5. TypeOK'
    <2>1. i' \in 1..(Len(event) + 1)
      BY <1>1, <1>n
    <2> QED BY <1>1, <1>2, <1>4, <2>1 DEF TypeOK
  <1>6. EncodeInv' /\ DoneInv'
    BY <1>1 DEF EncodeInv, DoneInv, IInv
  <1>7. DecodeInv'
    <2>1. i' \in 1..(Len(msg') + 1)
      BY <1>1, <1>4
    <2>2. decoded' \in Seq(Pairs) /\ (cacheable' <=> ToBeCached(decoded'))
      BY <1>1, <1>3 DEF ToBeCached
    <2>3. ASSUME ~cut'
          PROVE  \E off \in Offsets(Len(event) + 1)',
                    n \in 1..(Len(event') + 1) :
                   Laid(off, Len(event) + 1)' /\ AtStart(off, n)'
      <3>1. ~cut /\ msg' = msg
        BY <1>1, <2>3 DEF close_line
      <3>2. PICK off \in Offsets(Len(event) + 1) : Laid(off, Len(event) + 1)
        BY <1>3, <3>1
      <3>3. off \in Offsets(Len(event) + 1)'
        BY <1>1, <3>1 DEF Offsets
      <3>4. Laid(off, Len(event) + 1)'
        BY <1>1, <3>1, <3>2 DEF Laid, Size
      <3>5. SubSeq(event, 1, 0) = <<>>
        BY <1>2, EventFacts
      <3>6. off[1] = 1
        BY <3>2 DEF Laid
      <3>7. AtStart(off, 1)'
        BY <1>1, <1>3, <1>n, <3>5, <3>6 DEF AtStart
      <3>8. 1 \in 1..(Len(event') + 1)
        BY <1>1, <1>n
      <3> QED BY <3>3, <3>4, <3>7, <3>8
    <2> QED BY <1>1, <1>4, <2>1, <2>2, <2>3 DEF DecodeInv
  <1> QED BY <1>4, <1>5, <1>6, <1>7 DEF IInv

(* The parts of IE n in the line.                                          *)
LEMMA PartsOfIe ==
  ASSUME IInv, NEW off \in Offsets(Len(event) + 1), NEW n \in 1..Len(event),
         Laid(off, Len(event) + 1)
  PROVE  LET e == event[n]
         IN  /\ off[n] \in Nat /\ off[n] >= 1 /\ n + 1 \in 1..(Len(event) + 1)
             /\ off[n + 1] = off[n] + Size(n)
             /\ off[n] + Size(n) <= Len(msg) + 1
             /\ Size(n) = CASE e.ie = "state" -> 4 [] e.ie = "list" -> 3
                            [] e.ie = "raw" -> 1 [] OTHER -> 2
             /\ e.ie = "raw" => msg[off[n]].part = "bare"
             /\ e.ie # "raw" => msg[off[n]] = Key(e.ie)
             /\ e.ie \notin {"raw", "list"} => msg[off[n] + 1] = Val(e.val)
             /\ e.ie = "state" => msg[off[n] + 2] = Key("statestr")
             /\ e.ie = "list" => msg[off[n] + 2].part = "bare"
  <1>1. event \in Events /\ msg \in Seq(Parts)
    BY DEF IInv, TypeOK
  <1>2. Len(event) \in Nat /\ Len(msg) \in Nat
    BY <1>1, EventFacts
  <1>3. /\ n \in 1..((Len(event) + 1) - 1) /\ n \in 1..(Len(event) + 1)
        /\ n + 1 \in 1..(Len(event) + 1)
    BY <1>2
  <1>4. off[n] \in Nat /\ off[n] >= 1
    BY <1>2, <1>3 DEF Offsets
  <1>5. /\ off[n + 1] = off[n] + Size(n)
        /\ off[n] + Size(n) <= Len(msg) + 1
        /\ \A k \in 1..Size(n) : msg[off[n] + k - 1] = Encoded(event[n])[k]
    BY <1>3 DEF Laid
  <1>6. event[n] \in Pairs /\ event[n].ie \in Kinds \cup {"eid"}
    BY <1>1, IeOfEvent
  <1> DEFINE x == Encoded(event[n])  e == event[n]
  <1>7. /\ Size(n) = CASE e.ie = "state" -> 4 [] e.ie = "list" -> 3
                       [] e.ie = "raw" -> 1 [] OTHER -> 2
        /\ e.ie = "raw" => x[1].part = "bare"
        /\ e.ie # "raw" => x[1] = Key(e.ie)
        /\ e.ie \notin {"raw", "list"} => x[2] = Val(e.val)
        /\ e.ie = "state" => x[3] = Key("statestr")
        /\ e.ie = "list" => x[3].part = "bare"
    BY <1>6, EncodedFacts DEF Size
  <1>8. Size(n) >= 1 /\ (e.ie # "raw" => Size(n) >= 2)
        /\ (e.ie \in {"state", "list"} => Size(n) >= 3) /\ Size(n) \in Nat
    BY <1>7
  <1>9. /\ off[n] + 1 - 1 = off[n] /\ off[n] + 2 - 1 = off[n] + 1
        /\ off[n] + 3 - 1 = off[n] + 2
    BY <1>4
  <1>10. msg[off[n]] = x[1]
    <2>1. 1 \in 1..Size(n)
      BY <1>8
    <2> QED BY <1>5, <1>9, <2>1
  <1>11. e.ie # "raw" => msg[off[n] + 1] = x[2]
    <2>1. e.ie # "raw" => 2 \in 1..Size(n)
      BY <1>8
    <2> QED BY <1>5, <1>9, <2>1
  <1>12. e.ie \in {"state", "list"} => msg[off[n] + 2] = x[3]
    <2>1. e.ie \in {"state", "list"} => 3 \in 1..Size(n)
      BY <1>8
    <2> QED BY <1>5, <1>9, <2>1
  <1> HIDE DEF x
  <1> QED BY <1>3, <1>4, <1>5, <1>7, <1>10, <1>11, <1>12

LEMMA DecodeBareStep ==
  ASSUME IInv, decode_bare
  PROVE  IInv'
  <1>1. /\ pc = "decode" /\ pc' = "done" /\ res' = "fault"
        /\ i <= Len(msg) /\ msg[i].part = "bare"
        /\ UNCHANGED <<event, host, i, msg, cut, decoded, cacheable>>
    BY DEF decode_bare
  <1>2. TypeOK'
    BY <1>1 DEF IInv, TypeOK, Results
  <1>3. EncodeInv' /\ DecodeInv'
    BY <1>1 DEF IInv, EncodeInv, DecodeInv
  <1>4. ASSUME ~cut PROVE ~Plain(event)
    <2>1. PICK off \in Offsets(Len(event) + 1), n \in 1..(Len(event) + 1) :
            /\ Laid(off, Len(event) + 1)
            /\ AtStart(off, n) \/ AtRest(off, n)
      BY <1>1, <1>4 DEF IInv, DecodeInv
    <2>2. event \in Events /\ Len(event) \in Nat /\ Len(msg) \in Nat
      BY EventFacts DEF IInv, TypeOK
    <2>3. n \in 1..Len(event)
      <3>1. n # Len(event) + 1
        BY <1>1, <2>1, <2>2 DEF Laid, AtStart, AtRest
      <3> QED BY <2>2, <3>1
    <2>4. CASE AtStart(off, n)
      <3>1. i = off[n]
        BY <2>4 DEF AtStart
      <3>2. event[n].ie = "raw"
        <4>1. event[n].ie # "raw" => msg[off[n]] = Key(event[n].ie)
          BY <2>1, <2>3, PartsOfIe
        <4> QED BY <1>1, <3>1, <4>1 DEF Key
      <3> QED BY <2>3, <3>2 DEF Plain, Has
    <2>5. CASE AtRest(off, n)
      <3>1. i = off[n] + 2 /\ event[n].ie \in {"state", "list"}
        BY <2>5 DEF AtRest
      <3>2. event[n].ie = "list"
        <4>1. event[n].ie = "state" => msg[off[n] + 2] = Key("statestr")
          BY <2>1, <2>3, PartsOfIe
        <4> QED BY <1>1, <3>1, <4>1 DEF Key
      <3> QED BY <2>3, <3>2 DEF Plain, Has
    <2> QED BY <2>1, <2>4, <2>5
  <1>5. DoneInv'
    <2>1. Plain(event)' <=> Plain(event)
      BY <1>1 DEF Plain, Has
    <2> QED BY <1>1, <1>4, <2>1 DEF DoneInv
  <1> QED BY <1>1, <1>2, <1>3, <1>5 DEF IInv

LEMMA DecodeEndStep ==
  ASSUME IInv, decode_end
  PROVE  IInv'
  <1>1. /\ pc = "decode" /\ pc' = "done" /\ res' = "NO_EXCEPTION"
        /\ i > Len(msg)
        /\ decoded' = IF HasEid(decoded) THEN decoded
                      ELSE Append(decoded, Eid(host))
        /\ UNCHANGED <<event, host, i, msg, cut, cacheable>>
    BY DEF decode_end
  <1>2. TypeOK'
    BY <1>1 DEF IInv, TypeOK, Results
  <1>3. EncodeInv' /\ DecodeInv'
    BY <1>1 DEF IInv, EncodeInv, DecodeInv
  <1>4. ASSUME ~cut PROVE /\ host # Origin /\ decoded' = event
                          /\ cacheable <=> ToBeCached(event)
    <2>1. PICK off \in Offsets(Len(event) + 1), n \in 1..(Len(event) + 1) :
            /\ Laid(off, Len(event) + 1)
            /\ AtStart(off, n) \/ AtRest(off, n)
      BY <1>1, <1>4 DEF IInv, DecodeInv
    <2>2. /\ event \in Events /\ Len(event) \in Nat /\ Len(msg) \in Nat
          /\ event \in Seq(Pairs) /\ Len(event) >= 1
          /\ event[Len(event)] = Eid(Origin)
      BY EventFacts DEF IInv, TypeOK
    <2>3. n = Len(event) + 1
      <3> SUFFICES ASSUME n \in 1..Len(event) PROVE FALSE
        BY <2>2
      <3> DEFINE z == Size(n)  o == off[n]
      <3>1. /\ o \in Nat /\ o + z <= Len(msg) + 1
            /\ z = CASE event[n].ie = "state" -> 4 [] event[n].ie = "list" -> 3
                     [] event[n].ie = "raw" -> 1 [] OTHER -> 2
        BY <2>1, PartsOfIe
      <3>2. i = o \/ (i = o + 2 /\ event[n].ie \in {"state", "list"})
        BY <2>1 DEF AtStart, AtRest
      <3> HIDE DEF z, o
      <3> QED BY <1>1, <2>2, <3>1, <3>2
    <2>4. AtStart(off, n)
      BY <2>1, <2>2, <2>3 DEF AtRest
    <2>5. host # Origin
      BY <2>2, <2>3, <2>4 DEF AtStart
    <2>6. decoded = event
      <3>1. decoded = SubSeq(event, 1, Len(event))
        <4>1. n - 1 = Len(event)
          BY <2>2, <2>3
        <4> QED BY <2>4, <4>1 DEF AtStart
      <3> QED BY <2>2, <3>1, SubSeqFull
    <2>7. HasEid(event)
      BY <2>2, EidFacts DEF HasEid
    <2>8. cacheable <=> ToBeCached(decoded)
      BY <1>1 DEF IInv, DecodeInv
    <2> QED BY <1>1, <2>5, <2>6, <2>7, <2>8
  <1>5. DoneInv'
    <2>1. ToBeCached(event)' <=> ToBeCached(event)
      BY <1>1 DEF ToBeCached
    <2> QED BY <1>1, <1>4, <2>1 DEF DoneInv
  <1> QED BY <1>1, <1>2, <1>3, <1>5 DEF IInv

LEMMA DecodeEntryStep ==
  ASSUME IInv, decode_entry
  PROVE  IInv'
  <1> DEFINE k == msg[i].of  v == msg[i + 1].of
  <1>1. /\ pc = "decode" /\ i <= Len(msg) /\ msg[i].part = "key"
        /\ UNCHANGED <<event, host, msg, cut>>
    BY DEF decode_entry
  <1>2. \/ /\ IsOwnEid(k, v)
           /\ res' = "EID_SELF_EXCEPTION" /\ pc' = "done"
           /\ UNCHANGED <<i, decoded, cacheable>>
        \/ /\ ~IsOwnEid(k, v) /\ i' = i + 2
           /\ decoded' = IF KnownKey(k) THEN Append(decoded, Appended(k, v))
                                        ELSE decoded
           /\ cacheable' = IF k = "cachable" THEN Atoi(v) = "1" ELSE cacheable
           /\ UNCHANGED <<pc, res>>
    BY DEF decode_entry
  <1>3. /\ event \in Events /\ host \in Hosts /\ cut \in BOOLEAN
        /\ cacheable \in BOOLEAN /\ res \in Results /\ msg \in Seq(Parts)
        /\ Len(msg) \in Nat /\ Len(msg) <= BufLen + 1
    BY DEF IInv, TypeOK
  <1>4. /\ Len(event) \in Nat /\ Len(event) >= 1 /\ BufLen \in Nat
        /\ event \in Seq(Pairs)
    BY <1>3, EventFacts, SerializerAssumption
  <1>5. /\ i \in 1..Len(msg) /\ i + 1 \in 1..Len(msg)
    <2>1. /\ i \in 1..(Len(msg) + 1)
          /\ msg # <<>> => msg[Len(msg)].part # "key"
      BY <1>1 DEF IInv, DecodeInv
    <2>2. i \in 1..Len(msg)
      BY <1>1, <1>3, <2>1
    <2>3. i # Len(msg)
      BY <1>1, <1>3, <2>1, <2>2
    <2> QED BY <1>3, <2>2, <2>3
  <1>6. k \in Texts /\ v \in Texts
    <2>1. msg[i] \in Parts /\ msg[i + 1] \in Parts
      BY <1>3, <1>5
    <2> QED BY <2>1 DEF Parts
  <1>7. decoded \in Seq(Pairs) /\ (cacheable <=> ToBeCached(decoded))
    BY <1>1 DEF IInv, DecodeInv
  (* Where json2message is, if the line was not cut.                       *)
  <1>8. ASSUME ~cut
        PROVE  \E off \in Offsets(Len(event) + 1), n \in 1..Len(event) :
                 /\ Laid(off, Len(event) + 1)
                 /\ \/ /\ AtStart(off, n) /\ k = event[n].ie
                       /\ event[n].ie # "raw"
                       /\ event[n].ie # "list" => v = event[n].val
                    \/ AtRest(off, n) /\ event[n].ie = "state"
                       /\ k = "statestr"
    <2>1. PICK off \in Offsets(Len(event) + 1), n \in 1..(Len(event) + 1) :
            /\ Laid(off, Len(event) + 1)
            /\ AtStart(off, n) \/ AtRest(off, n)
      BY <1>1, <1>8 DEF IInv, DecodeInv
    <2>2. n \in 1..Len(event)
      <3>1. n # Len(event) + 1
        BY <1>1, <1>3, <1>4, <2>1 DEF Laid, AtStart, AtRest
      <3> QED BY <1>4, <3>1
    <2> DEFINE e == event[n]
    <2>3. /\ e.ie = "raw" => msg[off[n]].part = "bare"
          /\ e.ie # "raw" => msg[off[n]] = Key(e.ie)
          /\ e.ie \notin {"raw", "list"} => msg[off[n] + 1] = Val(e.val)
          /\ e.ie = "state" => msg[off[n] + 2] = Key("statestr")
          /\ e.ie = "list" => msg[off[n] + 2].part = "bare"
      BY <2>1, <2>2, PartsOfIe
    <2>4. CASE AtStart(off, n)
      <3>1. i = off[n]
        BY <2>4 DEF AtStart
      <3>2. e.ie # "raw"
        BY <1>1, <2>3, <3>1
      <3>3. k = e.ie
        BY <2>3, <3>1, <3>2 DEF Key
      <3>4. e.ie # "list" => v = e.val
        BY <2>3, <3>1, <3>2 DEF Val
      <3> QED BY <2>1, <2>2, <2>4, <3>2, <3>3, <3>4
    <2>5. CASE AtRest(off, n)
      <3>1. i = off[n] + 2 /\ e.ie \in {"state", "list"}
        BY <2>5 DEF AtRest
      <3>2. e.ie = "state"
        BY <1>1, <2>3, <3>1
      <3>3. k = "statestr"
        BY <2>3, <3>1, <3>2 DEF Key
      <3> QED BY <2>1, <2>2, <2>5, <3>2, <3>3
    <2> QED BY <2>1, <2>4, <2>5
  <1> HIDE DEF k, v
  <1>9. CASE /\ IsOwnEid(k, v)
             /\ res' = "EID_SELF_EXCEPTION" /\ pc' = "done"
             /\ UNCHANGED <<i, decoded, cacheable>>
    <2>1. TypeOK'
      BY <1>1, <1>9 DEF IInv, TypeOK, Results
    <2>2. EncodeInv' /\ DecodeInv'
      BY <1>1, <1>9 DEF IInv, EncodeInv, DecodeInv
    <2>3. ASSUME ~cut PROVE host = Origin
      <3>1. PICK n \in 1..Len(event) :
              k \in {event[n].ie, "statestr"}
                /\ (k # "statestr" /\ event[n].ie # "list" => v = event[n].val)
        BY <1>8, <2>3
      <3>2. k = "eid" /\ v = host
        BY <1>9 DEF IsOwnEid
      <3>3. event[n].ie = "eid" /\ v = event[n].val
        BY <3>1, <3>2
      <3>4. event[n] = Eid(Origin)
        BY <1>3, <3>3, IeOfEvent, EventFacts
      <3> QED BY <3>2, <3>3, <3>4, EidFacts
    <2>4. DoneInv'
      BY <1>1, <1>9, <2>3 DEF DoneInv
    <2> QED BY <1>1, <1>3, <2>1, <2>2, <2>4 DEF IInv
  <1>10. CASE /\ ~IsOwnEid(k, v) /\ i' = i + 2
              /\ decoded' = IF KnownKey(k) THEN Append(decoded, Appended(k, v))
                                           ELSE decoded
              /\ cacheable' = IF k = "cachable" THEN Atoi(v) = "1"
                                                ELSE cacheable
              /\ UNCHANGED <<pc, res>>
    <2>1. cacheable' \in BOOLEAN
          /\ (cacheable' <=> IF k = "cachable" THEN Atoi(v) = "1"
                                               ELSE cacheable)
      BY <1>3, <1>10
    <2>2. i' \in 1..(Len(msg) + 1) /\ i' \in 1..(BufLen + 2)
      BY <1>3, <1>4, <1>5, <1>10
    <2>3. TypeOK'
      BY <1>1, <1>3, <1>10, <2>1, <2>2 DEF TypeOK
    <2>4. EncodeInv' /\ DoneInv'
      BY <1>1, <1>10 DEF IInv, EncodeInv, DoneInv
    <2>5. Appended(k, v) \in Pairs /\ Appended(k, v).ie = k
          /\ (k = "cachable" => Appended(k, v).val = Atoi(v))
      <3>1. Atoi(v) \in Texts
        BY <1>6 DEF Atoi, Texts
      <3> QED BY <1>6, <3>1 DEF Appended, Pairs
    <2>6. decoded' \in Seq(Pairs)
      BY <1>7, <1>10, <2>5
    <2>7. cacheable' <=> ToBeCached(decoded')
      <3>1. CASE k = "statestr"
        BY <1>7, <1>10, <2>1, <3>1 DEF KnownKey
      <3>2. CASE k # "statestr"
        <4>1. decoded' = Append(decoded, Appended(k, v))
          BY <1>10, <3>2 DEF KnownKey
        <4> QED BY <1>7, <2>1, <2>5, <4>1, CachedAppend
      <3> QED BY <3>1, <3>2
    <2>8. ASSUME ~cut
          PROVE  \E off \in Offsets(Len(event) + 1),
                    n \in 1..(Len(event) + 1) :
                   /\ Laid(off, Len(event) + 1)
                   /\ AtStart(off, n)' \/ AtRest(off, n)'
      <3>1. PICK off \in Offsets(Len(event) + 1), n \in 1..Len(event) :
              /\ Laid(off, Len(event) + 1)
              /\ \/ /\ AtStart(off, n) /\ k = event[n].ie
                    /\ event[n].ie # "raw"
                    /\ event[n].ie # "list" => v = event[n].val
                 \/ AtRest(off, n) /\ event[n].ie = "state" /\ k = "statestr"
        BY <1>8, <2>8
      <3> DEFINE e == event[n]
      <3>2. /\ off[n] \in Nat /\ n + 1 \in 1..(Len(event) + 1)
            /\ n \in 1..(Len(event) + 1)
            /\ off[n + 1] = off[n] + Size(n)
            /\ Size(n) = CASE e.ie = "state" -> 4 [] e.ie = "list" -> 3
                           [] e.ie = "raw" -> 1 [] OTHER -> 2
        BY <1>4, <3>1, PartsOfIe
      <3>3. /\ e \in Pairs /\ (e.ie = "eid" <=> n = Len(event))
            /\ e \in Ies \/ e = Eid(Origin)
            /\ e.ie \in Kinds \cup {"eid"}
        BY <1>3, <3>1, IeOfEvent
      <3>4. Append(SubSeq(event, 1, n - 1), e) = SubSeq(event, 1, n)
        BY <1>4, <3>1, SubSeqRecursiveSecond
      <3>5. CASE AtStart(off, n) /\ k = e.ie /\ e.ie # "raw"
                 /\ (e.ie # "list" => v = e.val)
        <4>1. i = off[n] /\ decoded = SubSeq(event, 1, n - 1)
          BY <3>5 DEF AtStart
        <4>2. decoded' = Append(decoded, Appended(k, v))
          BY <1>10, <3>3, <3>5 DEF KnownKey, Kinds
        <4>3. e.ie # "list" => decoded' = SubSeq(event, 1, n)
          BY <3>3, <3>4, <3>5, <4>1, <4>2, SameAppended
        <4>4. n = Len(event) => host # Origin
          BY <1>10, <3>3, <3>5, EidFacts, EventFacts, <1>3 DEF IsOwnEid
        <4>5. CASE e.ie \in {"state", "list"}
          <5>1. n < Len(event)
            BY <1>4, <3>1, <3>3, <4>5
          <5>2. AtRest(off, n)'
            BY <1>1, <1>10, <4>1, <4>3, <4>5, <5>1 DEF AtRest
          <5> QED BY <3>1, <3>2, <5>2
        <4>6. CASE e.ie \notin {"state", "list"}
          <5>1. i' = off[n + 1]
            BY <1>10, <3>2, <3>5, <4>1, <4>6
          <5>2. (n + 1) - 1 = n
            BY <3>1
          <5>3. host = Origin => n + 1 <= Len(event)
            BY <1>4, <3>1, <4>4
          <5>4. AtStart(off, n + 1)'
            BY <1>1, <4>3, <4>6, <5>1, <5>2, <5>3 DEF AtStart
          <5> QED BY <3>1, <3>2, <5>4
        <4> QED BY <4>5, <4>6
      <3>6. CASE AtRest(off, n) /\ e.ie = "state" /\ k = "statestr"
        <4>1. i = off[n] + 2 /\ decoded = SubSeq(event, 1, n) /\ n < Len(event)
          BY <3>6 DEF AtRest
        <4>2. decoded' = decoded
          BY <1>10, <3>6 DEF KnownKey
        <4>3. i' = off[n + 1]
          BY <1>10, <3>2, <3>6, <4>1
        <4>4. (n + 1) - 1 = n /\ n + 1 <= Len(event)
          BY <1>4, <3>1, <4>1
        <4>5. AtStart(off, n + 1)'
          BY <1>1, <4>1, <4>2, <4>3, <4>4 DEF AtStart
        <4> QED BY <3>1, <3>2, <4>5
      <3> QED BY <3>1, <3>5, <3>6
    <2>9. DecodeInv'
      <3>1. i' \in 1..(Len(msg') + 1)
            /\ (msg' # <<>> => msg'[Len(msg')].part # "key")
        BY <1>1, <2>2 DEF IInv, DecodeInv
      <3>2. ASSUME ~cut'
            PROVE  \E off \in Offsets(Len(event) + 1)',
                      n \in 1..(Len(event') + 1) :
                     /\ Laid(off, Len(event) + 1)'
                     /\ AtStart(off, n)' \/ AtRest(off, n)'
        <4>1. Offsets(Len(event) + 1)' = Offsets(Len(event) + 1)
          BY <1>1 DEF Offsets
        <4>2. \A off : Laid(off, Len(event) + 1)' <=> Laid(off, Len(event) + 1)
          BY <1>1 DEF Laid, Size
        <4> QED BY <1>1, <2>8, <3>2, <4>1, <4>2
      <3> QED BY <2>6, <2>7, <3>1, <3>2 DEF DecodeInv
    <2> QED BY <1>1, <1>3, <2>3, <2>4, <2>9 DEF IInv
  <1> QED BY <1>2, <1>9, <1>10

LEMMA Inductive == Spec => []IInv
  <1>1. IInv /\ [Next]_vars => IInv'
    <2> SUFFICES ASSUME IInv, [Next]_vars PROVE IInv'
      OBVIOUS
    <2>1. CASE UNCHANGED vars
      <3>1. /\ pc' = pc /\ event' = event /\ host' = host /\ i' = i
            /\ msg' = msg /\ cut' = cut /\ decoded' = decoded
            /\ cacheable' = cacheable /\ res' = res
        BY <2>1 DEF vars
      <3>2. TypeOK' /\ DoneInv'
        BY <3>1 DEF IInv, TypeOK, DoneInv, ToBeCached, Plain, Has
      <3>3. EncodeInv'
        BY <3>1 DEF IInv, EncodeInv, Offsets, Laid, Size
      <3>4. DecodeInv'
        <4>1. \A off, n : (AtStart(off, n)' <=> AtStart(off, n))
                           /\ (AtRest(off, n)' <=> AtRest(off, n))
          BY <3>1 DEF AtStart, AtRest
        <4>2. /\ \A off : Laid(off, Len(event) + 1)'
                            <=> Laid(off, Len(event) + 1)
              /\ Offsets(Len(event) + 1)' = Offsets(Len(event) + 1)
          BY <3>1 DEF Laid, Size, Offsets
        <4>3. ToBeCached(decoded)' <=> ToBeCached(decoded)
          BY <3>1 DEF ToBeCached
        <4> QED BY <3>1, <4>1, <4>2, <4>3 DEF IInv, DecodeInv
      <3> QED BY <3>1, <3>2, <3>3, <3>4 DEF IInv
    <2> QED BY <2>1, EncodeStep, CloseStep, DecodeBareStep, DecodeEntryStep,
              DecodeEndStep DEF Next
  <1> QED BY InitIInv, <1>1, PTL DEF Spec
-----------------------------------------------------------------------------
(***************************************************************************)
(* The line never outgrows the buffer of message2json, whatever its size,  *)
(* and both loops stay inside what they walk.                              *)
(***************************************************************************)
THEOREM TypeCorrect == Spec => []TypeOK
  <1>1. IInv => TypeOK
    BY DEF IInv
  <1> QED BY Inductive, <1>1, PTL

(***************************************************************************)
(* json2message gives back what message2json was given: every plain event, *)
(* of any length, that fits into the buffer is decoded on another server   *)
(* to the same IEs in the same order, and cached if they say so.           *)
(***************************************************************************)
THEOREM RoundTripCorrect == Spec => []RoundTrip
  <1>1. IInv => RoundTrip
    <2> SUFFICES ASSUME IInv, pc = "done", host # Origin, Plain(event), ~cut
                 PROVE  /\ res = "NO_EXCEPTION" /\ decoded = event
                        /\ cacheable = ToBeCached(event)
      BY DEF RoundTrip
    <2>1. res = "NO_EXCEPTION"
      BY DEF IInv, DoneInv, TypeOK, Results
    <2>2. decoded = event /\ (cacheable <=> ToBeCached(event))
      BY <2>1 DEF IInv, DoneInv
    <2>3. cacheable \in BOOLEAN /\ ToBeCached(event) \in BOOLEAN
      BY DEF IInv, TypeOK, ToBeCached
    <2> QED BY <2>1, <2>2, <2>3
  <1> QED BY Inductive, <1>1, PTL

(***************************************************************************)
(* A server recognises every message of its own that the buffer did not    *)
(* cut, whatever IEs the event has.                                        *)
(***************************************************************************)
THEOREM OwnRecognised == Spec => []OwnMessageRecognised
  <1>1. IInv => OwnMessageRecognised
    BY DEF IInv, DoneInv, OwnMessageRecognised
  <1> QED BY Inductive, <1>1, PTL

(***************************************************************************)
(* json2message uses a NULL value only for a string with a comma, a raw IE *)
(* or a line that was cut.                                                 *)
(***************************************************************************)
THEOREM NullValueCause == Spec => []NullValueNeedsCause
  <1>1. IInv => NullValueNeedsCause
    BY DEF IInv, DoneInv, NullValueNeedsCause, Plain
  <1> QED BY Inductive, <1>1, PTL
=============================================================================
