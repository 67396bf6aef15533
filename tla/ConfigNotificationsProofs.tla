---------------------- MODULE ConfigNotificationsProofs ----------------------
(***************************************************************************)
(* Proofs about ConfigNotifications, for every number of instances,        *)
(* writers, changes and faults and every capacity of a channel: the types  *)
(* (and with them the bound of the channel) and that no committed change   *)
(* gets lost but for the causes that ChangesAccountedFor names.            *)
(***************************************************************************)
EXTENDS ConfigNotifications, DataLemmas, SequenceTheorems, TLAPS

-----------------------------------------------------------------------------
(* What a sequence holds, as a channel is filled and emptied.              *)

LEMMA RangeOfAppend ==
    ASSUME NEW S, NEW s \in Seq(S), NEW e \in S
    PROVE  Range(Append(s, e)) = Range(s) \cup {e}
  <1>1. /\ Append(s, e) \in Seq(S) /\ Len(s) \in Nat
        /\ Len(Append(s, e)) = Len(s) + 1
        /\ \A i \in 1 .. Len(s) : Append(s, e)[i] = s[i]
        /\ Append(s, e)[Len(s) + 1] = e
    BY AppendProperties, LenProperties
  <1>2. /\ Range(Append(s, e)) = {Append(s, e)[i] : i \in 1 .. Len(s) + 1}
        /\ Range(s) = {s[i] : i \in 1 .. Len(s)}
    BY <1>1, RangeEquality
  <1>3. 1 .. Len(s) + 1 = (1 .. Len(s)) \cup {Len(s) + 1}
    BY <1>1
  <1> QED
    BY <1>1, <1>2, <1>3

LEMMA RangeOfTail ==
    ASSUME NEW S, NEW s \in Seq(S), s # <<>>
    PROVE  /\ Head(s) \in S /\ Tail(s) \in Seq(S) /\ Len(Tail(s)) = Len(s) - 1
           /\ Range(s) = {Head(s)} \cup Range(Tail(s))
  <1>1. /\ Tail(s) \in Seq(S) /\ Len(s) \in Nat \ {0}
        /\ Len(Tail(s)) = Len(s) - 1 /\ Head(s) \in S
        /\ \A i \in 1 .. Len(s) - 1 : Tail(s)[i] = s[i + 1]
    BY HeadTailProperties, EmptySeq
  <1>2. /\ Range(Tail(s)) = {Tail(s)[i] : i \in 1 .. Len(s) - 1}
        /\ Range(s) = {s[i] : i \in 1 .. Len(s)}
    BY <1>1, RangeEquality
  <1>3. Head(s) = s[1]
    OBVIOUS
  <1>4. \A i \in 1 .. Len(s) : i = 1 \/ (i - 1 \in 1 .. Len(s) - 1 /\ (i - 1) + 1 = i)
    BY <1>1
  <1>5. \A i \in 1 .. Len(s) - 1 : i + 1 \in 1 .. Len(s)
    BY <1>1
  <1>6. 1 \in 1 .. Len(s)
    BY <1>1
  <1>7. Range(s) \subseteq {Head(s)} \cup Range(Tail(s))
    <2> SUFFICES ASSUME NEW i \in 1 .. Len(s)
                 PROVE  s[i] \in {Head(s)} \cup Range(Tail(s))
      BY <1>2
    <2>1. CASE i = 1
      BY <1>3, <2>1
    <2>2. CASE i # 1
      <3>1. Tail(s)[i - 1] = s[i] /\ i - 1 \in 1 .. Len(s) - 1
        BY <1>1, <1>4, <2>2
      <3> QED
        BY <1>2, <3>1
    <2> QED
      BY <2>1, <2>2
  <1>8. Range(Tail(s)) \subseteq Range(s) /\ Head(s) \in Range(s)
    BY <1>1, <1>2, <1>3, <1>5, <1>6
  <1> QED
    BY <1>1, <1>7, <1>8

-----------------------------------------------------------------------------
(* The changes among the requests of a lost connection.                    *)

\* The function that ChangesIn takes its value from, as far as n.
Sifted(it, s, k) ==
    IF k = 0 THEN <<>>
    ELSE IF IsChange(s[k]) THEN Append(it[k - 1], s[k]) ELSE it[k - 1]
Sifts(it, s, n) == it = [k \in 0 .. n |-> Sifted(it, s, k)]

LEMMA SiftsExist ==
    ASSUME NEW s
    PROVE  \A n \in Nat : \E it : Sifts(it, s, n)
  <1> DEFINE T == {n \in Nat : \E it : Sifts(it, s, n)}
  <1>1. 0 \in T
    <2> DEFINE it == [k \in 0 .. 0 |-> <<>>]
    <2>1. Sifts(it, s, 0)
      BY DEF Sifts, Sifted
    <2> QED
      BY <2>1
  <1>2. ASSUME NEW n \in Nat, n \in T
        PROVE  n + 1 \in T
    <2>1. PICK it : Sifts(it, s, n)
      BY <1>2
    <2> DEFINE jt == [k \in 0 .. n + 1 |->
                         IF k = n + 1 THEN Sifted(it, s, n + 1) ELSE it[k]]
    <2>2. ASSUME NEW k \in 0 .. n + 1
          PROVE  jt[k] = Sifted(jt, s, k)
      <3>1. CASE k = 0
        <4>1. jt[0] = it[0] /\ it[0] = <<>>
          BY <2>1 DEF Sifts, Sifted
        <4> HIDE DEF jt
        <4> QED
          BY <3>1, <4>1 DEF Sifted
      <3>2. CASE k # 0
        <4>1. k - 1 \in 0 .. n + 1 /\ k - 1 # n + 1 /\ k - 1 \in 0 .. n
          BY <3>2
        <4>2. jt[k - 1] = it[k - 1]
          BY <4>1
        <4>3. CASE k = n + 1
          <5>1. jt[k] = Sifted(it, s, k)
            BY <4>3
          <5> HIDE DEF jt
          <5> QED
            BY <3>2, <4>2, <5>1 DEF Sifted
        <4>4. CASE k # n + 1
          <5>1. jt[k] = it[k] /\ k \in 0 .. n
            BY <4>4
          <5> HIDE DEF jt
          <5>2. it[k] = Sifted(it, s, k)
            BY <2>1, <5>1 DEF Sifts
          <5> QED
            BY <3>2, <4>2, <5>1, <5>2 DEF Sifted
        <4> QED
          BY <4>3, <4>4
      <3> QED
        BY <3>1, <3>2
    <2>3. jt = [k \in 0 .. n + 1 |-> jt[k]]
      OBVIOUS
    <2> HIDE DEF jt
    <2>4. Sifts(jt, s, n + 1)
      BY <2>2, <2>3 DEF Sifts
    <2> QED
      BY <2>4
  <1> HIDE DEF T
  <1>3. Nat \subseteq T
    BY <1>1, <1>2, NumbersByInduction
  <1> QED
    BY <1>3 DEF T

LEMMA ChangesInSifts ==
    ASSUME NEW s, Len(s) \in Nat
    PROVE  \E it : Sifts(it, s, Len(s)) /\ ChangesIn(s) = it[Len(s)]
  <1> DEFINE among == CHOOSE it : Sifts(it, s, Len(s))
  <1>1. ChangesIn(s) = among[Len(s)]
    BY DEF ChangesIn, Sifts, Sifted
  <1>2. \E it : Sifts(it, s, Len(s))
    BY SiftsExist
  <1>3. Sifts(among, s, Len(s))
    BY <1>2
  <1> HIDE DEF among
  <1> QED
    BY <1>1, <1>3

\* They are those requests that are no subscription.
LEMMA ChangesInFacts ==
    ASSUME NEW s \in Seq(Requests)
    PROVE  /\ ChangesIn(s) \in Seq(Changes)
           /\ Range(ChangesIn(s)) = Range(s) \ {Subscribe}
  <1>1. Len(s) \in Nat /\ \A k \in 1 .. Len(s) : s[k] \in Requests
    BY LenProperties
  <1>2. PICK it : Sifts(it, s, Len(s)) /\ ChangesIn(s) = it[Len(s)]
    BY <1>1, ChangesInSifts
  <1> DEFINE Upto(k) == {s[j] : j \in 1 .. k} \ {Subscribe}
             T == {k \in Nat : k <= Len(s) =>
                      it[k] \in Seq(Changes) /\ Range(it[k]) = Upto(k)}
  <1>3. 0 \in T
    <2>1. it[0] = <<>>
      BY <1>1, <1>2 DEF Sifts, Sifted
    <2>2. Range(it[0]) = {} /\ Upto(0) = {} /\ it[0] \in Seq(Changes)
      BY <2>1 DEF Range
    <2> QED
      BY <2>2
  <1>4. ASSUME NEW k \in Nat, k \in T
        PROVE  k + 1 \in T
    <2> SUFFICES ASSUME k + 1 <= Len(s)
                 PROVE  it[k + 1] \in Seq(Changes) /\ Range(it[k + 1]) = Upto(k + 1)
      OBVIOUS
    <2>1. it[k] \in Seq(Changes) /\ Range(it[k]) = Upto(k)
      BY <1>1, <1>4
    <2>2. /\ k + 1 \in 1 .. Len(s) /\ k + 1 \in 0 .. Len(s)
          /\ k + 1 # 0 /\ (k + 1) - 1 = k
      BY <1>1
    <2>3. it[k + 1] = IF IsChange(s[k + 1]) THEN Append(it[k], s[k + 1]) ELSE it[k]
      <3>1. it[k + 1] = Sifted(it, s, k + 1)
        BY <1>2, <2>2 DEF Sifts
      <3> QED
        BY <2>2, <3>1 DEF Sifted
    <2>4. Upto(k + 1) = Upto(k) \cup ({s[k + 1]} \ {Subscribe})
      <3>1. 1 .. k + 1 = (1 .. k) \cup {k + 1}
        OBVIOUS
      <3> QED
        BY <3>1
    <2>5. CASE IsChange(s[k + 1])
      <3>1. s[k + 1] \in Changes /\ s[k + 1] # Subscribe
        BY <1>1, <2>2, <2>5 DEF IsChange, Requests
      <3>2. Append(it[k], s[k + 1]) \in Seq(Changes)
        BY <2>1, <3>1
      <3>3. Range(Append(it[k], s[k + 1])) = Range(it[k]) \cup {s[k + 1]}
        BY <2>1, <3>1, RangeOfAppend
      <3> QED
        BY <2>1, <2>3, <2>4, <2>5, <3>1, <3>2, <3>3
    <2>6. CASE ~ IsChange(s[k + 1])
      BY <2>1, <2>3, <2>4, <2>6 DEF IsChange
    <2> QED
      BY <2>5, <2>6
  <1> HIDE DEF T
  <1>5. Len(s) \in T
    BY <1>1, <1>3, <1>4, NumbersByInduction
  <1>6. ChangesIn(s) \in Seq(Changes) /\ Range(ChangesIn(s)) = Upto(Len(s))
    BY <1>1, <1>2, <1>5 DEF T
  <1>7. Range(s) = {s[j] : j \in 1 .. Len(s)}
    BY RangeEquality
  <1> QED
    BY <1>6, <1>7

-----------------------------------------------------------------------------
(* The types.                                                              *)

LEMMA InitTypes == Init => TypeOK
  BY NotifyAssumption DEF Init, TypeOK

LEMMA CommitTypes ==
    ASSUME TypeOK, NEW w \in Writers, Commit(w)
    PROVE  TypeOK'
  <1>1. Len(changes) \in Nat /\ changes' \in Seq(Writers) /\ Len(changes') = Len(changes) + 1
    BY AppendProperties, LenProperties DEF TypeOK, Commit
  <1>2. Len(changes') \in Changes /\ Len(changes') <= MaxChanges
    BY <1>1, NotifyAssumption DEF TypeOK, Commit, Changes
  <1>3. /\ writing' \in [Writers -> SUBSET Changes]
        /\ wild' \subseteq Changes /\ unsaid' \subseteq Changes
    <2> DEFINE n == Len(changes')
    <2>1. \/ /\ writing' = [writing EXCEPT ![w] = {n}]
             /\ wild' \in {wild, wild \cup {n}} /\ UNCHANGED unsaid
          \/ unsaid' = unsaid \cup {n} /\ UNCHANGED <<writing, wild>>
      BY DEF Commit
    <2>2. n \in Changes
      BY <1>2
    <2> HIDE DEF n
    <2> QED
      BY <2>1, <2>2 DEF TypeOK
  <1>4. UNCHANGED <<clientVars, netVars, heardVars>>
    BY DEF Commit
  <1> QED
    BY <1>1, <1>2, <1>3, <1>4 DEF TypeOK, clientVars, netVars, heardVars

LEMMA PublishTypes ==
    ASSUME TypeOK, NEW w \in Writers, Publish(w)
    PROVE  TypeOK'
  <1>1. PICK n \in writing[w] :
            \/ UNCHANGED channel
            \/ /\ HasRoom(Home[w])
               /\ channel' = [channel EXCEPT ![Home[w]] = Append(@, n)]
    BY DEF Publish
  <1>2. n \in Requests /\ Home[w] \in Instances
    BY NotifyAssumption DEF TypeOK, Requests
  <1>3. /\ Append(channel[Home[w]], n) \in Seq(Requests)
        /\ Len(Append(channel[Home[w]], n)) = Len(channel[Home[w]]) + 1
        /\ Len(channel[Home[w]]) \in Nat
    BY <1>2, AppendProperties, LenProperties DEF TypeOK
  <1>4. /\ channel' \in [Instances -> Seq(Requests)]
        /\ \A i \in Instances : Len(channel'[i]) <= Capacity
    <2> DEFINE more == Append(channel[Home[w]], n)
    <2>1. CASE UNCHANGED channel
      BY <2>1 DEF TypeOK
    <2>2. CASE HasRoom(Home[w]) /\ channel' = [channel EXCEPT ![Home[w]] = more]
      <3>1. more \in Seq(Requests) /\ Len(more) <= Capacity
        BY <1>3, <2>2, NotifyAssumption DEF HasRoom
      <3> HIDE DEF more
      <3> QED
        BY <1>2, <2>2, <3>1 DEF TypeOK
    <2> QED
      BY <1>1, <2>1, <2>2
  <1> QED
    BY <1>4 DEF TypeOK, Publish, netVars, heardVars

LEMMA DropTypes ==
    ASSUME TypeOK, NEW w \in Writers, Drop(w)
    PROVE  TypeOK'
  BY DEF TypeOK, Drop, clientVars, netVars, heardVars

LEMMA ConnectTypes ==
    ASSUME TypeOK, NEW i \in Instances, Connect(i)
    PROVE  TypeOK'
  <1>1. PICK kept \in {pending[i], <<>>} : pending' = [pending EXCEPT ![i] = kept]
    BY DEF Connect
  <1>2. kept \in Seq(Requests)
    <2>1. pending[i] \in Seq(Requests) /\ <<>> \in Seq(Requests)
      BY DEF TypeOK
    <2> QED
      BY <1>1, <2>1
  <1>3. pending' \in [Instances -> Seq(Requests)]
    BY <1>1, <1>2 DEF TypeOK
  <1> QED
    BY <1>3 DEF TypeOK, Connect, writerVars, heardVars

LEMMA AskSubscribeTypes ==
    ASSUME TypeOK, NEW i \in Instances, AskSubscribe(i)
    PROVE  TypeOK'
  <1>1. Subscribe \in Requests
    BY DEF Requests
  <1>2. /\ Append(channel[i], Subscribe) \in Seq(Requests)
        /\ Len(Append(channel[i], Subscribe)) = Len(channel[i]) + 1
        /\ Len(channel[i]) \in Nat
    BY <1>1, AppendProperties, LenProperties DEF TypeOK
  <1>3. /\ channel' \in [Instances -> Seq(Requests)]
        /\ \A j \in Instances : Len(channel'[j]) <= Capacity
    BY <1>2, NotifyAssumption DEF TypeOK, AskSubscribe, HasRoom
  <1> QED
    BY <1>3 DEF TypeOK, AskSubscribe, writerVars, netVars, heardVars

LEMMA SendTypes ==
    ASSUME TypeOK, NEW i \in Instances, Send(i)
    PROVE  TypeOK'
  <1>1. ASSUME NEW s \in Seq(Requests), s # <<>>
        PROVE  /\ Append(sent[i], Head(s)) \in Seq(Requests)
               /\ Tail(s) \in Seq(Requests)
               /\ Len(Tail(s)) <= Len(s)
    <2>1. Head(s) \in Requests /\ Tail(s) \in Seq(Requests) /\ Len(Tail(s)) = Len(s) - 1
      BY <1>1, RangeOfTail
    <2> QED
      BY <2>1, LenProperties DEF TypeOK
  <1>2. CASE /\ pending[i] # <<>>
             /\ sent' = [sent EXCEPT ![i] = Append(@, Head(pending[i]))]
             /\ pending' = [pending EXCEPT ![i] = Tail(@)]
             /\ UNCHANGED channel
    BY <1>1, <1>2 DEF TypeOK, Send, writerVars, heardVars
  <1>3. CASE /\ channel[i] # <<>>
             /\ sent' = [sent EXCEPT ![i] = Append(@, Head(channel[i]))]
             /\ channel' = [channel EXCEPT ![i] = Tail(@)]
             /\ UNCHANGED pending
    <2>1. /\ Tail(channel[i]) \in Seq(Requests)
          /\ Append(sent[i], Head(channel[i])) \in Seq(Requests)
          /\ Len(Tail(channel[i])) <= Len(channel[i])
          /\ Len(channel[i]) \in Nat /\ Len(Tail(channel[i])) \in Nat
      BY <1>1, <1>3, LenProperties DEF TypeOK
    <2>2. /\ channel' \in [Instances -> Seq(Requests)]
          /\ \A j \in Instances : Len(channel'[j]) <= Capacity
      BY SMTT(40), <1>3, <2>1, NotifyAssumption DEF TypeOK
    <2> QED
      BY <1>3, <2>1, <2>2 DEF TypeOK, Send, writerVars, heardVars
  <1> QED
    BY <1>2, <1>3 DEF Send

LEMMA HandlePublishTypes ==
    ASSUME TypeOK, NEW i \in Instances, HandlePublish(i)
    PROVE  TypeOK'
  <1>1. Head(inbox[i]) \in Changes /\ Tail(inbox[i]) \in Seq(Changes)
    BY HeadTailProperties DEF TypeOK, HandlePublish
  <1> QED
    BY <1>1 DEF TypeOK, HandlePublish, writerVars, clientVars

LEMMA PollErrorTypes ==
    ASSUME TypeOK, NEW i \in Instances, PollError(i)
    PROVE  TypeOK'
  <1> DEFINE kept == ChangesIn(sent[i])
  <1>1. kept \in Seq(Requests)
    <2>1. kept \in Seq(Changes) /\ Changes \subseteq Requests
      BY ChangesInFacts DEF TypeOK, Requests
    <2> HIDE DEF kept
    <2> QED
      BY <2>1, SeqMonotonic
  <1>2. pending' = [pending EXCEPT ![i] = kept \o @ \o channel[i]]
    BY DEF PollError
  <1> HIDE DEF kept
  <1>3. kept \o pending[i] \o channel[i] \in Seq(Requests) /\ <<>> \in Seq(Requests)
    BY <1>1 DEF TypeOK
  <1>4. pending' \in [Instances -> Seq(Requests)]
    BY <1>2, <1>3 DEF TypeOK
  <1>5. /\ channel' \in [Instances -> Seq(Requests)]
        /\ \A j \in Instances : Len(channel'[j]) <= Capacity
    <2>1. Len(<<>>) = 0
      OBVIOUS
    <2> QED
      BY <1>3, <2>1, NotifyAssumption DEF TypeOK, PollError
  <1> QED
    BY <1>3, <1>4, <1>5 DEF TypeOK, PollError, writerVars, heardVars

LEMMA ForwardedTypes ==
    ASSUME TypeOK, NEW m \in Changes
    PROVE  Forwarded(m) \in [Instances -> Seq(Changes)]
  BY DEF TypeOK, Forwarded

LEMMA BrokerHandlesTypes ==
    ASSUME TypeOK, NEW i \in Instances, BrokerHandles(i)
    PROVE  TypeOK'
  <1> DEFINE m == Head(sent[i])
  <1>1. m \in Requests /\ Tail(sent[i]) \in Seq(Requests)
    BY RangeOfTail DEF TypeOK, BrokerHandles
  <1>2. sent' \in [Instances -> Seq(Requests)]
    BY <1>1 DEF TypeOK, BrokerHandles
  <1>3. CASE IsChange(m)
    <2>1. m \in Changes
      BY <1>1, <1>3 DEF Requests, IsChange
    <2>2. brokered' = brokered \cup {m} /\ inbox' = Forwarded(m) /\ UNCHANGED subscribed
      BY <1>3 DEF BrokerHandles
    <2>3. inbox' \in [Instances -> Seq(Changes)]
      BY <2>1, <2>2, ForwardedTypes
    <2> QED
      BY <1>2, <2>1, <2>2, <2>3 DEF TypeOK, BrokerHandles, writerVars, clientVars
  <1>4. CASE ~ IsChange(m)
    BY <1>2, <1>4 DEF TypeOK, BrokerHandles, writerVars, clientVars
  <1> QED
    BY <1>3, <1>4

LEMMA ConnectionLostTypes ==
    ASSUME TypeOK, NEW i \in Instances, ConnectionLost(i)
    PROVE  TypeOK'
  <1>1. /\ faults' \in [Instances -> 0 .. MaxFaults]
        /\ conn' \in [Instances -> {"down", "up", "broken"}]
        /\ subscribed' \in [Instances -> BOOLEAN]
    BY NotifyAssumption DEF TypeOK, ConnectionLost
  <1>2. CASE inbox' = [inbox EXCEPT ![i] = <<>>] /\ UNCHANGED brokered
    <2>1. inbox' \in [Instances -> Seq(Changes)]
      BY <1>2 DEF TypeOK
    <2> QED
      BY <1>1, <1>2, <2>1 DEF TypeOK, ConnectionLost, writerVars, clientVars
  <1>3. CASE /\ sent[i] # <<>> /\ IsChange(Head(sent[i]))
             /\ brokered' = brokered \cup {Head(sent[i])}
             /\ inbox' = [Forwarded(Head(sent[i])) EXCEPT ![i] = <<>>]
    <2>1. Head(sent[i]) \in Changes
      BY <1>3, RangeOfTail DEF TypeOK, IsChange, Requests
    <2>2. Forwarded(Head(sent[i])) \in [Instances -> Seq(Changes)]
      BY <2>1, ForwardedTypes
    <2>3. inbox' \in [Instances -> Seq(Changes)]
      BY <1>3, <2>2
    <2> QED
      BY <1>1, <1>3, <2>1, <2>3 DEF TypeOK, ConnectionLost, writerVars, clientVars
  <1> QED
    BY <1>2, <1>3 DEF ConnectionLost

LEMMA RestartTypes ==
    ASSUME TypeOK, NEW i \in Instances, Restart(i)
    PROVE  TypeOK'
  <1>1. /\ faults' \in [Instances -> 0 .. MaxFaults]
        /\ unsaid' \subseteq Changes
        /\ writing' \in [Writers -> SUBSET Changes]
    BY NotifyAssumption DEF TypeOK, Restart
  <1>2. <<>> \in Seq(Requests) /\ <<>> \in Seq(Changes) /\ Len(<<>>) = 0
    OBVIOUS
  <1>3. /\ channel' \in [Instances -> Seq(Requests)]
        /\ \A j \in Instances : Len(channel'[j]) <= Capacity
    BY <1>2, NotifyAssumption DEF TypeOK, Restart
  <1>4. /\ pending' \in [Instances -> Seq(Requests)]
        /\ sent' \in [Instances -> Seq(Requests)]
        /\ inbox' \in [Instances -> Seq(Changes)]
    BY <1>2 DEF TypeOK, Restart
  <1> QED
    BY <1>1, <1>3, <1>4 DEF TypeOK, Restart, heardVars

LEMMA TypeStep == TypeOK /\ [Next]_vars => TypeOK'
  <1> SUFFICES ASSUME TypeOK, [Next]_vars PROVE TypeOK'
    OBVIOUS
  <1>1. CASE UNCHANGED vars
    BY <1>1 DEF vars, writerVars, clientVars, netVars, heardVars, TypeOK
  <1>2. ASSUME NEW w \in Writers, Commit(w) \/ Publish(w) \/ Drop(w)
        PROVE  TypeOK'
    BY <1>2, CommitTypes, PublishTypes, DropTypes
  <1>3. ASSUME NEW i \in Instances,
               Poll(i) \/ BrokerHandles(i) \/ ConnectionLost(i) \/ Restart(i)
        PROVE  TypeOK'
    BY <1>3, ConnectTypes, AskSubscribeTypes, SendTypes, HandlePublishTypes,
       PollErrorTypes, BrokerHandlesTypes, ConnectionLostTypes, RestartTypes DEF Poll
  <1> QED
    BY <1>1, <1>2, <1>3 DEF Next

\* Every variable keeps its type: in particular no channel ever holds more than
\* its capacity, whoever adds to it (mqtt_client, MqttNotifier::notify,
\* subscribe_notifications).
THEOREM TypeCorrect == Spec => []TypeOK
  <1> QED
    BY InitTypes, TypeStep, PTL DEF Spec

-----------------------------------------------------------------------------
(* No committed change is lost but for a cause that is named.              *)

\* What the proof needs besides the types: a request hands over one change, and
\* the library lets go of requests, or has any that it kept, only after a
\* connection was lost.
LossesAreFaults ==
    /\ \A w \in Writers : \A m, n \in writing[w] : m = n
    /\ \A i \in Instances :
          conn[i] = "broken" \/ pending[i] # <<>> => faults[i] > 0

IInv == TypeOK /\ LossesAreFaults /\ ChangesAccountedFor

\* ChangesAccountedFor of one change, and the writer it is from.
Accounted(n, w) ==
    \/ n \in brokered \/ n \in unsaid \/ n \in writing[w] \/ n \in Held(Home[w])
    \/ n \in wild
    \/ faults[Home[w]] > 0

LEMMA AccountedSplit ==
    ASSUME ChangesAccountedFor, NEW n \in DOMAIN changes, NEW w, changes[n] = w
    PROVE  Accounted(n, w)
  BY DEF ChangesAccountedFor, Accounted

LEMMA AccountedJoin ==
    ASSUME TypeOK',
           \A n \in DOMAIN changes' : \A w \in Writers :
                changes'[n] = w => Accounted(n, w)'
    PROVE  ChangesAccountedFor'
  <1> SUFFICES ASSUME NEW n \in DOMAIN changes'
               PROVE  \/ n \in brokered' \cup unsaid' \cup writing'[changes'[n]]
                               \cup (Range(channel'[Home[changes'[n]]])
                                     \cup Range(pending'[Home[changes'[n]]])
                                     \cup Range(sent'[Home[changes'[n]]]))
                      \/ n \in wild'
                      \/ faults'[Home[changes'[n]]] > 0
    BY DEF ChangesAccountedFor, Held
  <1>1. changes'[n] \in Writers
    BY LenProperties DEF TypeOK
  <1>2. PICK w \in Writers : changes'[n] = w
    BY <1>1
  <1>3. Accounted(n, w)'
    BY <1>2
  <1>4. \/ n \in brokered' \cup unsaid' \cup writing'[w]
                  \cup (Range(channel'[Home[w]]) \cup Range(pending'[Home[w]])
                        \cup Range(sent'[Home[w]]))
        \/ n \in wild'
        \/ faults'[Home[w]] > 0
    BY <1>3 DEF Accounted, Held
  <1> QED
    BY <1>2, <1>4

\* What is accounted for stays so in a step that only hands changes on.
LEMMA HandingOn ==
    ASSUME TypeOK, TypeOK', ChangesAccountedFor, changes' = changes,
           brokered \subseteq brokered', unsaid \subseteq unsaid', wild \subseteq wild',
           \A i \in Instances : faults[i] <= faults'[i],
           \A w \in Writers : \/ faults'[Home[w]] > 0
                              \/ writing[w] \subseteq writing'[w] \cup unsaid' \cup wild'
                                                    \cup Held(Home[w])',
           \A i \in Instances : \/ faults'[i] > 0
                                \/ Held(i) \subseteq Held(i)' \cup brokered' \cup {Subscribe}
    PROVE  ChangesAccountedFor'
  <1>1. ASSUME NEW n \in DOMAIN changes, NEW w \in Writers, changes[n] = w
        PROVE  Accounted(n, w)'
    <2>1. /\ Home[w] \in Instances /\ n # Subscribe
          /\ faults[Home[w]] \in Nat /\ faults'[Home[w]] \in Nat
      <3>1. Home[w] \in Instances
        BY NotifyAssumption
      <3>2. n \in Nat \ {0}
        BY LenProperties DEF TypeOK
      <3> QED
        BY <3>1, <3>2 DEF TypeOK, Subscribe
    <2> DEFINE i == Home[w]
    <2>2. Accounted(n, w)
      BY <1>1, AccountedSplit
    <2>3. \/ faults'[i] > 0
          \/ writing[w] \subseteq writing'[w] \cup unsaid' \cup wild' \cup Held(i)'
      OBVIOUS
    <2>4. \/ faults'[i] > 0
          \/ Held(i) \subseteq Held(i)' \cup brokered' \cup {Subscribe}
      BY <2>1
    <2>5. faults[i] > 0 => faults'[i] > 0
      BY <2>1
    <2> QED
      BY <2>1, <2>2, <2>3, <2>4, <2>5 DEF Accounted
  <1> QED
    BY <1>1, AccountedJoin

LEMMA InitAccounted == Init => LossesAreFaults /\ ChangesAccountedFor
  BY DEF Init, LossesAreFaults, ChangesAccountedFor

LEMMA CommitAccounted ==
    ASSUME IInv, TypeOK', NEW w \in Writers, Commit(w)
    PROVE  LossesAreFaults' /\ ChangesAccountedFor'
  <1> DEFINE new == Len(changes')
  <1>1. /\ Len(changes) \in Nat /\ new = Len(changes) + 1
        /\ DOMAIN changes = 1 .. Len(changes) /\ DOMAIN changes' = 1 .. new
        /\ \A n \in 1 .. Len(changes) : changes'[n] = changes[n]
        /\ changes'[new] = w
    BY AppendProperties, LenProperties DEF IInv, TypeOK, Commit
  <1>2. /\ \/ writing' = [writing EXCEPT ![w] = {new}] /\ unsaid' = unsaid
           \/ writing' = writing /\ unsaid' = unsaid \cup {new}
        /\ wild \subseteq wild'
    BY DEF Commit
  <1>3. /\ writing[w] = {} /\ brokered' = brokered /\ faults' = faults
        /\ conn' = conn /\ pending' = pending
        /\ \A i \in Instances : Held(i)' = Held(i)
    BY DEF Commit, clientVars, netVars, heardVars, Held
  <1> HIDE DEF new
  <1>4. LossesAreFaults'
    <2>1. \A v \in Writers : writing'[v] = writing[v] \/ writing'[v] = {new}
      BY <1>2 DEF IInv, TypeOK
    <2>2. \A v \in Writers : \A m, n \in writing'[v] : m = n
      BY <2>1 DEF IInv, LossesAreFaults
    <2> QED
      BY <1>3, <2>2 DEF IInv, LossesAreFaults
  <1>5. ASSUME NEW n \in DOMAIN changes', NEW v \in Writers, changes'[n] = v
        PROVE  Accounted(n, v)'
    <2>1. CASE n = new
      <3>1. n \in writing'[v] \/ n \in unsaid'
        BY <1>1, <1>2, <1>5, <2>1 DEF IInv, TypeOK
      <3> QED
        BY <3>1 DEF Accounted
    <2>2. CASE n # new
      <3>1. n \in DOMAIN changes /\ changes[n] = v
        BY <1>1, <1>5, <2>2
      <3>2. Accounted(n, v)
        BY <3>1, AccountedSplit DEF IInv
      <3>3. writing[v] \subseteq writing'[v] /\ unsaid \subseteq unsaid'
        BY <1>2, <1>3 DEF IInv, TypeOK
      <3>4. Held(Home[v])' = Held(Home[v])
        BY <1>3, NotifyAssumption
      <3> QED
        BY <1>2, <1>3, <3>2, <3>3, <3>4 DEF Accounted
    <2> QED
      BY <2>1, <2>2
  <1> QED
    BY <1>4, <1>5, AccountedJoin

\* A change goes from its writer to the channel, or it has a wildcard.
LEMMA PublishAccounted ==
    ASSUME IInv, TypeOK', NEW w \in Writers, Publish(w)
    PROVE  LossesAreFaults' /\ ChangesAccountedFor'
  <1>1. PICK n \in writing[w] :
            \/ n \in wild /\ UNCHANGED channel
            \/ channel' = [channel EXCEPT ![Home[w]] = Append(@, n)]
    BY DEF Publish
  <1>2. /\ n \in Requests /\ Home[w] \in Instances /\ writing[w] = {n}
    BY NotifyAssumption DEF IInv, TypeOK, Requests, LossesAreFaults
  <1>3. /\ changes' = changes /\ brokered' = brokered /\ unsaid' = unsaid
        /\ wild' = wild
        /\ faults' = faults /\ conn' = conn /\ pending' = pending /\ sent' = sent
        /\ writing' = [writing EXCEPT ![w] = {}]
    BY DEF Publish, netVars, heardVars
  <1>4. /\ \A i \in Instances : Range(channel[i]) \subseteq Range(channel'[i])
        /\ n \in wild \/ n \in Range(channel'[Home[w]])
    <2>1. CASE n \in wild /\ UNCHANGED channel
      BY <2>1
    <2>2. CASE channel' = [channel EXCEPT ![Home[w]] = Append(@, n)]
      <3>1. channel'[Home[w]] = Append(channel[Home[w]], n)
        BY <1>2, <2>2 DEF IInv, TypeOK
      <3>2. Range(channel'[Home[w]]) = Range(channel[Home[w]]) \cup {n}
        BY <1>2, <3>1, RangeOfAppend DEF IInv, TypeOK
      <3>3. \A i \in Instances : i # Home[w] => channel'[i] = channel[i]
        BY <1>2, <2>2 DEF IInv, TypeOK
      <3> QED
        BY <3>2, <3>3
    <2> QED
      BY <1>1, <2>1, <2>2
  <1>5. \A i \in Instances : Held(i) \subseteq Held(i)'
    BY <1>3, <1>4 DEF Held
  <1>6. n \in wild' \/ n \in Held(Home[w])'
    BY <1>3, <1>4 DEF Held
  <1>7. \A v \in Writers : writing[v] \subseteq writing'[v] \cup wild' \cup Held(Home[v])'
    BY <1>2, <1>3, <1>6 DEF IInv, TypeOK
  <1>8. \A i \in Instances : faults[i] <= faults'[i]
    BY <1>3 DEF IInv, TypeOK
  <1>9. ChangesAccountedFor'
    BY <1>3, <1>5, <1>7, <1>8, HandingOn DEF IInv
  <1>10. LossesAreFaults'
    BY <1>3 DEF IInv, TypeOK, LossesAreFaults
  <1> QED
    BY <1>9, <1>10

LEMMA DropAccounted ==
    ASSUME IInv, TypeOK', NEW w \in Writers, Drop(w)
    PROVE  LossesAreFaults' /\ ChangesAccountedFor'
  <1>1. /\ changes' = changes /\ brokered' = brokered
        /\ unsaid' = unsaid \cup writing[w] /\ wild' = wild /\ faults' = faults
        /\ conn' = conn /\ pending' = pending
        /\ writing' = [writing EXCEPT ![w] = {}]
        /\ \A i \in Instances : Held(i)' = Held(i)
    BY DEF Drop, clientVars, netVars, heardVars, Held
  <1>2. \A v \in Writers : writing[v] \subseteq writing'[v] \cup unsaid'
    BY <1>1 DEF IInv, TypeOK
  <1>3. \A i \in Instances : faults[i] <= faults'[i]
    BY <1>1 DEF IInv, TypeOK
  <1>4. ChangesAccountedFor'
    BY <1>1, <1>2, <1>3, HandingOn DEF IInv
  <1> QED
    BY <1>1, <1>4 DEF IInv, TypeOK, LossesAreFaults

LEMMA ConnectAccounted ==
    ASSUME IInv, TypeOK', NEW i \in Instances, Connect(i)
    PROVE  LossesAreFaults' /\ ChangesAccountedFor'
  <1>1. PICK kept \in {pending[i], <<>>} : pending' = [pending EXCEPT ![i] = kept]
    BY DEF Connect
  <1>2. /\ changes' = changes /\ brokered' = brokered /\ unsaid' = unsaid /\ wild' = wild
        /\ writing' = writing /\ faults' = faults /\ channel' = channel /\ sent' = sent
        /\ conn' = [conn EXCEPT ![i] = "up"]
    BY DEF Connect, writerVars, heardVars
  <1>3. LossesAreFaults'
    BY <1>1, <1>2 DEF IInv, TypeOK, LossesAreFaults
  <1>4. \A j \in Instances : faults'[j] > 0 \/ pending'[j] = pending[j]
    BY <1>1, <1>2 DEF IInv, TypeOK, LossesAreFaults
  <1>5. \A j \in Instances : faults'[j] > 0 \/ Held(j) \subseteq Held(j)'
    BY <1>2, <1>4 DEF Held
  <1>6. \A j \in Instances : faults[j] <= faults'[j]
    BY <1>2 DEF IInv, TypeOK
  <1>7. ChangesAccountedFor'
    BY <1>2, <1>5, <1>6, HandingOn DEF IInv
  <1> QED
    BY <1>3, <1>7

LEMMA AskSubscribeAccounted ==
    ASSUME IInv, TypeOK', NEW i \in Instances, AskSubscribe(i)
    PROVE  LossesAreFaults' /\ ChangesAccountedFor'
  <1>1. /\ changes' = changes /\ brokered' = brokered /\ unsaid' = unsaid /\ wild' = wild
        /\ writing' = writing /\ faults' = faults /\ conn' = conn
        /\ pending' = pending /\ sent' = sent
        /\ channel' = [channel EXCEPT ![i] = Append(@, Subscribe)]
    BY DEF AskSubscribe, writerVars, netVars, heardVars
  <1>2. Range(Append(channel[i], Subscribe)) = Range(channel[i]) \cup {Subscribe}
    <2>1. channel[i] \in Seq(Requests) /\ Subscribe \in Requests
      BY DEF IInv, TypeOK, Requests
    <2> QED
      BY <2>1, RangeOfAppend
  <1>3. \A j \in Instances : Range(channel[j]) \subseteq Range(channel'[j])
    BY <1>1, <1>2 DEF IInv, TypeOK
  <1>4. \A j \in Instances : Held(j) \subseteq Held(j)'
    BY <1>1, <1>3 DEF Held
  <1>5. \A j \in Instances : faults[j] <= faults'[j]
    BY <1>1 DEF IInv, TypeOK
  <1>6. ChangesAccountedFor'
    BY <1>1, <1>4, <1>5, HandingOn DEF IInv
  <1> QED
    BY <1>1, <1>6 DEF IInv, LossesAreFaults

LEMMA SendAccounted ==
    ASSUME IInv, TypeOK', NEW i \in Instances, Send(i)
    PROVE  LossesAreFaults' /\ ChangesAccountedFor'
  <1>1. /\ changes' = changes /\ brokered' = brokered /\ unsaid' = unsaid /\ wild' = wild
        /\ writing' = writing /\ faults' = faults /\ conn' = conn
    BY DEF Send, writerVars, heardVars
  <1>2. ASSUME NEW s \in Seq(Requests), s # <<>>
        PROVE  Range(Append(sent[i], Head(s))) \cup Range(Tail(s))
                    = Range(sent[i]) \cup Range(s)
    <2>1. Head(s) \in Requests /\ Range(s) = {Head(s)} \cup Range(Tail(s))
      BY <1>2, RangeOfTail
    <2>2. Range(Append(sent[i], Head(s))) = Range(sent[i]) \cup {Head(s)}
      BY <2>1, RangeOfAppend DEF IInv, TypeOK
    <2> QED
      BY <2>1, <2>2
  <1>3. CASE /\ pending[i] # <<>>
             /\ sent' = [sent EXCEPT ![i] = Append(@, Head(pending[i]))]
             /\ pending' = [pending EXCEPT ![i] = Tail(@)]
             /\ UNCHANGED channel
    <2>1. Range(sent'[i]) \cup Range(pending'[i]) = Range(sent[i]) \cup Range(pending[i])
      <3>1. pending[i] \in Seq(Requests)
        BY DEF IInv, TypeOK
      <3>2. sent'[i] = Append(sent[i], Head(pending[i])) /\ pending'[i] = Tail(pending[i])
        BY <1>3 DEF IInv, TypeOK
      <3> QED
        BY <1>2, <1>3, <3>1, <3>2
    <2>2. ASSUME NEW j \in Instances
          PROVE  Held(j) \subseteq Held(j)'
      <3>1. CASE j = i
        BY <1>3, <2>1, <3>1 DEF Held
      <3>2. CASE j # i
        <4>1. sent'[j] = sent[j] /\ pending'[j] = pending[j] /\ channel'[j] = channel[j]
          BY <1>3, <3>2 DEF IInv, TypeOK
        <4> QED
          BY <4>1 DEF Held
      <3> QED
        BY <3>1, <3>2
    <2>3. \A j \in Instances : faults[j] <= faults'[j]
      BY <1>1 DEF IInv, TypeOK
    <2>4. ChangesAccountedFor'
      BY <1>1, <2>2, <2>3, HandingOn DEF IInv
    <2>5. \A j \in Instances : pending'[j] # <<>> => pending[j] # <<>>
      BY <1>3 DEF IInv, TypeOK
    <2> QED
      BY <1>1, <2>4, <2>5 DEF IInv, LossesAreFaults
  <1>4. CASE /\ channel[i] # <<>>
             /\ sent' = [sent EXCEPT ![i] = Append(@, Head(channel[i]))]
             /\ channel' = [channel EXCEPT ![i] = Tail(@)]
             /\ UNCHANGED pending
    <2>1. Range(sent'[i]) \cup Range(channel'[i]) = Range(sent[i]) \cup Range(channel[i])
      <3>1. channel[i] \in Seq(Requests)
        BY DEF IInv, TypeOK
      <3>2. sent'[i] = Append(sent[i], Head(channel[i])) /\ channel'[i] = Tail(channel[i])
        BY <1>4 DEF IInv, TypeOK
      <3> QED
        BY <1>2, <1>4, <3>1, <3>2
    <2>2. ASSUME NEW j \in Instances
          PROVE  Held(j) \subseteq Held(j)'
      <3>1. CASE j = i
        BY <1>4, <2>1, <3>1 DEF Held
      <3>2. CASE j # i
        <4>1. sent'[j] = sent[j] /\ pending'[j] = pending[j] /\ channel'[j] = channel[j]
          BY <1>4, <3>2 DEF IInv, TypeOK
        <4> QED
          BY <4>1 DEF Held
      <3> QED
        BY <3>1, <3>2
    <2>3. \A j \in Instances : faults[j] <= faults'[j]
      BY <1>1 DEF IInv, TypeOK
    <2>4. ChangesAccountedFor'
      BY <1>1, <2>2, <2>3, HandingOn DEF IInv
    <2> QED
      BY <1>1, <1>4, <2>4 DEF IInv, LossesAreFaults
  <1> QED
    BY <1>3, <1>4 DEF Send

LEMMA HandlePublishAccounted ==
    ASSUME IInv, TypeOK', NEW i \in Instances, HandlePublish(i)
    PROVE  LossesAreFaults' /\ ChangesAccountedFor'
  <1>1. /\ changes' = changes /\ brokered' = brokered /\ unsaid' = unsaid /\ wild' = wild
        /\ writing' = writing /\ faults' = faults /\ conn' = conn
        /\ pending' = pending /\ channel' = channel /\ sent' = sent
    BY DEF HandlePublish, writerVars, clientVars
  <1>2. \A j \in Instances : faults[j] <= faults'[j]
    BY <1>1 DEF IInv, TypeOK
  <1>3. \A j \in Instances : Held(j) \subseteq Held(j)'
    BY <1>1 DEF Held
  <1>4. ChangesAccountedFor'
    BY <1>1, <1>2, <1>3, HandingOn DEF IInv
  <1> QED
    BY <1>1, <1>4 DEF IInv, LossesAreFaults

\* A connection that is found broken was lost: the fault accounts for the rest.
LEMMA PollErrorAccounted ==
    ASSUME IInv, TypeOK', NEW i \in Instances, PollError(i)
    PROVE  LossesAreFaults' /\ ChangesAccountedFor'
  <1>1. /\ changes' = changes /\ brokered' = brokered /\ unsaid' = unsaid /\ wild' = wild
        /\ writing' = writing /\ faults' = faults
        /\ faults[i] > 0
    BY DEF PollError, writerVars, heardVars, IInv, LossesAreFaults
  <1>2. ASSUME NEW j \in Instances, j # i
        PROVE  /\ pending'[j] = pending[j] /\ channel'[j] = channel[j]
               /\ sent'[j] = sent[j] /\ conn'[j] = conn[j]
    BY <1>2 DEF PollError, IInv, TypeOK
  <1>3. \A j \in Instances : faults'[j] > 0 \/ Held(j) \subseteq Held(j)'
    BY <1>1, <1>2 DEF Held
  <1>4. \A j \in Instances : faults[j] <= faults'[j]
    BY <1>1 DEF IInv, TypeOK
  <1>5. ChangesAccountedFor'
    BY <1>1, <1>3, <1>4, HandingOn DEF IInv
  <1> QED
    BY <1>1, <1>2, <1>5 DEF IInv, LossesAreFaults

LEMMA BrokerHandlesAccounted ==
    ASSUME IInv, TypeOK', NEW i \in Instances, BrokerHandles(i)
    PROVE  LossesAreFaults' /\ ChangesAccountedFor'
  <1>1. /\ changes' = changes /\ unsaid' = unsaid /\ wild' = wild /\ writing' = writing
        /\ faults' = faults /\ conn' = conn /\ pending' = pending /\ channel' = channel
        /\ sent[i] # <<>> /\ sent' = [sent EXCEPT ![i] = Tail(@)]
    BY DEF BrokerHandles, writerVars, clientVars
  <1>2. brokered \subseteq brokered' /\ Head(sent[i]) \in brokered' \cup {Subscribe}
    BY DEF BrokerHandles, IsChange
  <1>3. ASSUME NEW j \in Instances
        PROVE  Held(j) \subseteq Held(j)' \cup brokered' \cup {Subscribe}
    <2>1. CASE j = i
      <3>1. Range(sent[i]) = {Head(sent[i])} \cup Range(sent'[i])
        <4>1. sent[i] \in Seq(Requests) /\ sent'[i] = Tail(sent[i])
          BY <1>1 DEF IInv, TypeOK
        <4> QED
          BY <1>1, <4>1, RangeOfTail
      <3> QED
        BY <1>1, <1>2, <2>1, <3>1 DEF Held
    <2>2. CASE j # i
      <3>1. sent'[j] = sent[j]
        BY <1>1, <2>2 DEF IInv, TypeOK
      <3> QED
        BY <1>1, <3>1 DEF Held
    <2> QED
      BY <2>1, <2>2
  <1>4. \A j \in Instances : faults[j] <= faults'[j]
    BY <1>1 DEF IInv, TypeOK
  <1>5. ChangesAccountedFor'
    BY <1>1, <1>2, <1>3, <1>4, HandingOn DEF IInv
  <1> QED
    BY <1>1, <1>5 DEF IInv, LossesAreFaults

LEMMA ConnectionLostAccounted ==
    ASSUME IInv, TypeOK', NEW i \in Instances, ConnectionLost(i)
    PROVE  LossesAreFaults' /\ ChangesAccountedFor'
  <1>1. /\ changes' = changes /\ unsaid' = unsaid /\ wild' = wild /\ writing' = writing
        /\ pending' = pending /\ channel' = channel /\ sent' = sent
        /\ brokered \subseteq brokered'
        /\ faults' = [faults EXCEPT ![i] = @ + 1]
        /\ conn' = [conn EXCEPT ![i] = "broken"]
    BY DEF ConnectionLost, writerVars, clientVars
  <1>2. /\ faults'[i] > 0
        /\ \A j \in Instances : faults[j] <= faults'[j]
        /\ \A j \in Instances : j # i => conn'[j] = conn[j] /\ faults'[j] = faults[j]
    BY <1>1 DEF IInv, TypeOK
  <1>3. \A j \in Instances : Held(j) \subseteq Held(j)'
    BY <1>1 DEF Held
  <1>4. ChangesAccountedFor'
    BY <1>1, <1>2, <1>3, HandingOn DEF IInv
  <1> QED
    BY <1>1, <1>2, <1>4 DEF IInv, LossesAreFaults

LEMMA RestartAccounted ==
    ASSUME IInv, TypeOK', NEW i \in Instances, Restart(i)
    PROVE  LossesAreFaults' /\ ChangesAccountedFor'
  <1>1. /\ changes' = changes /\ brokered' = brokered /\ unsaid \subseteq unsaid' /\ wild' = wild
        /\ writing' = [w \in Writers |-> IF Home[w] = i THEN {} ELSE writing[w]]
        /\ faults' = [faults EXCEPT ![i] = @ + 1]
    BY DEF Restart, heardVars
  <1>2. /\ faults'[i] > 0
        /\ \A j \in Instances : faults[j] <= faults'[j]
    <2>1. faults \in [Instances -> 0 .. MaxFaults]
      BY DEF IInv, TypeOK
    <2>2. faults' = [faults EXCEPT ![i] = @ + 1]
      BY <1>1
    <2> QED
      BY <2>1, <2>2
  <1>3. ASSUME NEW j \in Instances, j # i
        PROVE  /\ pending'[j] = pending[j] /\ channel'[j] = channel[j]
               /\ sent'[j] = sent[j] /\ conn'[j] = conn[j] /\ faults'[j] = faults[j]
    BY <1>3 DEF Restart, IInv, TypeOK
  <1>4. \A j \in Instances : faults'[j] > 0 \/ Held(j) \subseteq Held(j)'
    BY <1>2, <1>3 DEF Held
  <1>5. \A w \in Writers : faults'[Home[w]] > 0 \/ writing[w] \subseteq writing'[w]
    BY <1>1, <1>2
  <1>6. ChangesAccountedFor'
    BY <1>1, <1>2, <1>4, <1>5, HandingOn DEF IInv
  <1>7. \A w \in Writers : \A m, n \in writing'[w] : m = n
    BY <1>1 DEF IInv, LossesAreFaults
  <1>8. ASSUME NEW j \in Instances, conn'[j] = "broken" \/ pending'[j] # <<>>
        PROVE  faults'[j] > 0
    <2>1. CASE j = i
      BY <1>2, <2>1
    <2>2. CASE j # i
      BY <1>3, <1>8, <2>2 DEF IInv, LossesAreFaults
    <2> QED
      BY <2>1, <2>2
  <1> QED
    BY <1>6, <1>7, <1>8 DEF LossesAreFaults

LEMMA InvariantStep == IInv /\ [Next]_vars => IInv'
  <1> SUFFICES ASSUME IInv, [Next]_vars PROVE IInv'
    OBVIOUS
  <1>1. TypeOK'
    BY TypeStep DEF IInv
  <1>2. CASE UNCHANGED vars
    BY <1>1, <1>2 DEF vars, writerVars, clientVars, netVars, heardVars, IInv,
       LossesAreFaults, ChangesAccountedFor, Held
  <1>3. ASSUME NEW w \in Writers, Commit(w) \/ Publish(w) \/ Drop(w)
        PROVE  IInv'
    BY <1>1, <1>3, CommitAccounted, PublishAccounted, DropAccounted DEF IInv
  <1>4. ASSUME NEW i \in Instances,
               Poll(i) \/ BrokerHandles(i) \/ ConnectionLost(i) \/ Restart(i)
        PROVE  IInv'
    BY <1>1, <1>4, ConnectAccounted, AskSubscribeAccounted, SendAccounted,
       HandlePublishAccounted, PollErrorAccounted, BrokerHandlesAccounted,
       ConnectionLostAccounted, RestartAccounted DEF Poll, IInv
  <1> QED
    BY <1>2, <1>3, <1>4 DEF Next

\* A change that committed is on its way until the broker has it, unless its
\* request ended first, its instance lost a connection or restarted, or the
\* client refused its topic for a wildcard in it: a full channel, a slow loop or
\* another writer never cost one
\* (MqttNotifier::notify, NotifyingSettingsService, run_event_loop).
THEOREM ChangesAreAccountedFor == Spec => []ChangesAccountedFor
  <1>1. Init => IInv
    BY InitTypes, InitAccounted DEF IInv
  <1>2. IInv => ChangesAccountedFor
    BY DEF IInv
  <1> QED
    BY <1>1, <1>2, InvariantStep, PTL DEF Spec
=============================================================================
