------------------------- MODULE ConfigNotifications -------------------------
(***************************************************************************)
(* The notify slice: after a write has committed, and before its request   *)
(* is answered, a service instance hands a config-change message to its    *)
(* MQTT client.  The client is a bounded channel; the instance's event     *)
(* loop is the only one that takes requests out of it, sends them to the   *)
(* broker, and handles what the broker sends.  On every ConnAck the loop   *)
(* itself puts a subscription into that channel and waits for room.        *)
(*                                                                         *)
(* The client library and the broker are external.  They are modelled as   *)
(* the code relies on them: requests leave in order, a lost connection     *)
(* takes the subscription with it, and what the library does with requests *)
(* it was holding at that moment is left open.  A change is a number, in   *)
(* order of commit.                                                        *)
(***************************************************************************)
EXTENDS Naturals, Sequences, Functions

CONSTANTS
    Instances,  \* service instances, each with one client and one event loop
    Writers,    \* requests (and the demo publisher) that write settings
    Home,       \* writer -> the instance that serves it
    Capacity,   \* requests the channel of a client holds (64 in the code)
    MaxChanges, \* bound: committed writes
    MaxFaults   \* bound: lost connections and restarts of an instance

ASSUME NotifyAssumption ==
    /\ Home \in [Writers -> Instances]
    /\ Capacity \in Nat \ {0}
    /\ MaxChanges \in Nat
    /\ MaxFaults \in Nat

Changes == 1 .. MaxChanges
Subscribe == 0          \* the request to subscribe, in a channel of changes
Requests == Changes \cup {Subscribe}

VARIABLES
    changes,    \* the writers of the writes committed so far, in order
    writing,    \* writer -> the change it has committed and not handed over
    wild,       \* changes with a wildcard of MQTT, + or #, in their topic
    unsaid,     \* history: committed changes whose request ended before that
    channel,    \* instance -> requests waiting for the event loop
    pending,    \* instance -> requests the library kept from a lost connection
    loop,       \* instance -> "poll", or "subscribe": waiting for room
    conn,       \* instance -> "down", "up", or "broken": lost, not noticed yet
    sent,       \* instance -> requests on their way to the broker
    subscribed, \* instance -> the broker forwards messages to it
    inbox,      \* instance -> messages on their way back
    brokered,   \* history: changes that have reached the broker
    received,   \* history: instance -> changes its loop has handled
    faults      \* instance -> its lost connections and restarts

writerVars == <<changes, writing, wild, unsaid>>
clientVars == <<channel, pending, loop>>
netVars    == <<conn, sent, subscribed, inbox, faults>>
heardVars  == <<brokered, received>>
vars == <<writerVars, clientVars, netVars, heardVars>>

Init ==
    /\ changes = <<>>
    /\ writing = [w \in Writers |-> {}]
    /\ wild = {}
    /\ unsaid = {}
    /\ channel = [i \in Instances |-> <<>>]
    /\ pending = [i \in Instances |-> <<>>]
    /\ loop = [i \in Instances |-> "poll"]
    /\ conn = [i \in Instances |-> "down"]
    /\ sent = [i \in Instances |-> <<>>]
    /\ subscribed = [i \in Instances |-> FALSE]
    /\ inbox = [i \in Instances |-> <<>>]
    /\ brokered = {}
    /\ received = [i \in Instances |-> {}]
    /\ faults = [i \in Instances |-> 0]

-----------------------------------------------------------------------------
(* Writers: NotifyingSettingsService around the settings service.          *)

\* The inner put, patch or delete commits.  The decorator goes on to notify
\* only if it gets to see Ok: not when the answer of the database is lost, or is
\* a value that the service does not accept back.  The topic is settings/, the
\* tenant, / and the key, and these may have any characters in them.
Commit(w) ==
    /\ writing[w] = {}
    /\ Len(changes) < MaxChanges
    /\ changes' = Append(changes, w)
    /\ \/ /\ writing' = [writing EXCEPT ![w] = {Len(changes')}]
          /\ wild' \in {wild, wild \cup {Len(changes')}}
          /\ UNCHANGED unsaid
       \/ unsaid' = unsaid \cup {Len(changes')} /\ UNCHANGED <<writing, wild>>
    /\ UNCHANGED <<clientVars, netVars, heardVars>>

\* Variant with a bug: room for one more than the channel holds.
HasRoomOffByOne(i) == Len(channel[i]) <= Capacity
HasRoom(i) == Len(channel[i]) < Capacity

\* publish_with_properties(..).await waits for room, or refuses at once a topic
\* with a wildcard; that is only logged, and the request is answered as before.
\* Variant with a bug: try_publish, which gives up when there is no room.
TryPublish(w) ==
    /\ \E n \in writing[w] :
          channel' = [channel EXCEPT ![Home[w]] =
                        IF n \notin wild /\ HasRoom(Home[w]) THEN Append(@, n) ELSE @]
    /\ writing' = [writing EXCEPT ![w] = {}]
    /\ UNCHANGED <<changes, wild, unsaid, pending, loop, netVars, heardVars>>
Publish(w) ==
    /\ \E n \in writing[w] :
          \/ n \in wild /\ UNCHANGED channel
          \/ /\ n \notin wild /\ HasRoom(Home[w])
             /\ channel' = [channel EXCEPT ![Home[w]] = Append(@, n)]
    /\ writing' = [writing EXCEPT ![w] = {}]
    /\ UNCHANGED <<changes, wild, unsaid, pending, loop, netVars, heardVars>>

\* The caller goes away and the request is dropped while it waits.
Drop(w) ==
    /\ writing[w] # {}
    /\ unsaid' = unsaid \cup writing[w]
    /\ writing' = [writing EXCEPT ![w] = {}]
    /\ UNCHANGED <<changes, wild, clientVars, netVars, heardVars>>

-----------------------------------------------------------------------------
(* The event loop of an instance.                                          *)

\* poll() connects and returns the ConnAck; the loop is to subscribe.  The
\* library may forget what it kept, when the broker has no session either.
\* Variant with a bug: a subscription for the first connection only.
ConnectSubscribedOnce(i) ==
    /\ loop[i] = "poll" /\ conn[i] = "down"
    /\ conn' = [conn EXCEPT ![i] = "up"]
    /\ loop' = [loop EXCEPT ![i] = IF faults[i] = 0 THEN "subscribe" ELSE "poll"]
    /\ UNCHANGED <<writerVars, channel, pending, sent, subscribed, inbox, faults,
                   heardVars>>
Connect(i) ==
    /\ loop[i] = "poll" /\ conn[i] = "down"
    /\ conn' = [conn EXCEPT ![i] = "up"]
    /\ loop' = [loop EXCEPT ![i] = "subscribe"]
    /\ \E kept \in {pending[i], <<>>} : pending' = [pending EXCEPT ![i] = kept]
    /\ UNCHANGED <<writerVars, channel, sent, subscribed, inbox, faults, heardVars>>

\* client.subscribe(..).await, called by the loop itself, finds room.
AskSubscribe(i) ==
    /\ loop[i] = "subscribe" /\ HasRoom(i)
    /\ channel' = [channel EXCEPT ![i] = Append(@, Subscribe)]
    /\ loop' = [loop EXCEPT ![i] = "poll"]
    /\ UNCHANGED <<writerVars, pending, netVars, heardVars>>

\* poll() sends a request: what was kept from the last connection goes first.
Send(i) ==
    /\ loop[i] = "poll" /\ conn[i] = "up"
    /\ \/ /\ pending[i] # <<>>
          /\ sent' = [sent EXCEPT ![i] = Append(@, Head(pending[i]))]
          /\ pending' = [pending EXCEPT ![i] = Tail(@)]
          /\ UNCHANGED channel
       \/ /\ pending[i] = <<>> /\ channel[i] # <<>>
          /\ sent' = [sent EXCEPT ![i] = Append(@, Head(channel[i]))]
          /\ channel' = [channel EXCEPT ![i] = Tail(@)]
          /\ UNCHANGED pending
    /\ UNCHANGED <<writerVars, loop, conn, subscribed, inbox, faults, heardVars>>

\* poll() returns a message: handle_publish.
\* Variant with a bug: an instance passes over the changes it made itself.
HandleOthersOnly(i) ==
    /\ loop[i] = "poll" /\ conn[i] = "up" /\ inbox[i] # <<>>
    /\ received' = [received EXCEPT ![i] =
                      @ \cup {n \in {Head(inbox[i])} : Home[changes[n]] # i}]
    /\ inbox' = [inbox EXCEPT ![i] = Tail(@)]
    /\ UNCHANGED <<writerVars, clientVars, conn, sent, subscribed, faults, brokered>>
HandlePublish(i) ==
    /\ loop[i] = "poll" /\ conn[i] = "up" /\ inbox[i] # <<>>
    /\ received' = [received EXCEPT ![i] = @ \cup {Head(inbox[i])}]
    /\ inbox' = [inbox EXCEPT ![i] = Tail(@)]
    /\ UNCHANGED <<writerVars, clientVars, conn, sent, subscribed, faults, brokered>>

IsChange(m) == m # Subscribe

\* The changes among the requests s, in their order.
ChangesIn(s) ==
    LET among[k \in 0 .. Len(s)] ==
            IF k = 0 THEN <<>>
            ELSE IF IsChange(s[k]) THEN Append(among[k - 1], s[k]) ELSE among[k - 1]
    IN  among[Len(s)]

\* poll() returns an error: the loop sleeps, then polls again.  The library
\* keeps what was not acknowledged, and takes what waits in the channel.
PollError(i) ==
    /\ loop[i] = "poll" /\ conn[i] = "broken"
    /\ conn' = [conn EXCEPT ![i] = "down"]
    /\ pending' = [pending EXCEPT ![i] =
                      ChangesIn(sent[i]) \o @ \o channel[i]]
    /\ channel' = [channel EXCEPT ![i] = <<>>]
    /\ sent' = [sent EXCEPT ![i] = <<>>]
    /\ UNCHANGED <<writerVars, loop, subscribed, inbox, faults, heardVars>>

-----------------------------------------------------------------------------
(* The broker, and what can go wrong.                                      *)

Forwarded(m) ==
    [j \in Instances |-> IF subscribed[j] THEN Append(inbox[j], m) ELSE inbox[j]]

\* The broker handles the next request of i: a subscription, or a change, which
\* it forwards to every subscriber (i itself among them) and acknowledges.
BrokerHandles(i) ==
    /\ conn[i] = "up" /\ sent[i] # <<>>
    /\ LET m == Head(sent[i])
       IN  IF IsChange(m)
           THEN /\ brokered' = brokered \cup {m}
                /\ inbox' = Forwarded(m)
                /\ UNCHANGED subscribed
           ELSE /\ subscribed' = [subscribed EXCEPT ![i] = TRUE]
                /\ UNCHANGED <<inbox, brokered>>
    /\ sent' = [sent EXCEPT ![i] = Tail(@)]
    /\ UNCHANGED <<writerVars, clientVars, conn, faults, received>>

\* The connection of i breaks, and the session ends with it.  The broker may
\* have taken the next change without i getting to know (sent again later).
ConnectionLost(i) ==
    /\ conn[i] = "up" /\ faults[i] < MaxFaults
    /\ faults' = [faults EXCEPT ![i] = @ + 1]
    /\ conn' = [conn EXCEPT ![i] = "broken"]
    /\ subscribed' = [subscribed EXCEPT ![i] = FALSE]
    /\ \/ inbox' = [inbox EXCEPT ![i] = <<>>] /\ UNCHANGED brokered
       \/ /\ sent[i] # <<>> /\ IsChange(Head(sent[i]))
          /\ brokered' = brokered \cup {Head(sent[i])}
          /\ inbox' = [Forwarded(Head(sent[i])) EXCEPT ![i] = <<>>]
    /\ UNCHANGED <<writerVars, clientVars, sent, received>>

\* The process of i ends and is started again: nothing of it was stored.
Restart(i) ==
    /\ faults[i] < MaxFaults
    /\ faults' = [faults EXCEPT ![i] = @ + 1]
    /\ unsaid' = unsaid \cup UNION {writing[w] : w \in {v \in Writers : Home[v] = i}}
    /\ writing' = [w \in Writers |-> IF Home[w] = i THEN {} ELSE writing[w]]
    /\ channel' = [channel EXCEPT ![i] = <<>>]
    /\ pending' = [pending EXCEPT ![i] = <<>>]
    /\ sent' = [sent EXCEPT ![i] = <<>>]
    /\ inbox' = [inbox EXCEPT ![i] = <<>>]
    /\ loop' = [loop EXCEPT ![i] = "poll"]
    /\ conn' = [conn EXCEPT ![i] = "down"]
    /\ subscribed' = [subscribed EXCEPT ![i] = FALSE]
    /\ UNCHANGED <<changes, wild, heardVars>>

-----------------------------------------------------------------------------
Poll(i) == Connect(i) \/ AskSubscribe(i) \/ Send(i) \/ HandlePublish(i) \/ PollError(i)

Next ==
    \/ \E w \in Writers : Commit(w) \/ Publish(w) \/ Drop(w)
    \/ \E i \in Instances : Poll(i) \/ BrokerHandles(i)
                            \/ ConnectionLost(i) \/ Restart(i)

\* The tasks of an instance run whenever they can; the broker is reachable
\* again some time after a fault, and serves its connections.  select! in
\* poll() takes turns, so neither side of a connection starves the other.
Fairness ==
    /\ \A w \in Writers : WF_vars(Publish(w))
    /\ \A i \in Instances :
          /\ WF_vars(Connect(i)) /\ WF_vars(AskSubscribe(i)) /\ WF_vars(Send(i))
          /\ WF_vars(HandlePublish(i)) /\ WF_vars(PollError(i))
          /\ WF_vars(BrokerHandles(i))

Spec == Init /\ [][Next]_vars
FairSpec == Spec /\ Fairness

-----------------------------------------------------------------------------
(* Properties.                                                             *)

\* The variables have their types: in particular a channel never holds more than
\* its capacity, although writers and the loop itself add to it.
TypeOK ==
    /\ changes \in Seq(Writers) /\ Len(changes) <= MaxChanges
    /\ writing \in [Writers -> SUBSET Changes]
    /\ wild \subseteq Changes /\ unsaid \subseteq Changes
    /\ channel \in [Instances -> Seq(Requests)]
    /\ \A i \in Instances : Len(channel[i]) <= Capacity
    /\ pending \in [Instances -> Seq(Requests)]
    /\ loop \in [Instances -> {"poll", "subscribe"}]
    /\ conn \in [Instances -> {"down", "up", "broken"}]
    /\ sent \in [Instances -> Seq(Requests)]
    /\ subscribed \in [Instances -> BOOLEAN]
    /\ inbox \in [Instances -> Seq(Changes)]
    /\ brokered \subseteq Changes
    /\ received \in [Instances -> SUBSET Changes]
    /\ faults \in [Instances -> 0 .. MaxFaults]

Held(i) == Range(channel[i]) \cup Range(pending[i]) \cup Range(sent[i])

\* A change that committed is somewhere on its way until the broker has it.  It
\* is lost in no other way than these: with its request (the caller gone, the
\* database's answer lost or not accepted back), with a connection or a restart
\* of its instance, or because its topic has a wildcard and the client refuses
\* it, which no caller gets to know.  A full channel never costs a change.
ChangesAccountedFor ==
    \A n \in DOMAIN changes :
        LET w == changes[n]
        IN  \/ n \in brokered \cup unsaid \cup writing[w] \cup Held(Home[w])
            \/ n \in wild
            \/ faults[Home[w]] > 0

\* The loop waits for room in a channel that only the loop empties.
Stuck(i) == loop[i] = "subscribe" /\ ~ HasRoom(i)

\* After every lost connection and restart an instance comes to be subscribed
\* again, unless its loop has locked itself out.
Resubscribed == \A i \in Instances : []<>(subscribed[i] \/ Stuck(i))

\* A change that waits in the channel of an instance with a connection reaches
\* every subscriber that stays subscribed, unless that connection is lost or a
\* loop has locked itself out.
Delivered ==
    \A i, j \in Instances : \A n \in Changes :
        conn[i] = "up" /\ subscribed[j] /\ n \in Range(channel[i])
        ~> \/ n \in received[j] \/ ~ subscribed[j]
           \/ conn[i] # "up" \/ Stuck(i) \/ Stuck(j)

-----------------------------------------------------------------------------
(* A property that the comments of the code state and that does not hold.  *)

\* "(re)subscribe on every ConnAck", "robust across reconnects": an instance that
\* has a connection comes to be subscribed, as long as it is not lost.  Fails
\* when writers fill the channel while there is no connection: the loop waits
\* for room that only the loop could make.
SubscribesOnConnAck ==
    \A i \in Instances : conn[i] = "up" ~> subscribed[i] \/ conn[i] # "up"
=============================================================================
