--------------------------- MODULE BroadcasterProofs ---------------------------
(***************************************************************************)
(* Theorems about Broadcaster, for any connections and any capacity.       *)
(***************************************************************************)
EXTENDS Broadcaster, SequenceTheorems, TLAPS

(***************************************************************************)
(* The inductive invariant.  NoMissedEvent and DeliveredInOrder are stated *)
(* over Upcoming; here they are spelled out for the event in hand and for  *)
(* the channel.  Both need that clients holds exactly the connections that *)
(* are open: publish copies clients, and subscribe reads current, in one   *)
(* critical section each.                                                  *)
(***************************************************************************)
ClientsAreOpen == \A c \in Connections : c \in clients <=> serving[c] # "closed"

ChannelOrdered(c) ==
  \A i, j \in 1 .. Len(channel[c]) : i < j => channel[c][i].id < channel[c][j].id

\* An event of a connection with number id is newer than what the browser has
\* and no newer than what was published.
Coming(c, id) ==
  /\ received[c] < id /\ id <= current.id
  /\ c \in sending => id < current.id

OpenOrdered(c) ==
  /\ \A i \in 1 .. Len(channel[c]) :
       /\ serving[c] # "closed" => Coming(c, channel[c][i].id)
       /\ serving[c] = "writing" => writing[c].id < channel[c][i].id
  /\ serving[c] = "writing" => Coming(c, writing[c].id)
  /\ serving[c] # "closed" =>
       /\ received[c] <= current.id
       /\ c \in sending => received[c] < current.id

\* The number of the newest event, by where it is.
NewestID(c) ==
  IF channel[c] # <<>> THEN channel[c][Len(channel[c])].id
  ELSE IF serving[c] = "writing" THEN writing[c].id ELSE received[c]

LatestComing(c) ==
  serving[c] \in {"writing", "waiting"} =>
    NewestID(c) = current.id \/ c \in sending \/ c \in missed

Tidy(c) == ChannelOrdered(c) /\ OpenOrdered(c) /\ LatestComing(c)

IInv == TypeOK /\ ClientsAreOpen /\ \A c \in Connections : Tidy(c)

-----------------------------------------------------------------------------
LEMMA EventType ==
  ASSUME NEW e \in Events
  PROVE  e.type \in EventTypes /\ e.id \in 0 .. MaxEvents
BY DEF Events

LEMMA TypeInit == Init => TypeOK
<1> SUFFICES ASSUME Init PROVE TypeOK
  OBVIOUS
<1>1. NoEvents \in Events
  BY MaxEventsType, ReadyIsAnEvent DEF NoEvents, Events
<1>2. <<>> \in Seq(Events) /\ Len(<<>>) = 0
  OBVIOUS
<1>3. stopping \in BOOLEAN
  BY DEF Init
<1> QED
  BY <1>1, <1>2, <1>3, CapacityType, MaxEventsType DEF Init, TypeOK

\* Every step keeps the type invariant.
LEMMA TypeNext == TypeOK /\ [Next]_broadcasterVars => TypeOK'
<1> SUFFICES ASSUME TypeOK, [Next]_broadcasterVars PROVE TypeOK'
  OBVIOUS
<1> USE CapacityType, MaxEventsType
<1>1. ASSUME NEW type \in EventTypes, Publish(type)
      PROVE  TypeOK'
  <2>1. current.id + 1 \in 0 .. MaxEvents
    BY <1>1, EventType DEF Publish, TypeOK
  <2>2. current' \in Events
    BY <1>1, <2>1 DEF Publish, Events
  <2> QED BY <1>1, <2>2 DEF Publish, TypeOK, sockets
<1>2. ASSUME NEW c \in Connections, Send(c)
      PROVE  TypeOK'
  <2>1. CASE Len(channel[c]) < Capacity
    <3>1. /\ Append(channel[c], current) \in Seq(Events)
          /\ Len(Append(channel[c], current)) = Len(channel[c]) + 1
          /\ Len(channel[c]) \in Nat
      BY DEF TypeOK
    <3>2. channel' \in [Connections -> Seq(Events)]
      BY <1>2, <2>1, <3>1 DEF Send, TypeOK
    <3>3. \A d \in Connections : Len(channel'[d]) <= Capacity
      <4>1. /\ channel'[c] = Append(channel[c], current)
            /\ \A d \in Connections \ {c} : channel'[d] = channel[d]
        BY <1>2, <2>1 DEF Send, TypeOK
      <4>2. Len(channel'[c]) <= Capacity
        BY <2>1, <3>1, <4>1
      <4> QED BY <4>1, <4>2 DEF TypeOK
    <3> QED BY <1>2, <2>1, <3>2, <3>3 DEF Send, TypeOK
  <2>2. CASE ~(Len(channel[c]) < Capacity)
    BY <1>2, <2>2 DEF Send, TypeOK
  <2> QED BY <2>1, <2>2
<1>3. ASSUME NEW c \in Connections, Subscribe(c)
      PROVE  TypeOK'
  <2>1. /\ channel' \in [Connections -> Seq(Events)]
        /\ \A d \in Connections : Len(channel'[d]) <= Capacity
    BY <1>3 DEF Subscribe, TypeOK
  <2>2. received' \in [Connections -> -1 .. MaxEvents]
    BY <1>3 DEF Subscribe, TypeOK
  <2> QED BY <1>3, <2>1, <2>2 DEF Subscribe, Goto, TypeOK, publisher
<1>4. ASSUME NEW c \in Connections, Write(c)
      PROVE  TypeOK'
  <2>1. writing[c].id \in -1 .. MaxEvents
    BY EventType DEF TypeOK
  <2> QED BY <1>4, <2>1 DEF Write, Goto, TypeOK, publisher
<1>5. ASSUME NEW c \in Connections, Serve(c)
      PROVE  TypeOK'
  <2>1. CASE Take(c)
    <3>1. /\ Head(channel[c]) \in Events
          /\ Tail(channel[c]) \in Seq(Events)
          /\ Len(Tail(channel[c])) = Len(channel[c]) - 1
      BY <2>1 DEF Take, TypeOK
    <3> QED BY <2>1, <3>1 DEF Take, Goto, TypeOK, publisher
  <2>2. CASE WriteFails(c) \/ SocketDone(c) \/ ServerDone(c)
    BY <2>2 DEF WriteFails, SocketDone, ServerDone, Goto, TypeOK, publisher
  <2>3. CASE Unsubscribe(c)
    BY <2>3 DEF Unsubscribe, Goto, TypeOK
  <2> QED BY <1>5, <2>1, <2>2, <2>3 DEF Serve
<1>6. ASSUME NEW c \in Connections, Close(c)
      PROVE  TypeOK'
  BY <1>6 DEF Close, TypeOK, publisher
<1>7. CASE Interrupt
  BY <1>7 DEF Interrupt, TypeOK, publisher, sockets
<1>8. CASE UNCHANGED broadcasterVars
  BY <1>8 DEF TypeOK, broadcasterVars, publisher, sockets
<1> QED BY <1>1, <1>2, <1>3, <1>4, <1>5, <1>6, <1>7, <1>8 DEF Next

\* The variables of the broadcaster keep the shape of the Go values, and no
\* channel ever holds more events than its buffer.
THEOREM TypeCorrect == Spec => []TypeOK
BY TypeInit, TypeNext, PTL DEF Spec

-----------------------------------------------------------------------------
\* The set of clients and the goroutines agree.
LEMMA ClientsNext ==
  TypeOK /\ ClientsAreOpen /\ [Next]_broadcasterVars => ClientsAreOpen'
<1> SUFFICES ASSUME TypeOK, ClientsAreOpen, [Next]_broadcasterVars
             PROVE  ClientsAreOpen'
  OBVIOUS
<1> USE DEF ClientsAreOpen, TypeOK
<1>1. ASSUME NEW c \in Connections, Subscribe(c) \/ Write(c) \/ Serve(c)
      PROVE  ClientsAreOpen'
  BY <1>1 DEF Subscribe, Write, Serve, WriteFails, Take, SocketDone, ServerDone,
              Unsubscribe, Goto
<1>2. CASE UNCHANGED <<clients, serving>>
  BY <1>2
<1> QED
  BY <1>1, <1>2 DEF Next, Publish, Send, Close, Interrupt, broadcasterVars, sockets

\* A connection is untouched by a step that changes nothing of its own.
LEMMA TidyUntouched ==
  ASSUME NEW c \in Connections, Tidy(c),
         UNCHANGED <<current, serving[c], channel[c], writing[c], received[c]>>,
         c \in sending <=> c \in sending',
         c \in missed <=> c \in missed'
  PROVE  Tidy(c)'
BY DEF Tidy, ChannelOrdered, OpenOrdered, Coming, LatestComing, NewestID

\* The number of an event is a natural number, and that of the last event the
\* browser has is -1 or one.
LEMMA Numbers ==
  ASSUME TypeOK, NEW c \in Connections
  PROVE  /\ current.id \in Nat /\ writing[c].id \in Nat
         /\ received[c] \in Int
         /\ channel[c] \in Seq(Events) /\ Len(channel[c]) \in Nat
         /\ \A i \in 1 .. Len(channel[c]) : channel[c][i].id \in Nat
<1>1. current.id \in 0 .. MaxEvents /\ writing[c].id \in 0 .. MaxEvents
  BY EventType DEF TypeOK
<1>2. channel[c] \in Seq(Events) /\ Len(channel[c]) \in Nat
  BY DEF TypeOK
<1>3. \A i \in 1 .. Len(channel[c]) : channel[c][i] \in Events
  BY <1>2
<1>4. received[c] \in -1 .. MaxEvents
  BY DEF TypeOK
<1> QED BY <1>1, <1>2, <1>3, <1>4, MaxEventsType, EventType

\* publish: every open connection still has to get the new event.
LEMMA PublishTidy ==
  ASSUME TypeOK, ClientsAreOpen, NEW type \in EventTypes, Publish(type),
         NEW c \in Connections, Tidy(c)
  PROVE  Tidy(c)'
<1>1. /\ current'.id = current.id + 1
      /\ sending' = clients
      /\ UNCHANGED <<channel, serving, writing, received, missed>>
  BY DEF Publish, sockets
<1>2. serving[c] # "closed" => c \in sending'
  BY <1>1 DEF ClientsAreOpen
<1>3. LatestComing(c)'
  BY <1>1, <1>2 DEF LatestComing
<1>4. ChannelOrdered(c)'
  BY <1>1 DEF Tidy, ChannelOrdered
<1>5. serving[c] = "writing" => Coming(c, writing[c].id)'
  BY <1>1, Numbers DEF Tidy, OpenOrdered, Coming
<1>6. ASSUME NEW i \in 1 .. Len(channel[c])
      PROVE  /\ serving[c] # "closed" => Coming(c, channel[c][i].id)'
             /\ serving[c] = "writing" => writing[c].id < channel[c][i].id
  BY <1>1, Numbers DEF Tidy, OpenOrdered, Coming
<1>7. OpenOrdered(c)'
  BY <1>1, <1>5, <1>6, Numbers DEF Tidy, OpenOrdered
<1> QED BY <1>3, <1>4, <1>7 DEF Tidy

\* One send: the event that is newer than all others goes to the end.
LEMMA SendTidy ==
  ASSUME TypeOK, ClientsAreOpen, NEW c \in Connections, Send(c), Tidy(c)
  PROVE  Tidy(c)'
<1>1. /\ c \in sending /\ c \notin sending'
      /\ UNCHANGED <<current, serving, writing, received>>
  BY DEF Send
<1>2. serving[c] # "closed"
  BY <1>1 DEF TypeOK, ClientsAreOpen
<1>3. CASE Len(channel[c]) < Capacity
  <2>1. channel'[c] = Append(channel[c], current)
    BY <1>3 DEF Send, TypeOK
  <2>2. /\ Len(channel'[c]) = Len(channel[c]) + 1
        /\ \A i \in 1 .. Len(channel[c]) : channel'[c][i] = channel[c][i]
        /\ channel'[c][Len(channel[c]) + 1] = current
        /\ channel'[c] # <<>>
    BY <2>1, Numbers, AppendProperties DEF TypeOK
  <2>3. NewestID(c)' = current.id
    BY <2>2 DEF NewestID
  <2>4. \A i \in 1 .. Len(channel[c]) : channel[c][i].id < current.id
    BY <1>1, <1>2 DEF Tidy, OpenOrdered, Coming
  <2>5. ASSUME NEW i \in 1 .. Len(channel'[c]), NEW j \in 1 .. Len(channel'[c]), i < j
        PROVE  channel'[c][i].id < channel'[c][j].id
    <3>1. i \in 1 .. Len(channel[c]) /\ Len(channel[c]) \in Nat
      BY <2>2, <2>5, Numbers
    <3>2. CASE j \in 1 .. Len(channel[c])
      BY <2>2, <2>5, <3>1, <3>2 DEF Tidy, ChannelOrdered
    <3>3. CASE j = Len(channel[c]) + 1
      BY <2>2, <2>4, <3>1, <3>3
    <3> QED BY <2>2, <3>1, <3>2, <3>3
  <2>6. serving[c] = "writing" => Coming(c, writing[c].id)'
    BY <1>1 DEF Tidy, OpenOrdered, Coming
  <2>7. received[c] < current.id
    BY <1>1, <1>2 DEF Tidy, OpenOrdered
  <2>8. ASSUME NEW i \in 1 .. Len(channel'[c])
        PROVE  /\ Coming(c, channel[c][i].id)'
               /\ serving[c] = "writing" => writing[c].id < channel'[c][i].id
    <3>1. CASE i \in 1 .. Len(channel[c])
      BY <1>1, <1>2, <2>2, <3>1 DEF Tidy, OpenOrdered, Coming
    <3>2. CASE i = Len(channel[c]) + 1
      <4>1. channel'[c][i].id = current.id
        BY <2>2, <3>2
      <4>2. serving[c] = "writing" => writing[c].id < current.id
        BY <1>1 DEF Tidy, OpenOrdered, Coming
      <4> QED BY <1>1, <2>7, <4>1, <4>2, Numbers DEF Coming
    <3> QED BY <2>2, <2>8, <3>1, <3>2, Numbers
  <2>9. OpenOrdered(c)'
    BY <1>1, <2>6, <2>7, <2>8, Numbers DEF OpenOrdered
  <2>10. LatestComing(c)'
    BY <1>1, <2>3 DEF LatestComing
  <2> QED BY <2>5, <2>9, <2>10 DEF Tidy, ChannelOrdered
<1>4. CASE ~(Len(channel[c]) < Capacity)
  <2>1. channel'[c] = channel[c] /\ c \in missed'
    BY <1>4 DEF Send
  <2> QED BY <1>1, <2>1
          DEF Tidy, ChannelOrdered, OpenOrdered, Coming, LatestComing, NewestID
<1> QED BY <1>3, <1>4

\* subscribe: an empty channel, and the current event to be written.
LEMMA SubscribeTidy ==
  ASSUME TypeOK, ClientsAreOpen, NEW c \in Connections, Subscribe(c)
  PROVE  Tidy(c)'
<1>1. /\ serving[c] = "closed" /\ serving'[c] = "writing"
      /\ channel'[c] = <<>> /\ writing'[c] = current /\ received'[c] = -1
      /\ UNCHANGED <<current, sending>>
  BY DEF Subscribe, Goto, TypeOK, publisher
<1>2. c \notin sending'
  BY <1>1 DEF TypeOK, ClientsAreOpen
<1>3. Len(channel'[c]) = 0
  BY <1>1
<1>4. -1 < current.id
  BY Numbers
<1>5. ChannelOrdered(c)'
  BY <1>3 DEF ChannelOrdered
<1>6. Coming(c, writing[c].id)'
  BY <1>1, <1>2, <1>4, Numbers DEF Coming
<1>7. OpenOrdered(c)'
  BY <1>1, <1>2, <1>3, <1>4, <1>6, Numbers DEF OpenOrdered
<1>8. LatestComing(c)'
  BY <1>1 DEF LatestComing, NewestID
<1> QED BY <1>5, <1>7, <1>8 DEF Tidy

\* A write that succeeds: the event in hand has reached the browser.
LEMMA WriteTidy ==
  ASSUME TypeOK, NEW c \in Connections, Write(c), Tidy(c)
  PROVE  Tidy(c)'
<1>1. /\ serving[c] = "writing" /\ serving'[c] = "waiting"
      /\ received'[c] = writing[c].id
      /\ UNCHANGED <<current, sending, channel, writing, missed>>
  BY DEF Write, Goto, TypeOK, publisher
<1>2. OpenOrdered(c)'
  BY <1>1, Numbers DEF Tidy, OpenOrdered, Coming
<1>3. LatestComing(c)'
  BY <1>1 DEF Tidy, LatestComing, NewestID
<1>4. ChannelOrdered(c)'
  BY <1>1 DEF Tidy, ChannelOrdered
<1> QED BY <1>2, <1>3, <1>4 DEF Tidy

\* The oldest event of the channel becomes the event in hand.
LEMMA TakeTidy ==
  ASSUME TypeOK, NEW c \in Connections, Take(c), Tidy(c)
  PROVE  Tidy(c)'
<1> DEFINE n == Len(channel[c])
<1>1. /\ serving[c] = "waiting" /\ serving'[c] = "writing"
      /\ channel[c] # <<>>
      /\ writing'[c] = Head(channel[c])
      /\ channel'[c] = Tail(channel[c])
      /\ UNCHANGED <<current, sending, received, missed>>
  BY DEF Take, Goto, TypeOK, publisher
<1>2. /\ n \in Nat /\ n > 0
      /\ writing'[c] = channel[c][1]
      /\ Len(channel'[c]) = n - 1
      /\ \A i \in 1 .. n - 1 : channel'[c][i] = channel[c][i + 1]
  BY <1>1, Numbers, HeadTailProperties
<1> HIDE DEF n
<1>3. /\ \A i \in 1 .. n : received[c] < channel[c][i].id /\ channel[c][i].id <= current.id
      /\ c \in sending => \A i \in 1 .. n : channel[c][i].id < current.id
      /\ \A i, j \in 1 .. n : i < j => channel[c][i].id < channel[c][j].id
      /\ received[c] <= current.id
      /\ c \in sending => received[c] < current.id
      /\ channel[c][n].id = current.id \/ c \in sending \/ c \in missed
  BY <1>1 DEF n, Tidy, ChannelOrdered, OpenOrdered, Coming, LatestComing, NewestID
<1>4. ASSUME NEW i \in 1 .. Len(channel'[c]), NEW j \in 1 .. Len(channel'[c]), i < j
      PROVE  channel'[c][i].id < channel'[c][j].id
  <2>1. i + 1 \in 1 .. n /\ j + 1 \in 1 .. n /\ i + 1 < j + 1
    BY <1>2, <1>4
  <2>2. channel'[c][i] = channel[c][i + 1] /\ channel'[c][j] = channel[c][j + 1]
    BY <1>2
  <2> QED BY <1>3, <2>1, <2>2
<1>5. Coming(c, writing[c].id)'
  BY <1>1, <1>2, <1>3 DEF Coming
<1>6. ASSUME NEW i \in 1 .. Len(channel'[c])
      PROVE  Coming(c, channel[c][i].id)' /\ writing'[c].id < channel'[c][i].id
  <2>1. i + 1 \in 1 .. n /\ 1 \in 1 .. n /\ 1 < i + 1
    BY <1>2
  <2>2. channel'[c][i] = channel[c][i + 1]
    BY <1>2
  <2> QED BY <1>1, <1>2, <1>3, <2>1, <2>2 DEF Coming
<1>7. OpenOrdered(c)'
  BY <1>1, <1>3, <1>5, <1>6 DEF OpenOrdered
<1>8. LatestComing(c)'
  <2>1. CASE n = 1
    <3>1. channel'[c] = <<>>
      BY <1>1, <1>2, <2>1, Numbers, HeadTailProperties
    <3> QED BY <1>1, <1>2, <1>3, <2>1, <3>1 DEF LatestComing, NewestID
  <2>2. CASE n > 1
    <3>1. channel'[c] # <<>> /\ channel'[c][n - 1] = channel[c][n]
      BY <1>2, <2>2
    <3> QED BY <1>1, <1>2, <1>3, <3>1 DEF LatestComing, NewestID
  <2> QED BY <1>2, <2>1, <2>2
<1> QED BY <1>4, <1>7, <1>8 DEF Tidy, ChannelOrdered

\* A connection that leaves, or has left, promises less.
LEMMA LeaveTidy ==
  ASSUME TypeOK, NEW c \in Connections, Tidy(c),
         WriteFails(c) \/ SocketDone(c) \/ ServerDone(c) \/ Unsubscribe(c)
  PROVE  Tidy(c)'
<1>1. /\ serving[c] # "closed"
      /\ serving'[c] \in {"leaving", "closed"}
      /\ UNCHANGED <<current, channel, writing, received>>
      /\ c \in sending' => c \in sending
  BY DEF WriteFails, SocketDone, ServerDone, Unsubscribe, Goto, TypeOK, publisher
<1> QED BY <1>1 DEF Tidy, ChannelOrdered, OpenOrdered, Coming, LatestComing

-----------------------------------------------------------------------------
LEMMA InitIInv == Init => IInv
<1> SUFFICES ASSUME Init PROVE IInv
  OBVIOUS
<1>1. ClientsAreOpen
  BY DEF Init, ClientsAreOpen
<1>2. ASSUME NEW c \in Connections
      PROVE  Tidy(c)
  <2>1. serving[c] = "closed" /\ channel[c] = <<>> /\ Len(channel[c]) = 0
    BY DEF Init
  <2> QED BY <2>1 DEF Tidy, ChannelOrdered, OpenOrdered, LatestComing
<1> QED BY <1>1, <1>2, TypeInit DEF IInv

\* One step disturbs one connection, but for publish, which concerns them all.
LEMMA NextIInv == IInv /\ [Next]_broadcasterVars => IInv'
<1> SUFFICES ASSUME IInv, [Next]_broadcasterVars PROVE IInv'
  OBVIOUS
<1>1. TypeOK /\ ClientsAreOpen /\ TypeOK' /\ ClientsAreOpen'
  BY TypeNext, ClientsNext DEF IInv
<1>2. SUFFICES ASSUME NEW d \in Connections PROVE Tidy(d)'
  BY <1>1 DEF IInv
<1>3. Tidy(d)
  BY DEF IInv
<1>4. ASSUME NEW type \in EventTypes, Publish(type)
      PROVE  Tidy(d)'
  BY <1>1, <1>3, <1>4, PublishTidy
<1>5. ASSUME NEW c \in Connections, Send(c) \/ Subscribe(c) \/ Write(c) \/ Serve(c)
      PROVE  Tidy(d)'
  <2>1. CASE d = c
    BY <1>1, <1>3, <1>5, <2>1, SendTidy, SubscribeTidy, WriteTidy, TakeTidy,
       LeaveTidy DEF Serve
  <2>2. CASE d # c
    <3>1. /\ UNCHANGED <<current, serving[d], channel[d], writing[d], received[d]>>
          /\ d \in sending <=> d \in sending'
          /\ d \in missed <=> d \in missed'
      <4>1. CASE Send(c)
        BY <1>1, <2>2, <4>1 DEF Send, TypeOK
      <4>2. CASE Subscribe(c) \/ Write(c) \/ Take(c)
        BY <1>1, <2>2, <4>2 DEF Subscribe, Write, Take, Goto, TypeOK, publisher
      <4>3. CASE WriteFails(c) \/ SocketDone(c) \/ ServerDone(c) \/ Unsubscribe(c)
        BY <1>1, <2>2, <4>3
        DEF WriteFails, SocketDone, ServerDone, Unsubscribe, Goto, TypeOK, publisher
      <4> QED BY <1>5, <4>1, <4>2, <4>3 DEF Serve
    <3> QED BY <1>3, <3>1, TidyUntouched
  <2> QED BY <2>1, <2>2
<1>6. ASSUME (\E c \in Connections : Close(c)) \/ Interrupt \/ UNCHANGED broadcasterVars
      PROVE  Tidy(d)'
  <2>1. UNCHANGED <<current, serving, channel, writing, received, sending, missed>>
    BY <1>6 DEF Close, Interrupt, broadcasterVars, publisher, sockets
  <2> QED BY <1>3, <2>1, TidyUntouched
<1> QED BY <1>4, <1>5, <1>6 DEF Next

LEMMA Inductive == Spec => []IInv
BY InitIInv, NextIInv, PTL DEF Spec

\* Upcoming is the event in hand, if there is one, before the channel.
LEMMA UpcomingShape ==
  ASSUME TypeOK, NEW c \in Connections
  PROVE  /\ serving[c] = "writing" =>
              /\ Len(Upcoming(c)) = Len(channel[c]) + 1
              /\ DOMAIN Upcoming(c) = 1 .. Len(channel[c]) + 1
              /\ Upcoming(c)[1] = writing[c]
              /\ \A i \in 1 .. Len(channel[c]) : Upcoming(c)[i + 1] = channel[c][i]
         /\ serving[c] # "writing" =>
              /\ Upcoming(c) = channel[c]
              /\ DOMAIN Upcoming(c) = 1 .. Len(channel[c])
<1>1. channel[c] \in Seq(Events) /\ writing[c] \in Events
  BY DEF TypeOK
<1>2. CASE serving[c] = "writing"
  <2>1. Upcoming(c) = <<writing[c]>> \o channel[c]
    BY <1>2 DEF Upcoming
  <2>2. /\ <<writing[c]>> \in Seq(Events)
        /\ Len(<<writing[c]>>) = 1 /\ <<writing[c]>>[1] = writing[c]
    BY <1>1
  <2>3. /\ Upcoming(c) \in Seq(Events)
        /\ Len(Upcoming(c)) = 1 + Len(channel[c])
        /\ \A i \in 1 .. 1 + Len(channel[c]) : Upcoming(c)[i] =
             IF i <= 1 THEN <<writing[c]>>[i] ELSE channel[c][i - 1]
    BY <1>1, <2>1, <2>2, ConcatProperties
  <2> QED BY <1>1, <1>2, <2>2, <2>3
<1>3. CASE serving[c] # "writing"
  <2>1. Upcoming(c) = <<>> \o channel[c]
    BY <1>3 DEF Upcoming
  <2> QED BY <1>1, <1>3, <2>1
<1> QED BY <1>2, <1>3

\* The spelled out parts are the properties of Broadcaster.
LEMMA Latest == IInv => NoMissedEvent
<1> SUFFICES ASSUME IInv, NEW c \in Connections,
                    serving[c] \in {"writing", "waiting"}
             PROVE  Newest(c) = current.id \/ c \in sending \/ c \in missed
  BY DEF NoMissedEvent
<1>1. TypeOK /\ LatestComing(c)
  BY DEF IInv, Tidy
<1>2. channel[c] \in Seq(Events) /\ Len(channel[c]) \in Nat
  BY <1>1, Numbers
<1>3. Newest(c) = NewestID(c)
  <2>1. CASE serving[c] = "writing"
    <3>1. /\ Len(Upcoming(c)) = Len(channel[c]) + 1
          /\ Upcoming(c)[1] = writing[c]
          /\ \A i \in 1 .. Len(channel[c]) : Upcoming(c)[i + 1] = channel[c][i]
      BY <1>1, <2>1, UpcomingShape
    <3>2. Upcoming(c) # <<>>
      BY <1>2, <3>1
    <3>3. CASE channel[c] = <<>>
      BY <2>1, <3>1, <3>2, <3>3 DEF Newest, NewestID
    <3>4. CASE channel[c] # <<>>
      <4>1. Len(channel[c]) \in 1 .. Len(channel[c])
        BY <1>2, <3>4
      <4>2. Upcoming(c)[Len(channel[c]) + 1] = channel[c][Len(channel[c])]
        BY <3>1, <4>1
      <4> QED BY <3>1, <3>2, <3>4, <4>2 DEF Newest, NewestID
    <3> QED BY <3>3, <3>4
  <2>2. CASE serving[c] # "writing"
    BY <1>1, <2>2, UpcomingShape DEF Newest, NewestID
  <2> QED BY <2>1, <2>2
<1> QED BY <1>1, <1>3 DEF LatestComing

LEMMA Ordered == IInv => DeliveredInOrder
<1> SUFFICES ASSUME IInv, NEW c \in Connections
             PROVE  /\ \A i, j \in DOMAIN Upcoming(c) :
                         i < j => Upcoming(c)[i].id < Upcoming(c)[j].id
                    /\ \A i \in DOMAIN Upcoming(c) :
                         serving[c] # "closed" => Coming(c, Upcoming(c)[i].id)
  BY DEF DeliveredInOrder, Coming
<1>1. TypeOK /\ ChannelOrdered(c) /\ OpenOrdered(c)
  BY DEF IInv, Tidy
<1>2. Len(channel[c]) \in Nat
  BY <1>1, Numbers
<1>3. CASE serving[c] = "writing"
  <2>1. /\ DOMAIN Upcoming(c) = 1 .. Len(channel[c]) + 1
        /\ Upcoming(c)[1] = writing[c]
        /\ \A i \in 1 .. Len(channel[c]) : Upcoming(c)[i + 1] = channel[c][i]
    BY <1>1, <1>3, UpcomingShape
  <2>2. ASSUME NEW i \in 1 .. Len(channel[c]) + 1, i # 1
        PROVE  i - 1 \in 1 .. Len(channel[c]) /\ Upcoming(c)[i] = channel[c][i - 1]
    <3>1. i - 1 \in 1 .. Len(channel[c]) /\ (i - 1) + 1 = i
      BY <1>2, <2>2
    <3> QED BY <2>1, <3>1
  <2>3. ASSUME NEW i \in DOMAIN Upcoming(c)
        PROVE  Coming(c, Upcoming(c)[i].id)
    <3>1. CASE i = 1
      BY <1>1, <1>3, <2>1, <3>1 DEF OpenOrdered
    <3>2. CASE i # 1
      BY <1>1, <1>3, <2>1, <2>2, <3>2 DEF OpenOrdered
    <3> QED BY <3>1, <3>2
  <2>4. ASSUME NEW i \in DOMAIN Upcoming(c), NEW j \in DOMAIN Upcoming(c), i < j
        PROVE  Upcoming(c)[i].id < Upcoming(c)[j].id
    <3>1. j # 1 /\ j - 1 \in 1 .. Len(channel[c]) /\ Upcoming(c)[j] = channel[c][j - 1]
      <4>1. j \in 1 .. Len(channel[c]) + 1 /\ j # 1
        BY <1>2, <2>1, <2>4
      <4> QED BY <2>2, <4>1
    <3>2. CASE i = 1
      BY <1>1, <1>3, <2>1, <3>1, <3>2 DEF OpenOrdered
    <3>3. CASE i # 1
      <4>1. i - 1 \in 1 .. Len(channel[c]) /\ Upcoming(c)[i] = channel[c][i - 1]
        BY <2>1, <2>2, <3>3
      <4>2. i - 1 < j - 1
        BY <1>2, <2>1, <2>4
      <4> QED BY <1>1, <3>1, <4>1, <4>2 DEF ChannelOrdered
    <3> QED BY <3>2, <3>3
  <2> QED BY <2>3, <2>4
<1>4. CASE serving[c] # "writing"
  <2>1. Upcoming(c) = channel[c] /\ DOMAIN Upcoming(c) = 1 .. Len(channel[c])
    BY <1>1, <1>4, UpcomingShape
  <2> QED BY <1>1, <2>1 DEF ChannelOrdered, OpenOrdered
<1> QED BY <1>3, <1>4

\* A connected browser has the last event, or it is on its way, unless there
\* was no room for it: subscribe and publish never miss each other.
THEOREM NoMissedEventCorrect == Spec => []NoMissedEvent
BY Inductive, Latest, PTL

\* Events reach a browser in the order of publication and none reaches it twice.
THEOREM DeliveredInOrderCorrect == Spec => []DeliveredInOrder
BY Inductive, Ordered, PTL

-----------------------------------------------------------------------------
(***************************************************************************)
(* For those who act on events: an event with the number of the current    *)
(* one is the current one, and a connection that waits has delivered the   *)
(* event it wrote last.                                                    *)
(***************************************************************************)
Served(c) == serving[c] \in {"writing", "waiting"}

GenuineAt(c) ==
  /\ Served(c) =>
       /\ writing[c].id = current.id => writing[c] = current
       /\ \A i \in 1 .. Len(channel[c]) :
            channel[c][i].id = current.id => channel[c][i] = current
  /\ serving[c] = "waiting" => received[c] = writing[c].id

Genuine == \A c \in Connections : GenuineAt(c)

LEMMA GenuineUntouched ==
  ASSUME NEW c \in Connections, GenuineAt(c), UNCHANGED current,
         channel'[c] = channel[c], serving'[c] = serving[c],
         writing'[c] = writing[c], received'[c] = received[c]
  PROVE  GenuineAt(c)'
BY DEF GenuineAt, Served

LEMMA GenuineNext ==
  ASSUME IInv, Genuine, [Next]_broadcasterVars
  PROVE  Genuine'
<1> SUFFICES ASSUME NEW d \in Connections
             PROVE  GenuineAt(d)'
  BY DEF Genuine
<1> USE DEF IInv
<1>0. GenuineAt(d) /\ Tidy(d)
  BY DEF Genuine
<1>1. ASSUME NEW type \in EventTypes, Publish(type)
      PROVE  GenuineAt(d)'
  <2>1. /\ current'.id = current.id + 1
        /\ UNCHANGED <<channel, serving, writing, received>>
    BY <1>1 DEF Publish, sockets
  <2>2. ASSUME Served(d)
        PROVE  writing[d].id # current'.id
    BY <1>0, <2>1, <2>2, Numbers
       DEF Served, GenuineAt, Tidy, OpenOrdered, Coming
  <2>3. ASSUME Served(d), NEW i \in 1 .. Len(channel[d])
        PROVE  channel[d][i].id # current'.id
    BY <1>0, <2>1, <2>3, Numbers DEF Served, Tidy, OpenOrdered, Coming
  <2> QED BY <1>0, <2>1, <2>2, <2>3 DEF GenuineAt, Served
<1>2. ASSUME NEW c \in Connections, Send(c)
      PROVE  GenuineAt(d)'
  <2>1. UNCHANGED <<current, serving, writing, received>>
    BY <1>2 DEF Send
  <2>2. CASE channel'[d] = channel[d]
    BY <1>0, <2>1, <2>2, GenuineUntouched
  <2>3. CASE channel'[d] = Append(channel[d], current)
    <3>1. /\ Len(channel'[d]) = Len(channel[d]) + 1
          /\ \A i \in 1 .. Len(channel[d]) : channel'[d][i] = channel[d][i]
          /\ channel'[d][Len(channel[d]) + 1] = current
      BY <2>3, Numbers, AppendProperties DEF TypeOK
    <3>2. \A i \in 1 .. Len(channel'[d]) :
            i \in 1 .. Len(channel[d]) \/ i = Len(channel[d]) + 1
      BY <3>1, Numbers
    <3> QED BY <1>0, <2>1, <3>1, <3>2 DEF GenuineAt, Served
  <2> QED BY <1>2, <2>2, <2>3 DEF Send, TypeOK
<1>3. ASSUME NEW c \in Connections, Subscribe(c)
      PROVE  GenuineAt(d)'
  <2>1. CASE d = c
    <3>1. /\ serving'[c] = "writing" /\ channel'[c] = <<>> /\ writing'[c] = current
          /\ UNCHANGED current
      BY <1>3 DEF Subscribe, Goto, TypeOK, publisher
    <3>2. Len(channel'[c]) = 0
      BY <3>1
    <3> QED BY <2>1, <3>1, <3>2 DEF GenuineAt, Served
  <2>2. CASE d # c
    BY <1>0, <1>3, <2>2, GenuineUntouched DEF Subscribe, Goto, TypeOK, publisher
  <2> QED BY <2>1, <2>2
<1>4. ASSUME NEW c \in Connections, Write(c)
      PROVE  GenuineAt(d)'
  <2>1. CASE d = c
    BY <1>0, <1>4, <2>1 DEF Write, Goto, TypeOK, publisher, GenuineAt, Served
  <2>2. CASE d # c
    BY <1>0, <1>4, <2>2, GenuineUntouched DEF Write, Goto, TypeOK, publisher
  <2> QED BY <2>1, <2>2
<1>5. ASSUME NEW c \in Connections, Take(c)
      PROVE  GenuineAt(d)'
  <2>1. CASE d = c
    <3>1. /\ serving[c] = "waiting" /\ serving'[c] = "writing"
          /\ channel[c] # <<>> /\ UNCHANGED current
          /\ writing'[c] = Head(channel[c]) /\ channel'[c] = Tail(channel[c])
      BY <1>5 DEF Take, Goto, TypeOK, publisher
    <3>2. /\ Len(channel[c]) \in Nat /\ Len(channel[c]) > 0
          /\ writing'[c] = channel[c][1]
          /\ Len(channel'[c]) = Len(channel[c]) - 1
          /\ \A i \in 1 .. Len(channel[c]) - 1 : channel'[c][i] = channel[c][i + 1]
      BY <3>1, Numbers, HeadTailProperties
    <3>3. \A i \in 1 .. Len(channel[c]) :
            channel[c][i].id = current.id => channel[c][i] = current
      BY <1>0, <2>1, <3>1 DEF GenuineAt, Served
    <3>4. \A i \in 1 .. Len(channel'[c]) :
            channel'[c][i].id = current.id => channel'[c][i] = current
      BY <3>2, <3>3
    <3>5. writing'[c].id = current.id => writing'[c] = current
      BY <3>2, <3>3
    <3> QED BY <2>1, <3>1, <3>4, <3>5 DEF GenuineAt
  <2>2. CASE d # c
    BY <1>0, <1>5, <2>2, GenuineUntouched DEF Take, Goto, TypeOK, publisher
  <2> QED BY <2>1, <2>2
<1>6. ASSUME NEW c \in Connections,
             WriteFails(c) \/ SocketDone(c) \/ ServerDone(c) \/ Unsubscribe(c)
      PROVE  GenuineAt(d)'
  <2>1. CASE d = c
    <3>1. serving'[c] \in {"leaving", "closed"}
      BY <1>6 DEF WriteFails, SocketDone, ServerDone, Unsubscribe, Goto, TypeOK
    <3> QED BY <2>1, <3>1 DEF GenuineAt, Served
  <2>2. CASE d # c
    BY <1>0, <1>6, <2>2, GenuineUntouched
    DEF WriteFails, SocketDone, ServerDone, Unsubscribe, Goto, TypeOK, publisher
  <2> QED BY <2>1, <2>2
<1>7. CASE Interrupt \/ (\E c \in Connections : Close(c)) \/ UNCHANGED broadcasterVars
  BY <1>0, <1>7, GenuineUntouched
  DEF Interrupt, Close, broadcasterVars, publisher, sockets
<1> QED BY <1>1, <1>2, <1>3, <1>4, <1>5, <1>6, <1>7 DEF Next, Serve

LEMMA GenuineInit == Init => Genuine
<1>1. ASSUME Init, NEW c \in Connections
      PROVE  GenuineAt(c)
  <2>1. serving[c] = "closed"
    BY <1>1, Zenon DEF Init
  <2> QED BY <2>1 DEF GenuineAt, Served
<1> QED BY <1>1, Zenon DEF Genuine

LEMMA GenuineCorrect == Spec => []Genuine
<1>1. IInv /\ Genuine /\ [Next]_broadcasterVars => Genuine'
  BY GenuineNext
<1> QED BY <1>1, GenuineInit, Inductive, PTL DEF Spec
===============================================================================
