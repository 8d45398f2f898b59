------------------------------ MODULE Broadcaster ------------------------------
(***************************************************************************)
(* devBroadcaster of internal/cli/dev.go: the dev server publishes events, *)
(* each browser tab follows them over a WebSocket that a goroutine of its  *)
(* own serves from a buffered channel.                                     *)
(*                                                                         *)
(* There is one publisher (serveDev until the watcher goroutine starts,    *)
(* then that goroutine).  A connection is a call of serveWebSocket; its    *)
(* name is used again after the call has returned.                         *)
(***************************************************************************)
EXTENDS Integers, Sequences

CONSTANTS
  Connections,  \* calls of serveWebSocket that may be active together
  Capacity,     \* the buffer of a client's channel, 8 in the code
  EventTypes,   \* the values of devEventType
  MaxEvents     \* bound: how many events are published

ASSUME CapacityType == Capacity \in Nat \ {0}
ASSUME MaxEventsType == MaxEvents \in Nat
ASSUME ReadyIsAnEvent == "ready" \in EventTypes

\* An event is told from others by its type and by when it was published.
Events == [type : EventTypes, id : 0 .. MaxEvents]

VARIABLES
  current,     \* devBroadcaster.current
  clients,     \* devBroadcaster.clients
  channel,     \* the buffered events of every client
  sending,     \* the clients the loop of publish has still to send to
  serving,     \* where every call of serveWebSocket has got to
  writing,     \* the event that the call writes, or has written last
  received,    \* id of the last event that reached the browser, -1 for none
  missed,      \* history: clients whose channel had no room for the last event
  gone,        \* socketCtx is done: the browser has closed the connection
  stopping     \* serverCtx is done

publisher == <<current, sending>>
sockets == <<clients, channel, serving, writing, received, missed, gone>>
broadcasterVars == <<publisher, sockets, stopping>>

NoEvents == [type |-> "ready", id |-> 0]

Init ==
  /\ current = NoEvents
  /\ clients = {}
  /\ channel = [c \in Connections |-> <<>>]
  /\ sending = {}
  /\ serving = [c \in Connections |-> "closed"]
  /\ writing = [c \in Connections |-> NoEvents]
  /\ received = [c \in Connections |-> -1]
  /\ missed = {}
  /\ gone = {}
  /\ stopping = FALSE

Goto(c, from, to) ==
  /\ serving[c] = from
  /\ serving' = [serving EXCEPT ![c] = to]

-----------------------------------------------------------------------------
(* publish *)

\* The critical section of publish: current is set and the clients copied.
Publish(type) ==
  /\ sending = {}
  /\ current.id < MaxEvents
  /\ current' = [type |-> type, id |-> current.id + 1]
  /\ sending' = clients
  /\ UNCHANGED <<sockets, stopping>>

\* the send blocks until the client has room
MutantBlockingSend(c) ==
  /\ c \in sending
  /\ Len(channel[c]) < Capacity
  /\ sending' = sending \ {c}
  /\ channel' = [channel EXCEPT ![c] = Append(@, current)]
  /\ missed' = missed \ {c}
  /\ UNCHANGED <<current, clients, serving, writing, received, gone, stopping>>

\* One round of the loop: the event is dropped when the channel is full.
Send(c) ==
  /\ c \in sending
  /\ sending' = sending \ {c}
  /\ IF Len(channel[c]) < Capacity
     THEN /\ channel' = [channel EXCEPT ![c] = Append(@, current)]
          /\ missed' = missed \ {c}
     ELSE /\ missed' = missed \cup {c}
          /\ UNCHANGED channel
  /\ UNCHANGED <<current, clients, serving, writing, received, gone, stopping>>

-----------------------------------------------------------------------------
(* serveWebSocket *)

\* a new client is greeted with the event the broadcaster started with
MutantGreetReady(c) ==
  /\ Goto(c, "closed", "writing")
  /\ clients' = clients \cup {c}
  /\ channel' = [channel EXCEPT ![c] = <<>>]
  /\ writing' = [writing EXCEPT ![c] = NoEvents]
  /\ received' = [received EXCEPT ![c] = -1]
  /\ missed' = missed \ {c}
  /\ gone' = gone \ {c}
  /\ UNCHANGED <<publisher, stopping>>

\* publish ranges over the map itself, which a new client may still join
MutantJoinPublish(c) ==
  /\ Goto(c, "closed", "writing")
  /\ clients' = clients \cup {c}
  /\ sending' = IF sending = {} THEN {} ELSE sending \cup {c}
  /\ channel' = [channel EXCEPT ![c] = <<>>]
  /\ writing' = [writing EXCEPT ![c] = current]
  /\ received' = [received EXCEPT ![c] = -1]
  /\ missed' = missed \ {c}
  /\ gone' = gone \ {c}
  /\ UNCHANGED <<current, stopping>>

\* The connection is accepted and subscribe runs: a channel of its own, and
\* the current event to be written first.
Subscribe(c) ==
  /\ Goto(c, "closed", "writing")
  /\ clients' = clients \cup {c}
  /\ channel' = [channel EXCEPT ![c] = <<>>]
  /\ writing' = [writing EXCEPT ![c] = current]
  /\ received' = [received EXCEPT ![c] = -1]
  /\ missed' = missed \ {c}
  /\ gone' = gone \ {c}
  /\ UNCHANGED <<publisher, stopping>>

\* writeDevWebSocketEvent succeeds.
Write(c) ==
  /\ c \notin gone
  /\ Goto(c, "writing", "waiting")
  /\ received' = [received EXCEPT ![c] = writing[c].id]
  /\ UNCHANGED <<publisher, clients, channel, writing, missed, gone, stopping>>

\* It fails: the socket is closed, or the write has timed out.
WriteFails(c) ==
  /\ Goto(c, "writing", "leaving")
  /\ UNCHANGED <<publisher, clients, channel, writing, received, missed, gone,
                 stopping>>

\* The select takes an event from the channel ...
Take(c) ==
  /\ channel[c] # <<>>
  /\ Goto(c, "waiting", "writing")
  /\ writing' = [writing EXCEPT ![c] = Head(channel[c])]
  /\ channel' = [channel EXCEPT ![c] = Tail(@)]
  /\ UNCHANGED <<publisher, clients, received, missed, gone, stopping>>

\* ... or finds socketCtx done ...
SocketDone(c) ==
  /\ c \in gone
  /\ Goto(c, "waiting", "leaving")
  /\ UNCHANGED <<publisher, clients, channel, writing, received, missed, gone,
                 stopping>>

\* the select has no case for serverCtx
MutantServesOn(c) == FALSE

\* ... or serverCtx, and closes the connection.
ServerDone(c) ==
  /\ stopping
  /\ Goto(c, "waiting", "leaving")
  /\ gone' = gone \cup {c}
  /\ UNCHANGED <<publisher, clients, channel, writing, received, missed, stopping>>

\* The deferred unsubscribe and Close.  The publisher may still send to the
\* channel, which nobody reads any more.
Unsubscribe(c) ==
  /\ Goto(c, "leaving", "closed")
  /\ clients' = clients \ {c}
  /\ sending' = sending \ {c}
  /\ gone' = gone \cup {c}
  /\ UNCHANGED <<current, channel, writing, received, missed, stopping>>

\* What the goroutine of the connection does by itself, but for writing.
Serve(c) ==
  WriteFails(c) \/ Take(c) \/ SocketDone(c) \/ ServerDone(c) \/ Unsubscribe(c)

\* The browser closes the socket.
Close(c) ==
  /\ serving[c] # "closed" /\ c \notin gone
  /\ gone' = gone \cup {c}
  /\ UNCHANGED <<publisher, clients, channel, serving, writing, received, missed,
                 stopping>>

\* The interrupt that ends tue dev.
Interrupt ==
  /\ ~stopping
  /\ stopping' = TRUE
  /\ UNCHANGED <<publisher, sockets>>

-----------------------------------------------------------------------------
Next ==
  \/ \E type \in EventTypes : Publish(type)
  \/ \E c \in Connections :
       Send(c) \/ Subscribe(c) \/ Write(c) \/ Serve(c) \/ Close(c)
  \/ Interrupt

Spec == Init /\ [][Next]_broadcasterVars

\* The goroutine of a connection runs on, and a write ends within its timeout
\* one way or the other.  Nothing is asked of the browsers.
FairSpec ==
  Spec /\ \A c \in Connections : WF_broadcasterVars(Write(c) \/ Serve(c))

-----------------------------------------------------------------------------
(* Properties. *)

\* The events a connection still hands to its browser, after the last one it
\* has, oldest first.
Upcoming(c) ==
  (IF serving[c] = "writing" THEN <<writing[c]>> ELSE <<>>) \o channel[c]

\* The newest event that has reached the browser of c or is on its way.
Newest(c) ==
  IF Upcoming(c) = <<>> THEN received[c] ELSE Upcoming(c)[Len(Upcoming(c))].id

\* The type invariant of the broadcaster and of the goroutines around it.
TypeOK ==
  /\ current \in Events
  /\ clients \subseteq Connections
  /\ channel \in [Connections -> Seq(Events)]
  /\ \A c \in Connections : Len(channel[c]) <= Capacity
  /\ sending \subseteq clients
  /\ serving \in [Connections -> {"closed", "writing", "waiting", "leaving"}]
  /\ writing \in [Connections -> Events]
  /\ received \in [Connections -> -1 .. MaxEvents]
  /\ missed \subseteq Connections
  /\ gone \subseteq Connections
  /\ stopping \in BOOLEAN

\* No event is lost between subscribe and publish: unless its channel was full
\* when the last event was published, the last event has reached a connected
\* browser or is on its way to it, or publish has still to send it.
NoMissedEvent ==
  \A c \in Connections :
    serving[c] \in {"writing", "waiting"} =>
      \/ Newest(c) = current.id
      \/ c \in sending
      \/ c \in missed

\* Events arrive in the order of publication and none arrives twice, also for
\* a browser that connects while publish runs through the clients.
DeliveredInOrder ==
  \A c \in Connections :
    /\ \A i, j \in DOMAIN Upcoming(c) :
         i < j => Upcoming(c)[i].id < Upcoming(c)[j].id
    /\ \A i \in DOMAIN Upcoming(c) :
         serving[c] # "closed" =>
           /\ received[c] < Upcoming(c)[i].id
           /\ Upcoming(c)[i].id <= current.id
           /\ c \in sending => Upcoming(c)[i].id < current.id

\* No goroutine, channel or entry of clients is leaked: a connection whose
\* browser has gone, or whose server stops, ends and is forgotten.
ConnectionsEnd ==
  \A c \in Connections :
    serving[c] # "closed" /\ (c \in gone \/ stopping)
      ~> serving[c] = "closed" /\ c \notin clients
===============================================================================
