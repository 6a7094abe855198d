------------------------------ MODULE Realtime ------------------------------
(***************************************************************************)
(* The realtime hub of the phase services (services/realtime_service.py)   *)
(* and its websocket gateway (api/ws.py).  A service commits and then      *)
(* publishes: its thread copies the channel's subscribers under the hub's  *)
(* lock and hands the message to each of them, which schedules a put on    *)
(* the event loop.  A connection pumps its bounded queue to its client.    *)
(* There is no replay: the client loads its state from the REST API when   *)
(* it is told that the connection is ready, and at every message.          *)
(***************************************************************************)
EXTENDS Integers, Sequences, SequencesExt, TLC

CONSTANTS
    Conns,      \* connections, each made once
    On,         \* On[c]: the channel c connects to
    Threads,    \* threads that serve requests
    Kinds,      \* event types that services publish
    MaxEvents,  \* changes that services commit, a bound of the model
    Depth       \* QUEUE_DEPTH

Channels == {"market", "grid", "telemetry"}

\* RealtimeEventType.channel
Channel(kind) ==
    CASE kind \in {"grid_validation_updated", "grid_snapshot_updated"} -> "grid"
      [] kind = "telemetry_updated" -> "telemetry"
      [] OTHER -> "market"

ASSUME RealtimeAssumption == On \in [Conns -> Channels] /\ MaxEvents \in Nat /\ Depth \in Nat \ {0}

VARIABLES
    changes,  \* the kinds of the changes committed so far
    pub,      \* pub[t]: the change t publishes and the connections it has yet to hand it to
    subs,     \* the connections that are subscribed
    calls,    \* puts scheduled on the event loop
    running,  \* the event loop is running
    conn,     \* conn[c]: what the gateway does for c
    alive,    \* alive[c]: c's client is there
    queue,    \* queue[c]
    sent,     \* sent[c]: the messages c's client got
    known     \* known[c]: the changes in the state that c's client has loaded

hub == <<subs, calls, running>>
client == <<alive, sent, known>>
vars == <<changes, pub, hub, conn, queue, client>>

Idle == [change |-> 0, copied |-> FALSE, targets |-> {}]

Init ==
    /\ changes = <<>>
    /\ pub = [t \in Threads |-> Idle]
    /\ subs = {} /\ calls = <<>> /\ running = TRUE
    /\ conn = [c \in Conns |-> "new"]
    /\ alive = [c \in Conns |-> TRUE]
    /\ queue = [c \in Conns |-> <<>>]
    /\ sent = [c \in Conns |-> <<>>]
    /\ known = [c \in Conns |-> 0]

-----------------------------------------------------------------------------
(***************************************************************************)
(* Publishing, on the threads of the services.                             *)
(***************************************************************************)
\* A service commits; publish comes next.
CommitChange(t, kind) ==
    /\ pub[t] = Idle /\ Len(changes) < MaxEvents
    /\ changes' = Append(changes, kind)
    /\ pub' = [pub EXCEPT ![t].change = Len(changes) + 1]
    /\ UNCHANGED <<hub, conn, queue, client>>

\* publish: the subscribers of the event's channel are copied under the lock.
CopyTargets(t) ==
    /\ pub[t].change # 0 /\ ~pub[t].copied
    /\ pub' = [pub EXCEPT ![t].copied = TRUE,
                          ![t].targets = {c \in subs : On[c] = Channel(changes[pub[t].change])}]
    /\ UNCHANGED <<changes, hub, conn, queue, client>>

\* Fault: a message for an empty queue is put there at once, from the thread.
DeliverDirectly(t, c) ==
    /\ c \in pub[t].targets
    /\ pub' = [pub EXCEPT ![t].targets = @ \ {c}]
    /\ IF queue[c] = <<>>
       THEN queue' = [queue EXCEPT ![c] = <<[by |-> t, change |-> pub[t].change]>>] /\ UNCHANGED hub
       ELSE /\ calls' = Append(calls, [to |-> c, message |-> [by |-> t, change |-> pub[t].change]])
            /\ UNCHANGED <<queue, subs, running>>
    /\ UNCHANGED <<changes, conn, client>>

\* sink schedules the put.  When the loop is closed it raises, and the hub drops the
\* subscriber and goes on to the next.
Deliver(t, c) ==
    /\ c \in pub[t].targets
    /\ pub' = [pub EXCEPT ![t].targets = @ \ {c}]
    /\ \/ /\ running
          /\ calls' = Append(calls, [to |-> c, message |-> [by |-> t, change |-> pub[t].change]])
          /\ UNCHANGED subs
       \/ /\ ~running
          /\ subs' = subs \ {c}
          /\ UNCHANGED calls
    /\ UNCHANGED <<changes, running, conn, queue, client>>

Published(t) ==
    /\ pub[t].copied /\ pub[t].targets = {}
    /\ pub' = [pub EXCEPT ![t] = Idle]
    /\ UNCHANGED <<changes, hub, conn, queue, client>>

-----------------------------------------------------------------------------
(***************************************************************************)
(* The gateway, on the event loop.                                         *)
(***************************************************************************)
Move(c, state) == conn' = [conn EXCEPT ![c] = state]

\* Without an identity a connection is refused before it is accepted.
Refuse(c) ==
    /\ running /\ conn[c] = "new"
    /\ Move(c, "gone")
    /\ UNCHANGED <<changes, pub, hub, queue, client>>

Subscribe(c) ==
    /\ running /\ conn[c] = "new"
    /\ subs' = subs \cup {c}
    /\ Move(c, "subscribed")
    /\ UNCHANGED <<changes, pub, calls, running, queue, client>>

\* Fault: the client keeps the state it has until the first message.
SendReadyUnread(c) ==
    /\ running /\ conn[c] = "subscribed"
    /\ Move(c, IF alive[c] THEN "serving" ELSE "failed")
    /\ UNCHANGED <<changes, pub, hub, queue, client>>

\* The ready frame.  When the client has gone it raises, before the try.
SendReady(c) ==
    /\ running /\ conn[c] = "subscribed"
    /\ \/ /\ alive[c]
          /\ known' = [known EXCEPT ![c] = Len(changes)]
          /\ Move(c, "serving")
       \/ /\ ~alive[c]
          /\ Move(c, "failed")
          /\ UNCHANGED known
    /\ UNCHANGED <<changes, pub, hub, queue, alive, sent>>

\* enqueue: a full queue loses its oldest message.
Enqueue ==
    /\ running /\ calls # <<>>
    /\ LET c == Head(calls).to
       IN  queue' = [queue EXCEPT ![c] = Append(IF Len(@) = Depth THEN Tail(@) ELSE @,
                                                Head(calls).message)]
    /\ calls' = Tail(calls)
    /\ UNCHANGED <<changes, pub, subs, running, conn, client>>

\* pump: the client loads its state again at every message.
Pump(c) ==
    /\ running /\ conn[c] = "serving" /\ alive[c] /\ queue[c] # <<>>
    /\ queue' = [queue EXCEPT ![c] = Tail(@)]
    /\ sent' = [sent EXCEPT ![c] = Append(@, Head(queue[c]))]
    /\ known' = [known EXCEPT ![c] = Len(changes)]
    /\ UNCHANGED <<changes, pub, hub, conn, alive>>

\* watch, or a pump that fails, notices that the client has gone.
Notice(c) ==
    /\ running /\ conn[c] = "serving" /\ ~alive[c]
    /\ Move(c, "closing")
    /\ UNCHANGED <<changes, pub, hub, queue, client>>

\* finally: unsubscribe.
Close(c) ==
    /\ running /\ conn[c] = "closing"
    /\ subs' = subs \ {c}
    /\ Move(c, "gone")
    /\ UNCHANGED <<changes, pub, calls, running, queue, client>>

Disconnect(c) ==
    /\ alive[c] /\ conn[c] \in {"subscribed", "serving"}
    /\ alive' = [alive EXCEPT ![c] = FALSE]
    /\ UNCHANGED <<changes, pub, hub, conn, queue, sent, known>>

\* The server stops; threads may still be publishing.
LoopCloses ==
    /\ running
    /\ running' = FALSE
    /\ UNCHANGED <<changes, pub, subs, calls, conn, queue, client>>

Next ==
    \/ \E t \in Threads :
         \/ \E kind \in Kinds : CommitChange(t, kind)
         \/ CopyTargets(t) \/ Published(t)
         \/ \E c \in Conns : Deliver(t, c)
    \/ \E c \in Conns :
         \/ Refuse(c) \/ Subscribe(c) \/ SendReady(c) \/ Pump(c) \/ Notice(c) \/ Close(c)
         \/ Disconnect(c)
    \/ Enqueue \/ LoopCloses

\* Threads finish publishing, the loop runs what is scheduled, and sockets are written.
Fairness ==
    /\ \A t \in Threads : WF_vars(CopyTargets(t)) /\ WF_vars(Published(t))
                          /\ \A c \in Conns : WF_vars(Deliver(t, c))
    /\ WF_vars(Enqueue)
    /\ \A c \in Conns : WF_vars(SendReady(c)) /\ WF_vars(Pump(c)) /\ WF_vars(Notice(c))
                        /\ WF_vars(Close(c))

Spec == Init /\ [][Next]_vars /\ Fairness

-----------------------------------------------------------------------------
(***************************************************************************)
(* Properties.                                                             *)
(***************************************************************************)
Serving(c) == conn[c] = "serving" /\ alive[c] /\ running

\* While a connection serves, its client comes to know every change of its channel,
\* whether it was published before, while or after the connection was made, and whatever
\* its queue has lost ("a client that missed events while away is correct again the
\* moment it refetches").
Converges ==
    \A c \in Conns : \A n \in 1 .. MaxEvents :
        (Serving(c) /\ Len(changes) >= n /\ Channel(changes[n]) = On[c])
        ~> (known[c] >= n \/ ~Serving(c))

\* What one thread publishes arrives in its order and at most once (sink, enqueue).
InOrder ==
    \A c \in Conns : \A i, j \in DOMAIN sent[c] :
        i < j /\ sent[c][i].by = sent[c][j].by => sent[c][i].change < sent[c][j].change
=============================================================================
