-------------------------------- MODULE AudioBus --------------------------------
(***************************************************************************)
(* The audio bus (audio-bus/bus.js) between WebSocket clients              *)
(* (audio-bus/ws-server.js), each with at most one session, and plugins,   *)
(* each with a bounded queue of events that a single asynchronous loop     *)
(* drains, and with output streams into sessions.                          *)
(*                                                                         *)
(* The bytes of the frames are left out: one chunk is the unit of the      *)
(* queue.  The handlers of a kind are one handler.  A handler answers, or  *)
(* the timeout of callHandler answers for it: both are HandlerSettled.     *)
(* Plugins call the API only before they close(): speech/runtime.js aborts *)
(* its playback first, adapter-bridge.js drops the client.                 *)
(***************************************************************************)
EXTENDS Integers, Sequences, FiniteSets, FiniteSetsExt

CONSTANTS
    Connections,    \* WebSocket connections, one life each
    Sessions,       \* session ids (random, never used twice)
    Clients,        \* plugin clients, one life each
    None,
    QueueMax,       \* queueMaxItems
    LifecycleMax,   \* lifecycleQueueMaxItems
    MaxSeq,         \* bound: frames of a session
    Limits          \* what a behaviour has of all this, see `limit`

Kinds == {"started", "input", "ended"}

ASSUME AudioAssumption ==
    /\ None \notin Connections \cup Sessions \cup Clients
    /\ QueueMax \in Nat \ {0} /\ LifecycleMax \in Nat \ {0} /\ MaxSeq \in Nat
    /\ \A l \in Limits :
         /\ l.connections \subseteq Connections /\ l.clients \subseteq Clients
         /\ l.sessions \subseteq Sessions /\ l.maxSessions \in Nat
         /\ l.frames \in 0..MaxSeq
         /\ l.kinds \subseteq Kinds /\ l.talkers \subseteq l.clients

VARIABLES
    conn,     \* the server's connections
    session,  \* sessions; the Map of the bus holds the active ones
    client,   \* plugin clients
    closed,   \* the bus was shut down
    limit     \* who takes part in this behaviour, maxSessions, the kinds of
              \* events plugins subscribe to, the plugins that start output

vars == <<conn, session, client, closed, limit>>

Item(kind, s) == [kind |-> kind, session |-> s, seq |-> session[s].seq, droppedBefore |-> 0]
Unheard == [started |-> FALSE, last |-> 0, ended |-> FALSE]

Init ==
    /\ conn = [k \in Connections |->
                 [state |-> "new", open |-> FALSE, closing |-> FALSE, session |-> None]]
    /\ session = [s \in Sessions |->
                    [status |-> "new", conn |-> None, seq |-> 0, output |-> None,
                     told |-> FALSE]]    \* told: the client last heard of an output start
    /\ client = [c \in Clients |->
                   [state |-> "new", handlers |-> {}, queue |-> <<>>, inputItems |-> 0,
                    draining |-> FALSE, scheduled |-> 0, running |-> 0,
                    gaps |-> [s \in Sessions |-> 0], outputs |-> {},
                    \* history: what was delivered; it never missed a frame by not
                    \* being subscribed; the gaps that nothing told it of
                    heard |-> [s \in Sessions |-> Unheard], whole |-> TRUE,
                    forgotten |-> [s \in Sessions |-> 0]]]
    /\ closed = FALSE
    /\ limit \in Limits

Active == {s \in Sessions : session[s].status = "active"}
IsInput(item) == item.kind = "input"
Waiting(x) == Len(x.queue) - x.inputItems   \* lifecycle events

-----------------------------------------------------------------------------
(* Queues of the plugins.  x is a client record. *)

Wake(x) == IF x.draining THEN x ELSE [x EXCEPT !.draining = TRUE, !.scheduled = @ + 1]

\* Mutant: a reported gap is not forgotten.
Accept_KeepGap(x, item) ==
    [x EXCEPT !.queue = Append(@, [item EXCEPT !.droppedBefore = x.gaps[item.session]]),
              !.inputItems = @ + 1]

Accept(x, item) ==
    [x EXCEPT !.queue = Append(@, [item EXCEPT !.droppedBefore = x.gaps[item.session]]),
              !.inputItems = @ + 1, !.gaps[item.session] = 0]

\* enqueue, of a frame
EnqueueFrame(x, item) ==
    IF x.inputItems >= QueueMax
    THEN [x EXCEPT !.gaps[item.session] = @ + 1]
    ELSE Wake(Accept(x, item))

\* Mutant: start and end events overtake the frames that wait.
AppendEvents_Front(x, items) == [x EXCEPT !.queue = items \o @]

AppendEvents(x, items) == [x EXCEPT !.queue = @ \o items]

\* enqueue, of a start or of ends one after the other: once the queue is full
\* of events the rest is dropped.
EnqueueEvents(x, items) ==
    LET room == LifecycleMax - Waiting(x)
        fitting == SubSeq(items, 1, Min({room, Len(items)}))
    IN  IF room <= 0 \/ items = <<>> THEN x ELSE Wake(AppendEvents(x, fitting))

\* broadcast, to the clients with a handler of that kind
Listens(x, kind) == x.state = "open" /\ kind \in x.handlers

BroadcastFrame(item) ==
    [c \in Clients |-> IF Listens(client[c], "input") THEN EnqueueFrame(client[c], item)
                       ELSE [client[c] EXCEPT !.whole = FALSE]]

Broadcast(cl, kind, items) ==
    [c \in Clients |-> IF Listens(cl[c], kind) THEN EnqueueEvents(cl[c], items) ELSE cl[c]]

Hear(h, item) ==
    CASE item.kind = "started" -> [h EXCEPT !.started = TRUE]
      [] item.kind = "input" -> [h EXCEPT !.last = item.seq]
      [] item.kind = "ended" -> [h EXCEPT !.ended = TRUE]

\* drain: the first n items are shifted.
Shifted(x, n) ==
    [x EXCEPT !.queue = SubSeq(@, n + 1, Len(@)),
              !.inputItems = @ - Cardinality({i \in 1..n : IsInput(x.queue[i])})]

\* drain: the n-th item is given to its handlers, those before it have none.
Delivered(x, n) ==
    LET item == x.queue[n]
    IN  [Shifted(x, n) EXCEPT !.running = @ + 1, !.heard[item.session] = Hear(@, item)]

\* drain, from the loop's condition to the next await: events whose handlers
\* have left meanwhile are shifted and skipped.
Handled(x, i) == x.queue[i].kind \in x.handlers

Continue(c, x) ==
    \/ /\ x.state = "closed"
       /\ client' = [client EXCEPT ![c] = [x EXCEPT !.draining = FALSE]]
    \/ /\ x.state # "closed" /\ \A i \in DOMAIN x.queue : ~Handled(x, i)
       /\ client' = [client EXCEPT ![c] = [Shifted(x, Len(x.queue)) EXCEPT !.draining = FALSE]]
    \/ /\ x.state # "closed"
       /\ \E n \in DOMAIN x.queue :
            /\ Handled(x, n) /\ \A i \in 1..(n - 1) : ~Handled(x, i)
            /\ client' = [client EXCEPT ![c] = Delivered(x, n)]

-----------------------------------------------------------------------------
(* endSession, on the state st = [conn, session, client] *)

State == [conn |-> conn, session |-> session, client |-> client]

\* Mutant: the reason is stored in place of null.
Released_Reason(cn, ss) ==
    [k \in Connections |-> IF cn[k].session \in ss THEN [cn[k] EXCEPT !.session = "ended"]
                           ELSE cn[k]]

\* transport.sessionEnded
Released(cn, ss) ==
    [k \in Connections |-> IF cn[k].session \in ss THEN [cn[k] EXCEPT !.session = None]
                           ELSE cn[k]]

\* A session ends; the client is told that its output does.
Over(x, cn) ==
    [x EXCEPT !.status = "ended", !.output = None,
              !.told = @ /\ ~(x.output # None /\ cn[x.conn].open)]

\* A plugin forgets the sessions ss, of which it talked to some.  Their gap
\* counters are deleted as they are; "ended" carries no droppedBefore.
Forget(x, ss, mine) ==
    [x EXCEPT !.gaps = [s \in Sessions |-> IF s \in ss THEN 0 ELSE @[s]],
              !.forgotten = [s \in Sessions |-> IF s \in ss THEN x.gaps[s] ELSE @[s]],
              !.outputs = @ \ mine]

\* The active sessions of `order` end one after the other.
Ended(st, order) ==
    LET ss == {order[i] : i \in DOMAIN order}
        mine(c) == {s \in ss : st.session[s].output = c}
    IN  [conn |-> Released(st.conn, ss),
         session |-> [s \in Sessions |-> IF s \in ss THEN Over(st.session[s], st.conn)
                                         ELSE st.session[s]],
         client |-> Broadcast([c \in Clients |-> Forget(st.client[c], ss, mine(c))], "ended",
                              [i \in DOMAIN order |-> Item("ended", order[i])])]

\* endSession; a session that is not active, or none, is not in the Map.
EndSession(st, s) == IF s \in Active THEN Ended(st, <<s>>) ELSE st

Become(st) == conn' = st.conn /\ session' = st.session /\ client' = st.client

\* closeConnection
Closed(k) ==
    LET closing == [conn EXCEPT ![k].closing = TRUE]
        done == EndSession([State EXCEPT !.conn = closing], conn[k].session)
    IN  [done EXCEPT !.conn[k].open = FALSE]

-----------------------------------------------------------------------------
(* The WebSocket server *)

Connect(k) ==
    /\ k \in limit.connections /\ conn[k].state = "new"
    /\ conn' = [conn EXCEPT ![k].state = "up", ![k].open = TRUE]
    /\ UNCHANGED <<session, client, closed, limit>>

\* A message is handled: the socket is open, the server is not closing it.
Speaks(k) == conn[k].open /\ ~conn[k].closing

\* handleStart with openSession; the refused ones change nothing
HandleStart(k, s) ==
    /\ Speaks(k) /\ conn[k].session = None
    /\ ~closed /\ Cardinality(Active) < limit.maxSessions
    /\ s \in limit.sessions /\ session[s].status = "new"
    /\ session' = [session EXCEPT ![s].status = "active", ![s].conn = k]
    /\ client' = Broadcast(client, "started", <<Item("started", s)>>)
    /\ conn' = [conn EXCEPT ![k].session = s]
    /\ UNCHANGED <<closed, limit>>

\* onMessage with pushInput
PushInput(k) ==
    LET s == conn[k].session
    IN  /\ Speaks(k) /\ s # None
        /\ session[s].status = "active" /\ session[s].conn = k /\ session[s].seq < limit.frames
        /\ session' = [session EXCEPT ![s].seq = @ + 1]
        /\ client' = BroadcastFrame([Item("input", s) EXCEPT !.seq = @ + 1])
        /\ UNCHANGED <<conn, closed, limit>>

\* handleEnd
HandleEnd(k) ==
    /\ Speaks(k) /\ conn[k].session # None
    /\ Become(EndSession(State, conn[k].session))
    /\ UNCHANGED <<closed, limit>>

\* Too many protocol errors, a message rate over its limit, a token that is no
\* longer valid.
ServerCloses(k) ==
    /\ conn[k].state = "up" /\ ~conn[k].closing
    /\ Become(Closed(k))
    /\ UNCHANGED <<closed, limit>>

\* The peer closes or is terminated after a missed heartbeat; the close event
\* follows.
Disconnects(k) ==
    /\ conn[k].open
    /\ conn' = [conn EXCEPT ![k].open = FALSE]
    /\ UNCHANGED <<session, client, closed, limit>>

\* onClose
OnClose(k) ==
    /\ conn[k].state = "up" /\ ~conn[k].open
    /\ Become(EndSession([State EXCEPT !.conn[k].state = "down"], conn[k].session))
    /\ UNCHANGED <<closed, limit>>

\* sweep: the idle timeout or the limit on the duration
Sweep(s) ==
    /\ session[s].status = "active"
    /\ Become(EndSession(State, s))
    /\ UNCHANGED <<closed, limit>>

\* The orders in which the Map may list the active sessions.
Orders ==
    {order \in [1..Cardinality(Active) -> Active] :
       \A i, j \in DOMAIN order : order[i] = order[j] => i = j}

\* shutdown of the bus
Shutdown ==
    /\ ~closed
    /\ \E order \in Orders : Become(Ended(State, order))
    /\ closed' = TRUE
    /\ UNCHANGED limit

-----------------------------------------------------------------------------
(* Plugins *)

CreateClient(c) ==
    /\ c \in limit.clients /\ client[c].state = "new" /\ ~closed
    /\ client' = [client EXCEPT ![c].state = "open"]
    /\ UNCHANGED <<conn, session, closed, limit>>

Subscribe(c, kind) ==
    /\ client[c].state = "open" /\ kind \notin client[c].handlers
    /\ client' = [client EXCEPT ![c].handlers = @ \cup {kind}]
    /\ UNCHANGED <<conn, session, closed, limit>>

Unsubscribe(c, kind) ==
    /\ client[c].state = "open" /\ kind \in client[c].handlers
    /\ client' = [client EXCEPT ![c].handlers = @ \ {kind},
                                ![c].whole = @ /\ kind # "input"]
    /\ UNCHANGED <<conn, session, closed, limit>>

StartOutput(c, s) ==
    /\ c \in limit.talkers /\ client[c].state = "open"
    /\ session[s].status = "active" /\ session[s].output = None
    /\ conn[session[s].conn].open
    /\ session' = [session EXCEPT ![s].output = c, ![s].told = TRUE]
    /\ client' = [client EXCEPT ![c].outputs = @ \cup {s}]
    /\ UNCHANGED <<conn, closed, limit>>

\* endOutput for the streams ss of c
Silenced(c, ss) ==
    [s \in Sessions |->
       IF s \in ss
       THEN [session[s] EXCEPT !.output = None, !.told = @ /\ ~conn[session[s].conn].open]
       ELSE session[s]]

\* Mutant: the client's list of its streams is not kept up to date.
EndOutput_Stale(c, s) ==
    /\ client[c].state = "open"
    /\ session[s].status = "active" /\ session[s].output = c
    /\ session' = Silenced(c, {s})
    /\ UNCHANGED <<conn, client, closed, limit>>

EndOutput(c, s) ==
    /\ client[c].state = "open"
    /\ session[s].status = "active" /\ session[s].output = c
    /\ session' = Silenced(c, {s})
    /\ client' = [client EXCEPT ![c].outputs = @ \ {s}]
    /\ UNCHANGED <<conn, closed, limit>>

Emptied(x) ==
    [x EXCEPT !.state = "closed", !.outputs = {}, !.queue = <<>>, !.inputItems = 0,
              !.handlers = {}]

Close(c) ==
    /\ client[c].state = "open"
    /\ session' = Silenced(c, {s \in client[c].outputs :
                                 session[s].status = "active" /\ session[s].output = c})
    /\ client' = [client EXCEPT ![c] = Emptied(@)]
    /\ UNCHANGED <<conn, closed, limit>>

\* setImmediate runs drain
Drain(c) ==
    /\ client[c].scheduled > 0
    /\ Continue(c, [client[c] EXCEPT !.scheduled = @ - 1])
    /\ UNCHANGED <<conn, session, closed, limit>>

\* The await of drain returns: the handler answered, threw or took too long.
HandlerSettled(c) ==
    /\ client[c].running > 0
    /\ Continue(c, [client[c] EXCEPT !.running = @ - 1])
    /\ UNCHANGED <<conn, session, closed, limit>>

-----------------------------------------------------------------------------
Server ==
    \/ \E k \in Connections :
         \/ Connect(k) \/ PushInput(k) \/ HandleEnd(k)
         \/ ServerCloses(k) \/ Disconnects(k) \/ OnClose(k)
    \/ \E k \in Connections, s \in Sessions : HandleStart(k, s)
    \/ \E s \in Sessions : Sweep(s)
    \/ Shutdown

Plugin ==
    \/ \E c \in Clients : CreateClient(c) \/ Close(c) \/ Drain(c) \/ HandlerSettled(c)
    \/ \E c \in Clients, kind \in limit.kinds : Subscribe(c, kind) \/ Unsubscribe(c, kind)
    \/ \E c \in Clients, s \in Sessions : StartOutput(c, s) \/ EndOutput(c, s)

Next == Server \/ Plugin

Spec == Init /\ [][Next]_vars

-----------------------------------------------------------------------------
(* Properties *)

ItemType == [kind : Kinds, session : Sessions, seq : 0..MaxSeq, droppedBefore : 0..MaxSeq]

ConnectionType == [state : {"new", "up", "down"}, open : BOOLEAN, closing : BOOLEAN,
                   session : Sessions \cup {None}]

SessionType == [status : {"new", "active", "ended"}, conn : Connections \cup {None},
                seq : 0..MaxSeq, output : Clients \cup {None}, told : BOOLEAN]

ClientType ==
    [state : {"new", "open", "closed"}, handlers : SUBSET Kinds, queue : Seq(ItemType),
     inputItems : Nat, draining : BOOLEAN, scheduled : Nat, running : Nat,
     gaps : [Sessions -> 0..MaxSeq], outputs : SUBSET Sessions,
     heard : [Sessions -> [started : BOOLEAN, last : 0..MaxSeq, ended : BOOLEAN]],
     whole : BOOLEAN, forgotten : [Sessions -> 0..MaxSeq]]

\* The counter of queued frames, which enqueue and drain adjust, is their
\* number, and both limits of the queue hold.
Counted(x) ==
    /\ x.inputItems = Cardinality({i \in DOMAIN x.queue : IsInput(x.queue[i])})
    /\ x.inputItems <= QueueMax /\ Waiting(x) <= LifecycleMax

\* The types of the variables, and the counters of the queues.
TypeOK ==
    /\ conn \in [Connections -> ConnectionType]
    /\ session \in [Sessions -> SessionType]
    /\ client \in [Clients -> ClientType]
    /\ \A c \in Clients : Counted(client[c])
    /\ closed \in BOOLEAN /\ limit \in Limits

\* The frames of s that wait, and the number of one of them; 0 stands for the
\* frame heard last.
Frames(x, s) == {i \in DOMAIN x.queue : IsInput(x.queue[i]) /\ x.queue[i].session = s}
Number(x, s, i) == IF i = 0 THEN x.heard[s].last ELSE x.queue[i].seq

\* What a plugin that listens all the time misses of a session: the number of
\* each frame is that of the frame before it, plus one, plus droppedBefore; what
\* is missing after the last one is in its gap counter, or was when the session
\* ended.
Gapless(x, s) ==
    /\ \A i \in Frames(x, s), j \in Frames(x, s) \cup {0} :
         j < i /\ (\A k \in Frames(x, s) : k <= j \/ k >= i)
           => x.queue[i].seq = Number(x, s, j) + 1 + x.queue[i].droppedBefore
    /\ \A j \in Frames(x, s) \cup {0} :
         (\A k \in Frames(x, s) : k <= j) =>
           session[s].seq = Number(x, s, j) + x.gaps[s] + x.forgotten[s]
    /\ x.forgotten[s] # 0 => session[s].status = "ended"

\* Each frame that such a plugin does not get is counted once: in the
\* droppedBefore of the next frame it gets, or, until there is one, in the gap
\* counter of enqueue.  Nothing tells it only of those that were dropped after
\* the last frame that found room in a session that has ended since.
OnlyTailSilent ==
    \A c \in Clients, s \in Sessions :
        client[c].whole /\ client[c].state = "open" => Gapless(client[c], s)

\* The contract of audio-bus/bus.js:21-23, taken at its word: a plugin that
\* listens learns of every frame that was dropped.  Not so, endSession deletes
\* the counter and the "ended" handler gets no droppedBefore (README, section 5).
EveryLossTold ==
    \A c \in Clients, s \in Sessions :
        client[c].whole /\ client[c].state = "open" => client[c].forgotten[s] = 0

\* A plugin gets one event at a time, the next after its handler returned, and
\* those of a session in their order: the start before everything else, nothing
\* after the end.
EventOrder ==
    \A c \in Clients :
        LET q == client[c].queue
        IN  /\ client[c].running <= 1
            /\ \A i \in DOMAIN q :
                 LET h == client[c].heard[q[i].session]
                 IN  /\ ~h.ended
                     /\ q[i].kind = "started" => ~h.started /\ h.last = 0
                     /\ \A j \in 1..(i - 1) :
                          q[j].session = q[i].session =>
                            /\ q[j].kind # "ended" /\ q[i].kind # "started"
                            /\ q[j].seq <= q[i].seq

\* Bus, server and plugins agree.  A session has one output stream at most, its
\* owner is an open client that knows of it, and a client whose socket is open
\* was told of it exactly while it runs; a connection that is gone has no
\* session, so its frames cannot reach another.
OutputAgrees ==
    /\ \A s \in Sessions :
         /\ \A c \in Clients : s \in client[c].outputs <=> session[s].output = c
         /\ session[s].output # None =>
              s \in Active /\ client[session[s].output].state = "open"
         /\ s \in Active /\ conn[session[s].conn].open =>
              (session[s].told <=> session[s].output # None)
         /\ \A k \in Connections :
              conn[k].session = s <=> s \in Active /\ session[s].conn = k
    /\ \A k \in Connections : conn[k].session # None => conn[k].state = "up"
=============================================================================
