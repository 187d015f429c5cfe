----------------------------- MODULE OriginTunnel -----------------------------
(***************************************************************************)
(* The origin end of the relay tunnel (remote-access/origin-tunnel.js): a  *)
(* request of the relay becomes a context with two timers and a request to *)
(* the local server, whose answer is streamed back over the WebSocket.     *)
(*                                                                         *)
(* Contexts are objects, numbered in the order they were made; `contexts`  *)
(* is the Map from request ids to the live ones.  The relay may send any    *)
(* message at any time and use an id again.  A context keeps its listeners  *)
(* on the local request after it ended, so late events are modelled too.    *)
(* One chunk of the code is the unit of a body.                             *)
(***************************************************************************)
EXTENDS Naturals, Sequences, FiniteSets

CONSTANTS
    RequestIds,    \* numbers; which one is new does not matter, see Fresh
    MaxBody,       \* maxBodyBytes, in chunks
    MaxParts,      \* bound: chunks the local server delivers in one event
    MaxContexts,   \* bound: contexts of a behaviour
    MaxSockets,    \* bound: connections of a behaviour
    MaxSpread      \* bound: connections and ids in use, together

ASSUME TunnelAssumption ==
    /\ MaxBody \in Nat \ {0} /\ MaxParts \in Nat \ {0}
    /\ RequestIds \subseteq Nat
    /\ {MaxContexts, MaxSpread} \subseteq Nat /\ MaxSockets \in Nat \ {0}

VARIABLES
    contexts,   \* the Map: the live context of an id, 0 for none
    ctx,        \* all contexts ever made
    local,      \* the exchange with the local server, per context
    socket,     \* the authenticated WebSocket in use, 0 for none
    open,       \* is its readyState OPEN?
    sockets,    \* how many there were
    sent        \* the messages a context sent to the relay, in order

tunnelVars == <<contexts, ctx, local, socket, open, sockets, sent>>
connection == <<socket, open, sockets>>

CtxStates == {"request_started", "receiving_request_body", "request_complete",
              "response_started", "receiving_response_body"}
Ids == 1..MaxContexts
Arrived == 1..Len(ctx)
Used == {ctx[c].id : c \in Arrived}

\* Bounds.  Ids that were never used are alike: they are taken in order.
Spread(ids, n) == Cardinality(Used \cup ids) + n <= MaxSpread
Fresh(r) == \A q \in RequestIds : q < r => q \in Used
Live(c) == c \in Arrived /\ ~ctx[c].completed /\ ~ctx[c].cancelled

Start == [type |-> "start", seq |-> 0]
Body(n) == [type |-> "body", seq |-> n]
End == [type |-> "end", seq |-> 0]
Cancel == [type |-> "cancel", seq |-> 0]

TunnelInit ==
    /\ contexts = [r \in RequestIds |-> 0]
    /\ ctx = <<>> /\ local = <<>> /\ sent = <<>>
    /\ socket = 0 /\ open = FALSE /\ sockets = 0

-----------------------------------------------------------------------------
\* cancelContext with cleanupContext, after msgs were sent: the Map entry is
\* deleted by id.
CancelContext(c, msgs) ==
    IF contexts[ctx[c].id] = 0
    THEN UNCHANGED <<contexts, ctx, sent>>
    ELSE /\ contexts' = [contexts EXCEPT ![ctx[c].id] = 0]
         /\ ctx' = [ctx EXCEPT ![c].cancelled = TRUE, ![c].idle = FALSE,
                               ![c].absolute = FALSE]
         /\ sent' = [sent EXCEPT ![c] = @ \o msgs]

\* notifyRelay: the cancellation is reported while the socket is open.
Notice == IF open THEN <<Cancel>> ELSE <<>>
CancelAndNotify(c) == CancelContext(c, Notice)

\* sendTunnel for the messages ms, one after the other.  It fails silently
\* when the socket is not open; when the send buffer is over its limit, before
\* or after a message, the context is cancelled with a notice.
SendOutcomes(ms) ==
    IF ~open THEN {[ok |-> FALSE, msgs |-> <<>>]}
    ELSE {[ok |-> TRUE, msgs |-> ms]} \cup
         {[ok |-> FALSE, msgs |-> Append(SubSeq(ms, 1, i), Cancel)] : i \in 0..Len(ms)}

\* Mutant: a finished context is not guarded against a second end event.
FinishContext_Twice(c) ==
    \E out \in SendOutcomes(<<End>>) :
        /\ sent' = [sent EXCEPT ![c] = @ \o out.msgs]
        /\ contexts' = [contexts EXCEPT ![ctx[c].id] = 0]
        /\ ctx' = [ctx EXCEPT ![c].completed = TRUE, ![c].cancelled = @ \/ ~out.ok,
                              ![c].idle = FALSE, ![c].absolute = FALSE]

\* finishContext: completed also when the last message could not be sent.
FinishContext(c) ==
    IF ~Live(c)
    THEN UNCHANGED <<contexts, ctx, sent>>
    ELSE \E out \in SendOutcomes(<<End>>) :
            /\ sent' = [sent EXCEPT ![c] = @ \o out.msgs]
            /\ contexts' = [contexts EXCEPT ![ctx[c].id] = 0]
            /\ ctx' = [ctx EXCEPT ![c].completed = TRUE, ![c].cancelled = ~out.ok,
                                  ![c].idle = FALSE, ![c].absolute = FALSE]

-----------------------------------------------------------------------------
(* Messages of the relay *)

Listening == socket # 0 /\ open

\* onStart; an id in use is refused without any effect.
OnStart(r, hasBody) ==
    /\ Listening /\ Len(ctx) < MaxContexts /\ Spread({r}, sockets) /\ Fresh(r)
    /\ contexts[r] = 0
    /\ ctx' = Append(ctx,
         [id |-> r, socket |-> socket, hasBody |-> hasBody,
          state |-> IF hasBody THEN "receiving_request_body" ELSE "request_started",
          nextRequest |-> 0, nextResponse |-> 0, idle |-> TRUE, absolute |-> TRUE,
          completed |-> FALSE, cancelled |-> FALSE])
    /\ contexts' = [contexts EXCEPT ![r] = Len(ctx) + 1]
    /\ local' = Append(local, "requested")
    /\ sent' = Append(sent, <<>>)
    /\ UNCHANGED connection

\* onBody with the chunk number n.
OnBody(c, n) ==
    /\ Listening /\ Live(c)
    /\ LET x == ctx[c] IN
       IF x.hasBody /\ x.state = "receiving_request_body"
          /\ n = x.nextRequest /\ x.nextRequest < MaxBody
       THEN /\ ctx' = [ctx EXCEPT ![c].nextRequest = @ + 1, ![c].idle = TRUE]
            /\ UNCHANGED <<contexts, sent>>
       ELSE CancelAndNotify(c)
    /\ UNCHANGED <<local, connection>>

\* Mutant: the end of the request clears both timers.
OnEnd_NoIdle(c) ==
    /\ Listening /\ Live(c)
    /\ IF ctx[c].state \in {"request_started", "receiving_request_body"}
       THEN /\ ctx' = [ctx EXCEPT ![c].state = "request_complete",
                                  ![c].absolute = FALSE, ![c].idle = FALSE]
            /\ UNCHANGED <<contexts, sent>>
       ELSE CancelAndNotify(c)
    /\ UNCHANGED <<local, connection>>

OnEnd(c) ==
    /\ Listening /\ Live(c)
    /\ IF ctx[c].state \in {"request_started", "receiving_request_body"}
       THEN /\ ctx' = [ctx EXCEPT ![c].state = "request_complete",
                                  ![c].absolute = FALSE, ![c].idle = TRUE]
            /\ UNCHANGED <<contexts, sent>>
       ELSE CancelAndNotify(c)
    /\ UNCHANGED <<local, connection>>

OnCancel(c) ==
    /\ Listening /\ Live(c)
    /\ CancelContext(c, <<>>)
    /\ UNCHANGED <<local, connection>>

\* cancelFromInvalid: a message that fails validation and names an open
\* request cancels that request, not the connection.
Invalid(c) ==
    /\ Listening /\ Live(c)
    /\ CancelAndNotify(c)
    /\ UNCHANGED <<local, connection>>

-----------------------------------------------------------------------------
(* The local server.  The exchange goes on, or is torn down, after its      *)
(* context ended; the guards of the listeners are what stops it.            *)

\* handleLocalResponse; usable: the status is a number from 100 to 999.
LocalResponse(c, usable, hasBody) ==
    /\ c \in Arrived /\ local[c] = "requested"
    /\ local' = [local EXCEPT ![c] = "answered"]
    /\ IF contexts[ctx[c].id] = 0 \/ ctx[c].cancelled
       THEN UNCHANGED <<contexts, ctx, sent>>
       ELSE IF ~usable THEN CancelAndNotify(c)
       ELSE \E out \in SendOutcomes(<<Start>>) :
              /\ sent' = [sent EXCEPT ![c] = @ \o out.msgs]
              /\ IF out.ok
                 THEN /\ ctx' = [ctx EXCEPT ![c].state =
                                   IF hasBody THEN "receiving_response_body"
                                   ELSE "response_started"]
                      /\ UNCHANGED contexts
                 ELSE /\ contexts' = [contexts EXCEPT ![ctx[c].id] = 0]
                      /\ ctx' = [ctx EXCEPT ![c].cancelled = TRUE, ![c].idle = FALSE,
                                            ![c].absolute = FALSE]
    /\ UNCHANGED connection

\* abortAll('connection_closed'): nothing is sent any more.
AbortAll ==
    /\ contexts' = [r \in RequestIds |-> 0]
    /\ ctx' = [c \in Arrived |->
                 IF Live(c) THEN [ctx[c] EXCEPT !.cancelled = TRUE, !.idle = FALSE,
                                                !.absolute = FALSE]
                 ELSE ctx[c]]

\* validateHeaders refuses the headers of the answer: it throws out of the
\* listener, nothing catches that and the process ends, with every context and
\* every exchange.  The next process starts with an empty Map.
HeadersRefused(c) ==
    /\ c \in Arrived /\ local[c] = "requested"
    /\ contexts[ctx[c].id] # 0 /\ ~ctx[c].cancelled
    /\ AbortAll
    /\ socket' = 0 /\ open' = FALSE
    /\ local' = [d \in Arrived |-> "closed"]
    /\ UNCHANGED <<sockets, sent>>

\* The parts a data event of k chunks is sent in, cut at the body limit.
Chunks(c, k) == [i \in 1..k |-> Body(ctx[c].nextResponse + i - 1)]

Room(c) == MaxBody - ctx[c].nextResponse

LocalData(c, k) ==
    /\ c \in Arrived /\ local[c] = "answered"
    /\ ctx[c].state = "receiving_response_body" /\ Live(c)
    /\ IF k > Room(c)
       THEN \E out \in SendOutcomes(Chunks(c, Room(c))) :
              CancelContext(c, IF out.ok THEN out.msgs \o Notice ELSE out.msgs)
       ELSE \E out \in SendOutcomes(Chunks(c, k)) :
              IF out.ok
              THEN /\ sent' = [sent EXCEPT ![c] = @ \o out.msgs]
                   /\ ctx' = [ctx EXCEPT ![c].nextResponse = @ + k, ![c].idle = TRUE]
                   /\ UNCHANGED contexts
              ELSE CancelContext(c, out.msgs)
    /\ UNCHANGED <<local, connection>>

\* The response ends: `end`, or `close` of one without a body.
LocalEnd(c) ==
    /\ c \in Arrived /\ local[c] = "answered"
    /\ local' = [local EXCEPT ![c] = "closed"]
    /\ FinishContext(c)
    /\ UNCHANGED connection

\* Mutant: the error listener does not look at the context's flags.
LocalError_Unguarded(c) ==
    /\ c \in Arrived /\ local[c] # "closed"
    /\ local' = [local EXCEPT ![c] = "closed"]
    /\ CancelAndNotify(c)
    /\ UNCHANGED connection

\* `error` of the request or of the response, or `close` of a request that
\* was not answered.
LocalError(c) ==
    /\ c \in Arrived /\ local[c] # "closed"
    /\ local' = [local EXCEPT ![c] = "closed"]
    /\ IF Live(c) THEN CancelAndNotify(c) ELSE UNCHANGED <<contexts, ctx, sent>>
    /\ UNCHANGED connection

-----------------------------------------------------------------------------
(* Timers *)

IdleTimeout(c) ==
    /\ c \in Arrived /\ ctx[c].idle
    /\ CancelAndNotify(c)
    /\ UNCHANGED <<local, connection>>

RequestTimeout(c) ==
    /\ c \in Arrived /\ ctx[c].absolute
    /\ CancelAndNotify(c)
    /\ UNCHANGED <<local, connection>>

-----------------------------------------------------------------------------
(* The connection, as relay-connection.js drives the tunnel *)

Authenticated ==
    /\ socket = 0 /\ sockets < MaxSockets /\ Spread({}, sockets + 1)
    /\ socket' = sockets + 1 /\ sockets' = sockets + 1 /\ open' = TRUE
    /\ UNCHANGED <<contexts, ctx, local, sent>>

\* The peer closes; the close event is still to come.
Closing ==
    /\ open
    /\ open' = FALSE
    /\ UNCHANGED <<contexts, ctx, local, socket, sockets, sent>>

\* setState leaves "authenticated", or shutdown().
ConnectionLost ==
    /\ socket # 0
    /\ AbortAll
    /\ socket' = 0 /\ open' = FALSE
    /\ UNCHANGED <<local, sockets, sent>>

-----------------------------------------------------------------------------
Relay ==
    \/ \E r \in RequestIds, b \in BOOLEAN : OnStart(r, b)
    \/ \E c \in Arrived : OnEnd(c) \/ OnCancel(c) \/ Invalid(c)
    \/ \E c \in Arrived, n \in 0..MaxBody : OnBody(c, n)

Local ==
    \/ \E c \in Arrived, u, b \in BOOLEAN : LocalResponse(c, u, b)
    \/ \E c \in Arrived, k \in 1..MaxParts : LocalData(c, k)
    \/ \E c \in Arrived : LocalEnd(c) \/ LocalError(c) \/ HeadersRefused(c)

Timer == \E c \in Arrived : IdleTimeout(c) \/ RequestTimeout(c)

Connection == Authenticated \/ Closing \/ ConnectionLost

TunnelNext == Relay \/ Local \/ Timer \/ Connection

TunnelSpec == TunnelInit /\ [][TunnelNext]_tunnelVars

TunnelFairSpec == TunnelSpec /\ \A c \in Ids : WF_tunnelVars(IdleTimeout(c))

-----------------------------------------------------------------------------
(* Properties *)

\* The types of the variables; context numbers are indices of ctx.
TunnelTypeOK ==
    /\ contexts \in [RequestIds -> {0} \cup Arrived]
    /\ \A c \in Arrived :
         ctx[c] \in [id : RequestIds, socket : 1..MaxSockets, hasBody : BOOLEAN,
                     state : CtxStates, nextRequest : 0..MaxBody,
                     nextResponse : 0..MaxBody, idle : BOOLEAN, absolute : BOOLEAN,
                     completed : BOOLEAN, cancelled : BOOLEAN]
    /\ Len(local) = Len(ctx) /\ Len(sent) = Len(ctx)
    /\ \A c \in Arrived : local[c] \in {"requested", "answered", "closed"}
    /\ socket \in 0..MaxSockets /\ sockets \in 0..MaxSockets /\ open \in BOOLEAN

\* The Map holds exactly the contexts that are neither completed nor
\* cancelled, under their own id, also when an id is used again while late
\* events of its former context arrive; exactly those have a running idle
\* timer, so none can hang, and no timer of an ended one is left.
MapIsLive ==
    /\ \A r \in RequestIds : contexts[r] # 0 => Live(contexts[r]) /\ ctx[contexts[r]].id = r
    /\ \A c \in Arrived :
         /\ Live(c) => contexts[ctx[c].id] = c
         /\ Live(c) <=> ctx[c].idle
         /\ ctx[c].absolute => Live(c)

\* Seen from the relay the tunnel keeps the promise of RequestStreams: every
\* answer is a stream without a gap or a second end, whatever event comes late
\* for a request that is over sends nothing and does not revive it, and none
\* survives into a later connection, where its answer would go to the wrong
\* socket.
Streams == INSTANCE RequestStreams WITH
    Requests <- Ids,
    MaxParts <- MaxBody,
    connected <- socket # 0,
    accepted <- Arrived,
    live <- {c \in Arrived : Live(c)},
    stream <- [c \in Ids |-> IF c \in Arrived THEN sent[c] ELSE <<>>]
KeepsPromise == Streams!Spec

\* Every request ends: answered, cancelled or given up, because the idle timer
\* runs and a body of bounded length can restart it only so often.
RequestsEnd == \A c \in Ids : Live(c) ~> ~Live(c)
=============================================================================
