--------------------------- MODULE RelayConnection ---------------------------
(***************************************************************************)
(* The origin WebSocket client of the remote access                       *)
(* (src/src/remote-access/relay-connection.js): one connection state       *)
(* machine, its three timers, the challenge handshake, the reconnect       *)
(* policy, and the requests (link removals, push notifications, tunnel     *)
(* requests) that live on an authenticated connection.                     *)
(*                                                                         *)
(* The program is one event loop: an action is one event handler.  The     *)
(* identity store answers in the microtask queue (its file reads and its   *)
(* signatures are synchronous), so connect() is one action; only frames of *)
(* the chunk that brought the challenge can be handled before the          *)
(* signature is used, which is what `signing` is for.                      *)
(*                                                                         *)
(* A socket is named by the generation that opened it.  The relay and the  *)
(* network are the environment: sockets open, fail and close at any time,  *)
(* the relay answers only what was asked, and it may answer late or never. *)
(***************************************************************************)
EXTENDS Naturals, Sequences, FiniteSets

CONSTANTS
    Configured,       \* is there a relay URL and a WebSocket implementation?
    MaxAuthFailures,  \* rejected handshakes in a row before giving up
    BackoffSteps,     \* number of entries of BACKOFF_MS
    MaxProcessed,     \* challenge ids remembered against replay
    NumPushes,        \* bound: push notifications sent in a behaviour
    Removals,         \* bound: the remove_link requests of a behaviour
    MaxGen,           \* bound on the generation counter
    MaxSpread         \* bound on the generation and the pushes, together

ASSUME ConstantsAssumption ==
    /\ Configured \in BOOLEAN
    /\ MaxAuthFailures \in Nat \ {0}
    /\ BackoffSteps \in Nat \ {0}
    /\ MaxProcessed \in Nat \ {0}
    /\ NumPushes \in Nat
    /\ MaxGen \in Nat
    /\ MaxSpread \in Nat

VARIABLES
    state,           \* STATE
    stopped,         \* the user, a shutdown or a replacement ended the service
    generation,      \* events of sockets of an older generation are ignored
    ws,              \* the socket in use, 0 for none
    reconnectTimer,  \* armed?
    authTimer,       \* the generation it was armed for, 0 when not armed
    idleTimer,       \* armed?
    backoffIndex,
    authFailures,
    processed,       \* processedChallenges, in insertion order
    signing,         \* challenge handed to the identity store: [gen, challenge]
    relayTunnel,     \* the capability the relay granted
    pendingPushes,   \* FIFO of unacknowledged pushes
    pendingRemovals, \* open remove_link requests
    contexts,        \* sockets with an open tunnel request
    sockets,         \* network: the life of each socket
    authSent,        \* network: `authenticate` messages sent, [sock, challenge]
    relayQ,          \* network: pushes the relay got on a socket, not answered
    nextPush,        \* history: the next push to be sent
    sentOn,          \* history: the socket a push was sent on, 0 for none
    result,          \* history: how the promise of each push was settled
    ackOf            \* history: the push whose answer settled a push

session  == <<state, stopped>>
timers   == <<reconnectTimer, authTimer, idleTimer>>
retry    == <<backoffIndex, authFailures>>
requests == <<pendingPushes, pendingRemovals, contexts, result>>
wire     == <<authSent, relayQ>>
history  == <<nextPush, sentOn, ackOf>>
vars == <<session, generation, ws, timers, retry, processed, signing,
          relayTunnel, requests, sockets, wire, history>>

States == {"idle", "connecting", "waiting_for_challenge", "authenticating",
           "authenticated", "reconnecting", "disconnected", "failed",
           "stopped"}
Handshake == {"connecting", "waiting_for_challenge", "authenticating"}
Active == Handshake \cup {"authenticated"}

Sockets == 1..MaxGen

\* The bound is not used up: a behaviour has many connections or many pushes.
Spread(g) == g + nextPush <= MaxSpread

Pushes == 1..NumPushes
Unsettled == {"new", "pending"}

Init ==
    /\ state = "idle" /\ stopped = FALSE
    /\ generation = 0 /\ ws = 0
    /\ reconnectTimer = FALSE /\ authTimer = 0 /\ idleTimer = FALSE
    /\ backoffIndex = 0 /\ authFailures = 0
    /\ processed = <<>> /\ signing = {} /\ relayTunnel = FALSE
    /\ pendingPushes = <<>> /\ pendingRemovals = {} /\ contexts = {}
    /\ sockets = [g \in Sockets |-> "none"]
    /\ authSent = {} /\ relayQ = [g \in Sockets |-> <<>>]
    /\ nextPush = 1 /\ sentOn = [p \in Pushes |-> 0]
    /\ result = [p \in Pushes |-> "new"]
    /\ ackOf = [p \in Pushes |-> 0]

-----------------------------------------------------------------------------
(* Helpers shared by the handlers *)

\* Mutant: pushes survive the connection they were sent on.
RejectRequests_KeepPushes ==
    pendingRemovals' = {} /\ contexts' = {} /\ UNCHANGED <<pendingPushes, result>>

\* rejectPendingRemovals, rejectPendingPushes and the tunnel's abortAll.
RejectRequests ==
    /\ result' = [p \in Pushes |->
                    IF \E i \in DOMAIN pendingPushes : pendingPushes[i] = p
                    THEN "failed" ELSE result[p]]
    /\ pendingPushes' = <<>>
    /\ pendingRemovals' = {}
    /\ contexts' = {}

\* Mutant: nothing is failed when the session ends.
SetState_Keep(s) == state' = s /\ UNCHANGED requests

\* A handler ends in state s.  Leaving "authenticated" fails what is open.
SetState(s) ==
    /\ state' = s
    /\ IF state = "authenticated" /\ s # "authenticated"
       THEN RejectRequests
       ELSE UNCHANGED requests

\* Mutant: the old socket is forgotten, not terminated.
Closed_Leak == sockets
\* Mutant: a state name that is not one of STATE.
AfterDrop_Typo == IF state \in {"failed", "stopped"} THEN state ELSE "closed"

\* dropSocket: forget the socket, terminate it, outdate its events.
Closed == [g \in Sockets |-> IF g = ws THEN "closed" ELSE sockets[g]]
DropSocket ==
    /\ ws' = 0
    /\ generation' = generation + 1
    /\ authTimer' = 0
    /\ idleTimer' = FALSE
    /\ sockets' = Closed
AfterDrop == IF state \in {"failed", "stopped"} THEN state ELSE "disconnected"

\* scheduleReconnect, called with the connection in state s.  Only the first
\* BackoffSteps values of backoffIndex matter.
ScheduleReconnect(s) ==
    IF stopped \/ reconnectTimer \/ s = "failed"
    THEN SetState(s) /\ UNCHANGED <<reconnectTimer, backoffIndex>>
    ELSE /\ SetState("reconnecting")
         /\ reconnectTimer' = TRUE
         /\ backoffIndex' = IF backoffIndex < BackoffSteps
                            THEN backoffIndex + 1 ELSE backoffIndex

DropAndRetry ==
    /\ DropSocket
    /\ ScheduleReconnect(AfterDrop)
    /\ UNCHANGED stopped

\* Mutant: the protocol error forgets to schedule the reconnect.
ProtocolAbort_NoRetry ==
    /\ DropSocket /\ SetState(AfterDrop)
    /\ UNCHANGED <<stopped, reconnectTimer, retry>>

\* protocolAbort: drop and, unless stopped or failed, retry later.
ProtocolAbort == DropAndRetry /\ UNCHANGED authFailures

\* sendJson sends on the socket in use if that is open.
CanSend == ws \in Sockets /\ sockets[ws] = "open"

-----------------------------------------------------------------------------
(* connect().  c is what the caller left of the fields connect() may change *)

Now == [state |-> state, stopped |-> stopped, generation |-> generation,
        ws |-> ws, sockets |-> sockets, authTimer |-> authTimer,
        reconnectTimer |-> reconnectTimer, backoffIndex |-> backoffIndex]

Ends(c) ==
    /\ SetState(c.state)
    /\ stopped' = c.stopped
    /\ generation' = c.generation
    /\ ws' = c.ws
    /\ sockets' = c.sockets
    /\ authTimer' = c.authTimer
    /\ reconnectTimer' = c.reconnectTimer
    /\ backoffIndex' = c.backoffIndex

\* Mutant: connect() does not look at `stopped`.
MayConnect_Stopped(c) == c.state \notin Active

MayConnect(c) == ~c.stopped /\ c.state \notin Active

\* Nothing provisioned, or the identity store (or the setup) is unusable.
ConnectRefused(c) ==
    /\ MayConnect(c)
    /\ \E s \in IF Configured THEN {"idle", "failed"} ELSE {"failed"} :
          Ends([c EXCEPT !.state = s])

ConnectThrows(c) ==
    /\ MayConnect(c) /\ Configured
    /\ c.generation < MaxGen /\ Spread(c.generation)
    /\ Ends([c EXCEPT
          !.generation = @ + 1,
          !.state = IF c.reconnectTimer THEN "disconnected" ELSE "reconnecting",
          !.reconnectTimer = TRUE,
          !.backoffIndex = IF ~c.reconnectTimer /\ @ < BackoffSteps
                           THEN @ + 1 ELSE @])

\* Mutant: the authentication timer is not armed.
ConnectOpens_NoTimer(c) ==
    /\ MayConnect(c) /\ Configured
    /\ c.generation < MaxGen /\ Spread(c.generation)
    /\ Ends([c EXCEPT !.generation = @ + 1, !.state = "connecting",
                      !.ws = c.generation + 1,
                      !.sockets[c.generation + 1] = "connecting"])

ConnectOpens(c) ==
    /\ MayConnect(c) /\ Configured
    /\ c.generation < MaxGen /\ Spread(c.generation)
    /\ Ends([c EXCEPT
          !.generation = @ + 1,
          !.state = "connecting",
          !.ws = c.generation + 1,
          !.sockets[c.generation + 1] = "connecting",
          !.authTimer = c.generation + 1])

Connect(c) ==
    \/ ~MayConnect(c) /\ Ends(c)
    \/ ConnectRefused(c)
    \/ ConnectThrows(c)
    \/ ConnectOpens(c)

-----------------------------------------------------------------------------
(* What the application calls *)

\* start(), from autostart, onPaired and the connect route.
Start ==
    /\ authFailures' = 0
    /\ Connect([Now EXCEPT !.stopped = FALSE, !.backoffIndex = 0])
    /\ UNCHANGED <<idleTimer, processed, signing, relayTunnel, wire, history>>

\* reconnect(): after dropSocket, with a pending reconnect timer and the
\* failure count left alone.
Dropped == [state |-> AfterDrop, stopped |-> FALSE, generation |-> generation + 1,
            ws |-> 0, sockets |-> Closed, authTimer |-> 0,
            reconnectTimer |-> reconnectTimer, backoffIndex |-> 0]
Reconnect ==
    /\ generation < MaxGen /\ Spread(generation + 1)
    /\ idleTimer' = FALSE
    /\ Connect(Dropped)
    /\ UNCHANGED <<authFailures, processed, signing, relayTunnel, wire, history>>

Disconnect ==
    /\ generation <= MaxGen
    /\ stopped' = TRUE
    /\ reconnectTimer' = FALSE
    /\ DropSocket
    /\ SetState("stopped")
    /\ UNCHANGED <<retry, processed, signing, relayTunnel, wire, history>>

\* shutdown() closes the socket with a close frame instead of terminating it.
Shutdown ==
    /\ generation <= MaxGen
    /\ stopped' = TRUE
    /\ reconnectTimer' = FALSE /\ authTimer' = 0 /\ idleTimer' = FALSE
    /\ ws' = 0 /\ generation' = generation + 1
    /\ sockets' = [g \in Sockets |->
                     IF g = ws /\ sockets[g] # "closed" THEN "closing" ELSE sockets[g]]
    /\ state' = "stopped"
    /\ RejectRequests
    /\ UNCHANGED <<retry, processed, signing, relayTunnel, wire, history>>

\* pushNotification(): queued also when sendJson silently sends nothing.
PushNotification ==
    /\ nextPush \in Pushes /\ Spread(generation)
    /\ nextPush' = nextPush + 1
    /\ IF state = "authenticated"
       THEN /\ pendingPushes' = Append(pendingPushes, nextPush)
            /\ result' = [result EXCEPT ![nextPush] = "pending"]
            /\ IF CanSend
               THEN /\ relayQ' = [relayQ EXCEPT ![ws] = Append(@, nextPush)]
                    /\ sentOn' = [sentOn EXCEPT ![nextPush] = ws]
               ELSE UNCHANGED <<relayQ, sentOn>>
       ELSE /\ result' = [result EXCEPT ![nextPush] = "failed"]
            /\ UNCHANGED <<pendingPushes, relayQ, sentOn>>
    /\ UNCHANGED <<session, generation, ws, timers, retry, processed, signing,
                   relayTunnel, pendingRemovals, contexts, sockets, authSent, ackOf>>

\* removeLink(): a request of its own id, rejected at once when not connected.
RemoveLink(r) ==
    /\ state = "authenticated"
    /\ r \notin pendingRemovals
    /\ pendingRemovals' = pendingRemovals \cup {r}
    /\ UNCHANGED <<session, generation, ws, timers, retry, processed, signing,
                   relayTunnel, pendingPushes, contexts, result, sockets, wire,
                   history>>

-----------------------------------------------------------------------------
(* Timers *)

\* The callback of the reconnect timer: connect(), whatever the state is.
ReconnectTimeout ==
    /\ reconnectTimer
    /\ Connect([Now EXCEPT !.reconnectTimer = FALSE])
    /\ UNCHANGED <<idleTimer, authFailures, processed, signing, relayTunnel, wire,
                   history>>

AuthTimeout ==
    /\ authTimer # 0
    /\ IF authTimer = generation /\ state # "authenticated"
       THEN DropAndRetry
       ELSE /\ authTimer' = 0
            /\ UNCHANGED <<session, generation, ws, reconnectTimer, idleTimer,
                           backoffIndex, requests, sockets>>
    /\ UNCHANGED <<authFailures, processed, signing, relayTunnel, wire, history>>

IdleTimeout ==
    /\ idleTimer
    /\ DropAndRetry
    /\ UNCHANGED <<authFailures, processed, signing, relayTunnel, wire, history>>

\* The timer of a push takes its own entry out of the FIFO.
PushTimeout ==
    \E i \in DOMAIN pendingPushes :
        /\ result' = [result EXCEPT ![pendingPushes[i]] = "timeout"]
        /\ pendingPushes' = SubSeq(pendingPushes, 1, i - 1)
                              \o SubSeq(pendingPushes, i + 1, Len(pendingPushes))
        /\ UNCHANGED <<session, generation, ws, timers, retry, processed, signing,
                       relayTunnel, pendingRemovals, contexts, sockets, wire,
                       history>>

\* A removal ends by its timer or by link_removed, for good or for bad.
RemovalSettled(r) ==
    /\ r \in pendingRemovals
    /\ pendingRemovals' = pendingRemovals \ {r}
    /\ UNCHANGED <<session, generation, ws, timers, retry, processed, signing,
                   relayTunnel, pendingPushes, contexts, result, sockets, wire,
                   history>>

-----------------------------------------------------------------------------
(* Socket events: those of an older generation do nothing here *)

SocketOpen(g) ==
    /\ sockets[g] = "connecting"
    /\ sockets' = [sockets EXCEPT ![g] = "open"]
    /\ IF g = generation
       THEN SetState("waiting_for_challenge") /\ idleTimer' = TRUE
       ELSE UNCHANGED <<state, requests, idleTimer>>
    /\ UNCHANGED <<stopped, generation, ws, reconnectTimer, authTimer, retry,
                   processed, signing, relayTunnel, wire, history>>

\* The network: a connection attempt fails, or the peer closes.
PeerCloses(g) ==
    /\ sockets[g] \in {"connecting", "open"}
    /\ sockets' = [sockets EXCEPT ![g] = "closing"]
    /\ UNCHANGED <<session, generation, ws, timers, retry, processed, signing,
                   relayTunnel, requests, wire, history>>

\* onClose
SocketClose(g) ==
    /\ sockets[g] = "closing"
    /\ sockets' = [sockets EXCEPT ![g] = "closed"]
    /\ IF g = generation
       THEN /\ authTimer' = 0 /\ idleTimer' = FALSE /\ ws' = 0
            /\ IF stopped THEN SetState("stopped")
                               /\ UNCHANGED <<reconnectTimer, backoffIndex>>
               ELSE IF state = "failed"
               THEN UNCHANGED <<state, requests, reconnectTimer, backoffIndex>>
               ELSE ScheduleReconnect("disconnected")
       ELSE UNCHANGED <<state, timers, ws, requests, backoffIndex>>
    /\ UNCHANGED <<stopped, generation, authFailures, processed, signing,
                   relayTunnel, wire, history>>

-----------------------------------------------------------------------------
(* Messages of the relay.  Any of them restarts the idle timer first, which *)
(* is running whenever a socket is open.                                    *)

Heard == generation \in Sockets /\ sockets[generation] = "open"

\* A frame no handler accepts: binary, too large, not JSON, an unknown type or
\* field, a message that does not belong into the present state, a challenge
\* that was answered before.
BadMessage ==
    /\ Heard
    /\ ProtocolAbort
    /\ UNCHANGED <<processed, signing, relayTunnel, wire, history>>

\* handleChallenge with a valid challenge c: challenge ids are named by the
\* socket they were made for, an older one is a replay.
Challenge(c) ==
    /\ Heard
    /\ c \in 1..generation
    /\ state = "waiting_for_challenge"
    /\ c \notin {processed[i] : i \in DOMAIN processed}
    /\ processed' = LET longer == Append(processed, c)
                    IN IF Len(longer) > MaxProcessed THEN Tail(longer) ELSE longer
    /\ SetState("authenticating")
    /\ signing' = signing \cup {[gen |-> generation, challenge |-> c]}
    /\ UNCHANGED <<stopped, generation, ws, timers, retry, relayTunnel, sockets,
                   wire, history>>

\* The rest of handleChallenge, after the await.
Signed(s) ==
    /\ s \in signing
    /\ signing' = signing \ {s}
    /\ authSent' = IF s.gen = generation /\ state = "authenticating" /\ CanSend
                   THEN authSent \cup {[sock |-> ws, challenge |-> s.challenge]}
                   ELSE authSent
    /\ UNCHANGED <<session, generation, ws, timers, retry, processed, relayTunnel,
                   requests, sockets, relayQ, history>>

SignFailed(s) ==
    /\ s \in signing
    /\ signing' = signing \ {s}
    /\ IF s.gen = generation
       THEN ProtocolAbort
       ELSE UNCHANGED <<session, generation, ws, timers, retry, requests, sockets>>
    /\ UNCHANGED <<processed, relayTunnel, wire, history>>

\* handleAuthenticated, the answer to the client's `authenticate`.
Authenticated(tunnel) ==
    /\ Heard
    /\ \E m \in authSent : m.sock = generation
    /\ state = "authenticating"
    /\ relayTunnel' = tunnel
    /\ authFailures' = 0 /\ backoffIndex' = 0 /\ authTimer' = 0
    /\ SetState("authenticated")
    /\ UNCHANGED <<stopped, generation, ws, reconnectTimer, idleTimer, processed,
                   signing, sockets, wire, history>>

\* error authentication_failed or authentication_timeout.  Only whether
\* authFailures has reached MaxAuthFailures matters.
AuthRejected ==
    /\ Heard
    /\ authFailures' = IF authFailures < MaxAuthFailures
                       THEN authFailures + 1 ELSE authFailures
    /\ DropSocket
    /\ IF authFailures + 1 >= MaxAuthFailures
       THEN SetState("failed") /\ UNCHANGED <<reconnectTimer, backoffIndex>>
       ELSE ScheduleReconnect(AfterDrop)
    /\ UNCHANGED <<stopped, processed, signing, relayTunnel, wire, history>>

\* error connection_replaced
Replaced ==
    /\ Heard
    /\ stopped' = TRUE
    /\ DropSocket
    /\ SetState("disconnected")
    /\ UNCHANGED <<reconnectTimer, retry, processed, signing, relayTunnel, wire,
                   history>>

\* handlePushResult: the relay answers its oldest open push; the answer names
\* no push and goes to the head of the client's FIFO.
PushResult(ok) ==
    /\ Heard
    /\ relayQ[generation] # <<>>
    /\ relayQ' = [relayQ EXCEPT ![generation] = Tail(@)]
    /\ IF pendingPushes # <<>>
       THEN /\ pendingPushes' = Tail(pendingPushes)
            /\ result' = [result EXCEPT ![Head(pendingPushes)] =
                                          IF ok THEN "accepted" ELSE "failed"]
            /\ ackOf' = [ackOf EXCEPT ![Head(pendingPushes)] = Head(relayQ[generation])]
       ELSE UNCHANGED <<pendingPushes, result, ackOf>>
    /\ UNCHANGED <<session, generation, ws, timers, retry, processed, signing,
                   relayTunnel, pendingRemovals, contexts, sockets, authSent, nextPush, sentOn>>

\* A tunnel request, accepted only on an authenticated connection that has the
\* capability, and the end of one.
TunnelStart ==
    /\ Heard
    /\ state = "authenticated" /\ relayTunnel
    /\ contexts' = contexts \cup {ws}
    /\ UNCHANGED <<session, generation, ws, timers, retry, processed, signing,
                   relayTunnel, pendingPushes, pendingRemovals, result, sockets,
                   wire, history>>

TunnelDone(g) ==
    /\ g \in contexts
    /\ contexts' = contexts \ {g}
    /\ UNCHANGED <<session, generation, ws, timers, retry, processed, signing,
                   relayTunnel, pendingPushes, pendingRemovals, result, sockets,
                   wire, history>>

-----------------------------------------------------------------------------
Message ==
    \/ BadMessage \/ AuthRejected \/ Replaced \/ TunnelStart
    \/ \E c \in Sockets : Challenge(c)
    \/ \E b \in BOOLEAN : Authenticated(b) \/ PushResult(b)

Signature == \E s \in signing : Signed(s) \/ SignFailed(s)

Timer ==
    \/ ReconnectTimeout \/ AuthTimeout \/ IdleTimeout \/ PushTimeout

SocketEvent == \E g \in Sockets : SocketOpen(g) \/ PeerCloses(g) \/ SocketClose(g)

Call ==
    \/ Start \/ Reconnect \/ Disconnect \/ Shutdown \/ PushNotification
    \/ \E r \in Removals : RemoveLink(r)

\* While a signature is awaited only frames of the same chunk are handled.
NextEvent ==
    /\ signing = {}
    /\ \/ Timer \/ SocketEvent \/ Call
       \/ \E r \in Removals : RemovalSettled(r)
       \/ \E g \in contexts : TunnelDone(g)

Next == Message \/ Signature \/ NextEvent

Spec == Init /\ [][Next]_vars

-----------------------------------------------------------------------------
(* Properties *)

\* The values the variables of relay-connection.js 111-136 take.
ModeTypeOK ==
    /\ state \in States
    /\ {stopped, reconnectTimer, idleTimer, relayTunnel} \subseteq BOOLEAN
CounterTypeOK ==
    /\ generation \in 0..(MaxGen + 1)
    /\ ws \in {0} \cup Sockets /\ authTimer \in {0} \cup Sockets
    /\ backoffIndex \in 0..BackoffSteps
    /\ authFailures \in 0..MaxAuthFailures
SocketTypeOK ==
    sockets \in [Sockets -> {"none", "connecting", "open", "closing", "closed"}]
ChallengeTypeOK ==
    /\ processed \in Seq(Sockets)
    /\ signing \subseteq [gen : Sockets, challenge : Sockets]
    /\ authSent \subseteq [sock : Sockets, challenge : Sockets]
RequestTypeOK ==
    /\ pendingPushes \in Seq(Pushes)
    /\ pendingRemovals \subseteq Removals
    /\ contexts \subseteq Sockets
    /\ result \in [Pushes -> {"new", "pending", "accepted", "failed", "timeout"}]
WireTypeOK ==
    /\ relayQ \in [Sockets -> Seq(Pushes)]
    /\ nextPush \in 1..(NumPushes + 1)
    /\ sentOn \in [Pushes -> {0} \cup Sockets]
    /\ ackOf \in [Pushes -> {0} \cup Pushes]
ConnTypeOK == ModeTypeOK /\ CounterTypeOK /\ SocketTypeOK
TypeOK == ConnTypeOK /\ ChallengeTypeOK /\ RequestTypeOK /\ WireTypeOK

\* The client is never stranded: it works on the socket it opened last, a
\* handshake runs under the authentication timer of its own generation, an
\* authenticated connection under the idle timer, and a lost connection that
\* was not stopped has a reconnect pending.
Supervised ==
    /\ state \in Active => ws = generation
    /\ state \in Handshake => authTimer = generation
    /\ state = "authenticated" => idleTimer
    /\ state \in {"disconnected", "reconnecting"} /\ ~stopped => reconnectTimer
    /\ state = "stopped" => stopped

\* connection-service.js 3-5: one connection per process.  A socket that is
\* connecting or open is the one in use, and its events are listened to.
OneConnection ==
    \A g \in Sockets :
        sockets[g] \in {"connecting", "open"} => g = ws /\ g = generation

\* Requests exist only on an authenticated connection, so none outlives the
\* session it was sent in; a tunnel context belongs to the socket in use.
RequestsNeedSession ==
    /\ state # "authenticated" => pendingPushes = <<>> /\ pendingRemovals = {}
    /\ \A g \in contexts : state = "authenticated" /\ g = ws

\* The promise of a push that was sent waits in the FIFO, once, until it is
\* settled: no caller waits forever and none is answered twice.  What settles it
\* is an acknowledgement of the same connection, never of a push sent later.
NoLostPromise ==
    /\ \A p \in Pushes :
          result[p] = "pending" <=> \E i \in DOMAIN pendingPushes : pendingPushes[i] = p
    /\ \A i, j \in DOMAIN pendingPushes : pendingPushes[i] = pendingPushes[j] => i = j
    /\ \A p \in Pushes : ackOf[p] # 0 => ackOf[p] <= p /\ sentOn[ackOf[p]] = sentOn[p]

\* Seen from the application the connection keeps the promise of RelaySession:
\* whatever order calls, timers, late events and messages of the relay come in,
\* every step is one of the session or does not concern it.
Sessions == INSTANCE RelaySession WITH
    connected <- state = "authenticated",
    verdict <- result,
    removals <- pendingRemovals,
    tunnel <- contexts # {}
ServesSessions == Sessions!Spec

\* While the service is stopped or replaced, also with a reconnect timer left
\* over, no connection attempt starts.
StoppedStaysDown ==
    [][stopped /\ stopped' =>
         \A g \in Sockets : sockets'[g] = "connecting" => sockets[g] = "connecting"]_vars

\* relay-connection.js 37-38: after too many rejected handshakes nothing is
\* tried any more; an attempt from "failed" is a call, not the timer.
NoAttemptAfterFailed ==
    [][state = "failed" /\ authFailures = MaxAuthFailures /\ state' = "connecting"
         => reconnectTimer' = reconnectTimer]_vars

\* relay-connection.js 84-85: an outage of the relay does not disturb the local
\* service.  A socket that is terminated in its opening handshake reports that
\* by an `error` event (library ws); dropSocket has removed the listeners, and
\* an unheard `error` event ends the process.
NoUnheardError ==
    [][\A g \in Sockets : sockets[g] = "connecting" => sockets'[g] # "closed"]_vars

\* ARCHITECTURE.md 82: acknowledgements are matched to pushes in send order.
AckIsOwn == \A p \in Pushes : ackOf[p] \in {0, p}

\* Every handshake ends and every lost connection is tried again, so a client
\* that is not stopped gets authenticated, gives up or uses up the bound.
Recovering == ~stopped /\ state \notin {"idle", "failed", "authenticated"}
KeepsTrying == Recovering ~> (~Recovering \/ generation >= MaxGen \/ ~Spread(generation))

\* The event loop runs due timers, due close events and settled promises.
FairSpec ==
    /\ Spec
    /\ WF_vars(signing = {} /\ ReconnectTimeout)
    /\ WF_vars(signing = {} /\ AuthTimeout)
    /\ WF_vars(Signature)
=============================================================================
