----------------------- MODULE RelayConnection_proofs -----------------------
(***************************************************************************)
(* Safety of the origin connection for every value of the constants.      *)
(***************************************************************************)
EXTENDS RelayConnection, SequenceTheorems, TLAPS

\* What Supervised and OneConnection need to be inductive: outside a handshake
\* or a session there is no socket in use, the one in use is not yet closed,
\* no younger one exists, and from the open event on, but at no other time,
\* the idle timer runs.
ConnInv ==
    /\ ConnTypeOK
    /\ Supervised
    /\ OneConnection
    /\ state \notin Active => ws = 0
    /\ state \in Handshake \ {"connecting"} => idleTimer
    /\ idleTimer => state \in Active
    /\ \A g \in Sockets : g > generation => sockets[g] = "none"
    /\ ws # 0 => sockets[ws] \in {"connecting", "open", "closing"}
    /\ state \in Active \ {"connecting"} => sockets[ws] # "connecting"

USE ConstantsAssumption DEF ConstantsAssumption, Sockets, Pushes

LEMMA InitConn == Init => ConnInv
<1> SUFFICES ASSUME Init PROVE ConnInv OBVIOUS
<1>1. ModeTypeOK BY DEF Init, ModeTypeOK, States
<1>2. CounterTypeOK BY DEF Init, CounterTypeOK
<1>3. SocketTypeOK BY DEF Init, SocketTypeOK
<1> QED BY <1>1, <1>2, <1>3 DEF Init, ConnInv, ConnTypeOK, Supervised, OneConnection, Active, Handshake

LEMMA DropConn ==
    ASSUME ConnInv, generation <= MaxGen, DropAndRetry, 
           authFailures' \in 0..MaxAuthFailures, UNCHANGED relayTunnel
    PROVE  ConnInv'
<1> USE DEF ConnInv, ConnTypeOK
<1>1. ModeTypeOK'
  BY DEF ModeTypeOK, States, DropAndRetry, DropSocket, ScheduleReconnect, SetState, AfterDrop
<1>2. CounterTypeOK'
  BY DEF CounterTypeOK, DropAndRetry, DropSocket, ScheduleReconnect
<1>3. SocketTypeOK' BY DEF SocketTypeOK, DropAndRetry, DropSocket, Closed
<1>4. state' \notin Active
  BY DEF DropAndRetry, ScheduleReconnect, SetState, AfterDrop, ModeTypeOK, States, Active, Handshake
<1>5. Supervised'
  BY <1>4 DEF ModeTypeOK, States, Supervised, DropAndRetry, ScheduleReconnect, SetState,
         AfterDrop, Active, Handshake
<1>6. OneConnection' BY DEF OneConnection, DropAndRetry, DropSocket, Closed
<1> QED 
  BY <1>1, <1>2, <1>3, <1>4, <1>5, <1>6
  DEF CounterTypeOK, DropAndRetry, DropSocket, Closed, Active, Handshake

\* What connect() may be handed: the fields of a consistent connection, or of
\* an inactive one without a socket in use, perhaps not supervised yet.
SocketStates == {"none", "connecting", "open", "closing", "closed"}
Generations == 0..(MaxGen + 1)
SocketOrNone == {0} \cup Sockets
Backoffs == 0..BackoffSteps
Handed == [state : States, stopped : BOOLEAN, generation : Generations,
           ws : SocketOrNone, sockets : [Sockets -> SocketStates],
           authTimer : SocketOrNone, reconnectTimer : BOOLEAN,
           backoffIndex : Backoffs]
Ready(c) ==
    /\ c.state \notin Active => c.ws = 0
    /\ c.state \in Active => c.ws = c.generation
    /\ c.state \in Handshake => c.authTimer = c.generation
    /\ \A g \in Sockets : c.sockets[g] \in {"connecting", "open"} => g = c.ws /\ g = c.generation
    /\ \A g \in Sockets : g > c.generation => c.sockets[g] = "none"
    /\ c.ws # 0 => c.sockets[c.ws] \in {"connecting", "open", "closing"}
    /\ c.state \in Active \ {"connecting"} => c.sockets[c.ws] # "connecting"

\* Each outcome of connect() leaves a consistent, supervised connection.
LEMMA ConnectConn ==
    ASSUME NEW c \in Handed, Ready(c), Connect(c), ModeTypeOK,
           UNCHANGED relayTunnel, idleTimer' \in BOOLEAN,
           authFailures' \in 0..MaxAuthFailures,
           c.state \in Active \ {"connecting"} => idleTimer',
           idleTimer' => c.state \in Active
    PROVE  ConnInv'
<1> USE DEF Ends, SetState
<1>m. c.state \in States /\ c.stopped \in BOOLEAN /\ c.reconnectTimer \in BOOLEAN
  BY DEF Handed
<1>n. /\ c.generation \in 0..(MaxGen + 1) /\ c.ws \in {0} \cup Sockets
      /\ c.authTimer \in {0} \cup Sockets /\ c.backoffIndex \in 0..BackoffSteps
  BY DEF Handed, Generations, SocketOrNone, Backoffs
<1>s. c.sockets \in [Sockets -> SocketStates]
  BY DEF Handed
<1>1. CASE ~MayConnect(c) /\ Ends(c)
  <2>1. ModeTypeOK' BY <1>1, <1>m DEF ModeTypeOK
  <2>2. CounterTypeOK' BY <1>1, <1>n DEF CounterTypeOK
  <2>3. SocketTypeOK' BY <1>1, <1>s DEF SocketTypeOK, SocketStates
  <2>4. Supervised' BY <1>1, <1>m DEF Supervised, Ready, MayConnect, Active, Handshake
  <2> QED BY <1>1, <2>1, <2>2, <2>3, <2>4
          DEF ConnInv, ConnTypeOK, OneConnection, Ready, Active, Handshake
<1>2. CASE ConnectRefused(c)
  <2>0. /\ state' \in {"idle", "failed"} /\ stopped' = c.stopped
        /\ generation' = c.generation /\ ws' = c.ws /\ sockets' = c.sockets
        /\ authTimer' = c.authTimer /\ reconnectTimer' = c.reconnectTimer
        /\ backoffIndex' = c.backoffIndex
    BY <1>2 DEF ConnectRefused, Handed
  <2>1. ModeTypeOK' BY <2>0, <1>m DEF ModeTypeOK, States
  <2>2. CounterTypeOK' BY <2>0, <1>n DEF CounterTypeOK
  <2>3. SocketTypeOK' BY <2>0, <1>s DEF SocketTypeOK, SocketStates
  <2>4. c.ws = 0 /\ state' \notin Active /\ ~idleTimer'
    BY <1>2, <2>0 DEF ConnectRefused, MayConnect, Ready, Active, Handshake
  <2>5. Supervised' BY <2>0, <2>4 DEF Supervised, Active, Handshake
  <2> QED BY <2>0, <2>1, <2>2, <2>3, <2>4, <2>5
          DEF ConnInv, ConnTypeOK, OneConnection, Ready, Active, Handshake
<1>3. CASE ConnectThrows(c)
  <2>0. /\ state' \in {"disconnected", "reconnecting"} /\ stopped' = c.stopped
        /\ generation' = c.generation + 1 /\ ws' = c.ws /\ sockets' = c.sockets
        /\ authTimer' = c.authTimer /\ reconnectTimer'
    BY <1>3 DEF ConnectThrows, Handed
  <2>b. backoffIndex' \in 0..BackoffSteps
    BY <1>3, <1>n DEF ConnectThrows, Handed
  <2>c. c.generation < MaxGen /\ c.ws = 0 /\ state' \notin Active /\ ~idleTimer'
    BY <1>3, <2>0 DEF ConnectThrows, MayConnect, Ready, Active, Handshake
  <2>d. reconnectTimer' \in BOOLEAN
    BY <1>3, <1>m DEF ConnectThrows, Handed
  <2>1. ModeTypeOK' BY <2>0, <2>d, <1>m DEF ModeTypeOK, States
  <2>2. CounterTypeOK' BY <2>0, <2>b, <2>c, <1>n DEF CounterTypeOK
  <2>3. SocketTypeOK' BY <2>0, <1>s DEF SocketTypeOK, SocketStates
  <2>4. Supervised' BY <2>0, <2>c DEF Supervised, Active, Handshake
  <2> QED BY <2>0, <2>1, <2>2, <2>3, <2>4, <2>c, <1>n
          DEF ConnInv, ConnTypeOK, OneConnection, Ready, Active, Handshake
<1>4. CASE ConnectOpens(c)
  <2>0. /\ state' = "connecting" /\ stopped' = c.stopped
        /\ generation' = c.generation + 1 /\ ws' = c.generation + 1
        /\ authTimer' = c.generation + 1 /\ reconnectTimer' = c.reconnectTimer
        /\ backoffIndex' = c.backoffIndex
        /\ sockets' = [c.sockets EXCEPT ![c.generation + 1] = "connecting"]
    BY <1>4 DEF ConnectOpens, Handed
  <2>c. c.generation < MaxGen /\ c.ws = 0
    BY <1>4 DEF ConnectOpens, MayConnect, Ready
  <2>1. ModeTypeOK' BY <2>0, <1>m DEF ModeTypeOK, States
  <2>2. CounterTypeOK' BY <2>0, <2>c, <1>n DEF CounterTypeOK
  <2>3. SocketTypeOK' BY <2>0, <1>s DEF SocketTypeOK, SocketStates
  <2>4. Supervised' BY <2>0 DEF Supervised, Active, Handshake
  <2>5. OneConnection' BY <2>0, <2>c, <1>n, <1>s DEF OneConnection, Ready, SocketStates
  <2>6. \A g \in Sockets : g > generation' => sockets'[g] = "none"
    BY <2>0, <2>c, <1>n, <1>s DEF Ready, SocketStates
  <2>7. ws' # 0 => sockets'[ws'] \in {"connecting", "open", "closing"}
    BY <2>0, <2>c, <1>n, <1>s DEF SocketStates
  <2> QED BY <2>0, <2>1, <2>2, <2>3, <2>4, <2>5, <2>6, <2>7
          DEF ConnInv, ConnTypeOK, Active, Handshake
<1> QED BY <1>1, <1>2, <1>3, <1>4 DEF Connect

\* The connection as it is can be handed to connect().
LEMMA NowReady == ConnInv => Now \in Handed /\ Ready(Now)
<1> SUFFICES ASSUME ConnInv PROVE Now \in Handed /\ Ready(Now) OBVIOUS
<1>1. Now \in Handed
  BY DEF ConnInv, ConnTypeOK, ModeTypeOK, CounterTypeOK, SocketTypeOK, SocketStates,
         Handed, Now, Generations, SocketOrNone, Backoffs
<1>2. Ready(Now)
  BY DEF ConnInv, Supervised, OneConnection, Ready, Now
<1> QED BY <1>1, <1>2

LEMMA StartConn == ConnInv /\ Start => ConnInv'
<1> SUFFICES ASSUME ConnInv, Start PROVE ConnInv' OBVIOUS
<1> DEFINE c == [Now EXCEPT !.stopped = FALSE, !.backoffIndex = 0]
<1>0. 0 \in Backoffs BY DEF Backoffs
<1>1. c \in Handed BY <1>0, NowReady DEF Handed, Now
<1>2. Ready(c) BY NowReady DEF Ready, Now
<1>3. /\ c.state \in Active \ {"connecting"} => idleTimer
      /\ idleTimer => c.state \in Active
  BY DEF ConnInv, Supervised, Active, Handshake, Now
<1>4. /\ UNCHANGED <<relayTunnel, idleTimer>> /\ idleTimer \in BOOLEAN
      /\ ModeTypeOK /\ Connect(c)
  BY DEF Start, ConnInv, ConnTypeOK, ModeTypeOK
<1>5. authFailures' \in 0..MaxAuthFailures BY DEF Start
<1> HIDE DEF c
<1> QED BY <1>1, <1>2, <1>3, <1>4, <1>5, ConnectConn

LEMMA ReconnectTimeoutConn == ConnInv /\ ReconnectTimeout => ConnInv'
<1> SUFFICES ASSUME ConnInv, ReconnectTimeout PROVE ConnInv' OBVIOUS
<1> DEFINE c == [Now EXCEPT !.reconnectTimer = FALSE]
<1>1. c \in Handed BY NowReady DEF Handed, Now
<1>2. Ready(c) BY NowReady DEF Ready, Now
<1>3. /\ c.state \in Active \ {"connecting"} => idleTimer
      /\ idleTimer => c.state \in Active
  BY DEF ConnInv, Supervised, Active, Handshake, Now
<1>4. /\ UNCHANGED <<relayTunnel, idleTimer>> /\ idleTimer \in BOOLEAN
      /\ ModeTypeOK /\ Connect(c)
  BY DEF ReconnectTimeout, ConnInv, ConnTypeOK, ModeTypeOK
<1>5. authFailures' \in 0..MaxAuthFailures
  BY DEF ReconnectTimeout, ConnInv, ConnTypeOK, CounterTypeOK
<1> HIDE DEF c
<1> QED BY <1>1, <1>2, <1>3, <1>4, <1>5, ConnectConn

\* What reconnect() leaves can be handed to connect().
LEMMA DroppedReady ==
    ConnInv /\ generation < MaxGen =>
      Dropped \in Handed /\ Ready(Dropped) /\ Dropped.state \notin Active
<1> SUFFICES ASSUME ConnInv, generation < MaxGen
             PROVE  Dropped \in Handed /\ Ready(Dropped) /\ Dropped.state \notin Active
  OBVIOUS
<1>1. 0 \in Backoffs /\ 0 \in SocketOrNone BY DEF Backoffs, SocketOrNone
<1>2. generation + 1 \in Generations
  BY DEF ConnInv, ConnTypeOK, CounterTypeOK, Generations
<1>3. AfterDrop \in States \ Active
  BY DEF ConnInv, ConnTypeOK, ModeTypeOK, AfterDrop, States, Active, Handshake
<1>4. Closed \in [Sockets -> SocketStates]
  BY DEF ConnInv, ConnTypeOK, SocketTypeOK, SocketStates, Closed
<1>5. \A g \in Sockets : Closed[g] \notin {"connecting", "open"}
  BY DEF ConnInv, OneConnection, Closed
<1>6. \A g \in Sockets : g > generation + 1 => Closed[g] = "none"
  BY DEF ConnInv, ConnTypeOK, CounterTypeOK, Supervised, Closed
<1>7. reconnectTimer \in BOOLEAN /\ FALSE \in BOOLEAN
  BY DEF ConnInv, ConnTypeOK, ModeTypeOK
<1>8. Dropped \in Handed BY <1>1, <1>2, <1>3, <1>4, <1>7 DEF Dropped, Handed
<1>9. Ready(Dropped) BY <1>3, <1>5, <1>6 DEF Ready, Dropped, Active, Handshake
<1>10. Dropped.state \notin Active BY <1>3 DEF Dropped
<1> QED BY <1>8, <1>9, <1>10

LEMMA ReconnectConn == ConnInv /\ Reconnect => ConnInv'
<1> SUFFICES ASSUME ConnInv, Reconnect PROVE ConnInv' OBVIOUS
<1>1. Dropped \in Handed /\ Ready(Dropped) /\ Dropped.state \notin Active
  BY DroppedReady DEF Reconnect
<1>2. /\ UNCHANGED relayTunnel /\ idleTimer' = FALSE
      /\ ModeTypeOK /\ Connect(Dropped)
  BY DEF Reconnect, ConnInv, ConnTypeOK
<1>3. authFailures' \in 0..MaxAuthFailures
  BY DEF Reconnect, ConnInv, ConnTypeOK, CounterTypeOK
<1> QED BY <1>1, <1>2, <1>3, ConnectConn

\* Steps that leave the connection alone.
LEMMA SameConn ==
    ConnInv /\ UNCHANGED <<session, generation, ws, timers, retry, relayTunnel, sockets>>
      => ConnInv'
<1> SUFFICES ASSUME ConnInv,
                    UNCHANGED <<session, generation, ws, timers, retry, relayTunnel, sockets>>
             PROVE  ConnInv'
  OBVIOUS
<1> USE DEF ConnInv, ConnTypeOK, session, timers, retry
<1>1. ModeTypeOK' BY DEF ModeTypeOK
<1>2. CounterTypeOK' BY DEF CounterTypeOK
<1>3. SocketTypeOK' BY DEF SocketTypeOK
<1>4. Supervised' BY DEF Supervised
<1>5. OneConnection' BY DEF OneConnection
<1> QED BY <1>1, <1>2, <1>3, <1>4, <1>5

\* A step of one socket or of the handshake keeps the types when it moves
\* within their values; what is left to show is the control part.
LEMMA TypesKept ==
    ASSUME ConnInv, state' \in States, stopped' \in BOOLEAN, reconnectTimer' \in BOOLEAN,
           idleTimer' \in BOOLEAN, relayTunnel' \in BOOLEAN,
           generation' \in 0..(MaxGen + 1), ws' \in {0, ws}, authTimer' \in {0, authTimer},
           backoffIndex' \in 0..BackoffSteps, authFailures' \in 0..MaxAuthFailures,
           sockets' \in [Sockets -> SocketStates]
    PROVE  ConnTypeOK'
<1>1. ModeTypeOK' BY DEF ModeTypeOK
<1>2. CounterTypeOK' BY DEF ConnInv, ConnTypeOK, CounterTypeOK
<1>3. SocketTypeOK' BY DEF SocketTypeOK, SocketStates
<1> QED BY <1>1, <1>2, <1>3 DEF ConnTypeOK

\* s is what is left of the sockets: none of them is connecting or open.
Fades(g, s) ==
    /\ \/ s[g] = sockets[g]
       \/ sockets[g] # "none" /\ s[g] \in {"closing", "closed"}
    /\ sockets[g] \in {"connecting", "open"} => s[g] \in {"closing", "closed"}
NoneInUse(s) == \A g \in Sockets : Fades(g, s)

\* Ending in an inactive state without a socket in use.
LEMMA EndConn ==
    ASSUME ConnInv, ConnTypeOK', state' \notin Active, ws' = 0,
           state' \in {"disconnected", "reconnecting"} /\ ~stopped' => reconnectTimer',
           state' = "stopped" => stopped', ~idleTimer', generation' >= generation,
           NoneInUse(sockets')
    PROVE  ConnInv'
<1>1. Supervised' BY DEF Supervised, Active, Handshake
<1>2. OneConnection'
  BY DEF OneConnection, ConnInv, ConnTypeOK, SocketTypeOK, NoneInUse, Fades
<1>3. \A g \in Sockets : g > generation' => sockets'[g] = "none"
  BY DEF ConnInv, ConnTypeOK, CounterTypeOK, NoneInUse, Fades
<1> QED BY <1>1, <1>2, <1>3 DEF ConnInv, Active, Handshake

\* Dropping the socket in use leaves none that is connecting or open.
LEMMA UsedDropped == ConnInv => NoneInUse(Closed)
<1> SUFFICES ASSUME ConnInv, NEW g \in Sockets PROVE Fades(g, Closed)
  BY DEF NoneInUse
<1> USE DEF Fades
<1>1. CASE g = ws
  <2>1. sockets[g] \in {"connecting", "open", "closing"} BY <1>1 DEF ConnInv
  <2>2. Closed[g] = "closed" BY <1>1 DEF Closed
  <2>3. sockets[g] # "none" BY <2>1
  <2> QED BY <2>2, <2>3
<1>2. CASE g # ws
  <2>1. Closed[g] = sockets[g] BY <1>2 DEF Closed
  <2>2. sockets[g] \notin {"connecting", "open"} BY <1>2 DEF ConnInv, OneConnection
  <2> QED BY <2>1, <2>2
<1> QED BY <1>1, <1>2

LEMMA DisconnectConn == ConnInv /\ Disconnect => ConnInv'
<1> SUFFICES ASSUME ConnInv, Disconnect PROVE ConnInv' OBVIOUS
<1> USE DEF Disconnect, DropSocket, SetState, retry
<1>1. state' \in States /\ state' \notin Active /\ state' = "stopped"
  BY DEF States, Active, Handshake
<1>2. sockets' \in [Sockets -> SocketStates]
  BY DEF Closed, ConnInv, ConnTypeOK, SocketTypeOK, SocketStates
<1>3. relayTunnel' \in BOOLEAN BY DEF ConnInv, ConnTypeOK, ModeTypeOK
<1>4. /\ generation' \in 0..(MaxGen + 1) /\ generation' >= generation
      /\ backoffIndex' \in 0..BackoffSteps /\ authFailures' \in 0..MaxAuthFailures
  BY DEF ConnInv, ConnTypeOK, CounterTypeOK
<1>5. ConnTypeOK' BY <1>1, <1>2, <1>3, <1>4, TypesKept
<1>6. NoneInUse(sockets')
  BY UsedDropped, sockets' = Closed
<1> QED BY <1>1, <1>4, <1>5, <1>6, EndConn

LEMMA ShutdownConn == ConnInv /\ Shutdown => ConnInv'
<1> SUFFICES ASSUME ConnInv, Shutdown PROVE ConnInv' OBVIOUS
<1> USE DEF Shutdown, retry
<1>1. state' \in States /\ state' \notin Active /\ state' = "stopped"
  BY DEF States, Active, Handshake
<1>2. sockets' \in [Sockets -> SocketStates]
  BY DEF ConnInv, ConnTypeOK, SocketTypeOK, SocketStates
<1>3. relayTunnel' \in BOOLEAN BY DEF ConnInv, ConnTypeOK, ModeTypeOK
<1>4. /\ generation' \in 0..(MaxGen + 1) /\ generation' >= generation
      /\ backoffIndex' \in 0..BackoffSteps /\ authFailures' \in 0..MaxAuthFailures
  BY DEF ConnInv, ConnTypeOK, CounterTypeOK
<1>5. ConnTypeOK' BY <1>1, <1>2, <1>3, <1>4, TypesKept
<1>6. NoneInUse(sockets')
  <2> SUFFICES ASSUME NEW g \in Sockets PROVE Fades(g, sockets')
    BY DEF NoneInUse
  <2> USE DEF Fades
  <2>1. CASE g = ws
    <3>1. sockets[g] \in {"connecting", "open", "closing"} BY <2>1 DEF ConnInv
    <3>2. sockets'[g] = "closing" BY <2>1, <3>1
    <3>3. sockets[g] # "none" BY <3>1
    <3> QED BY <3>2, <3>3
  <2>2. CASE g # ws
    <3>1. sockets'[g] = sockets[g] BY <2>2
    <3>2. sockets[g] \notin {"connecting", "open"} BY <2>2 DEF ConnInv, OneConnection
    <3> QED BY <3>1, <3>2
  <2> QED BY <2>1, <2>2
<1> QED BY <1>1, <1>4, <1>5, <1>6, EndConn

\* connection_replaced, and the last rejected handshake.
LEMMA DropToConn ==
    ASSUME ConnInv, generation <= MaxGen, DropSocket, SetState(state'),
           state' \in {"failed", "disconnected"}, stopped' \in BOOLEAN,
           state' = "disconnected" => stopped',
           UNCHANGED <<reconnectTimer, relayTunnel, backoffIndex>>,
           authFailures' \in 0..MaxAuthFailures
    PROVE  ConnInv'
<1> USE DEF DropSocket
<1>1. state' \in States /\ state' \notin Active /\ state' # "stopped"
  BY DEF States, Active, Handshake
<1>2. sockets' \in [Sockets -> SocketStates]
  BY DEF Closed, ConnInv, ConnTypeOK, SocketTypeOK, SocketStates
<1>3. relayTunnel' \in BOOLEAN /\ reconnectTimer' \in BOOLEAN
  BY DEF ConnInv, ConnTypeOK, ModeTypeOK
<1>4. /\ generation' \in 0..(MaxGen + 1) /\ generation' >= generation
      /\ backoffIndex' \in 0..BackoffSteps
  BY DEF ConnInv, ConnTypeOK, CounterTypeOK
<1>5. ConnTypeOK' BY <1>1, <1>2, <1>3, <1>4, TypesKept
<1>6. NoneInUse(sockets')
  BY UsedDropped, sockets' = Closed
<1> QED BY <1>1, <1>4, <1>5, <1>6, EndConn

LEMMA HeardInBounds == Heard => generation <= MaxGen
BY DEF Heard

LEMMA IdleInBounds == ConnInv /\ idleTimer => generation <= MaxGen
BY DEF ConnInv, ConnTypeOK, CounterTypeOK, Supervised

LEMMA AuthRejectedConn == ConnInv /\ AuthRejected => ConnInv'
<1> SUFFICES ASSUME ConnInv, AuthRejected PROVE ConnInv' OBVIOUS
<1>1. generation <= MaxGen BY HeardInBounds DEF AuthRejected
<1>2. authFailures' \in 0..MaxAuthFailures /\ UNCHANGED relayTunnel
  BY DEF AuthRejected, ConnInv, ConnTypeOK, CounterTypeOK
<1>3. CASE authFailures + 1 >= MaxAuthFailures
  <2>1. state' = "failed" /\ SetState(state')
    BY <1>3 DEF AuthRejected, SetState
  <2>2. DropSocket /\ UNCHANGED <<reconnectTimer, relayTunnel, backoffIndex, stopped>>
    BY <1>3 DEF AuthRejected
  <2>3. stopped' \in BOOLEAN BY <2>2 DEF ConnInv, ConnTypeOK, ModeTypeOK
  <2> QED BY <1>1, <1>2, <2>1, <2>2, <2>3, DropToConn
<1>4. CASE ~(authFailures + 1 >= MaxAuthFailures)
  <2>1. DropAndRetry BY <1>4 DEF AuthRejected, DropAndRetry
  <2> QED BY <1>1, <1>2, <2>1, DropConn
<1> QED BY <1>3, <1>4

LEMMA ReplacedConn == ConnInv /\ Replaced => ConnInv'
<1> SUFFICES ASSUME ConnInv, Replaced PROVE ConnInv' OBVIOUS
<1>1. generation <= MaxGen BY HeardInBounds DEF Replaced
<1>2. state' = "disconnected" /\ SetState(state') BY DEF Replaced, SetState
<1>3. /\ DropSocket /\ stopped' = TRUE
      /\ UNCHANGED <<reconnectTimer, relayTunnel, backoffIndex, authFailures>>
  BY DEF Replaced, retry
<1>4. authFailures' \in 0..MaxAuthFailures
  BY <1>3 DEF ConnInv, ConnTypeOK, CounterTypeOK
<1> QED BY <1>1, <1>2, <1>3, <1>4, DropToConn

LEMMA SocketOpenConn == \A g \in Sockets : ConnInv /\ SocketOpen(g) => ConnInv'
<1> SUFFICES ASSUME NEW g \in Sockets, ConnInv, SocketOpen(g) PROVE ConnInv' OBVIOUS
<1> USE DEF ConnInv, ConnTypeOK
<1>0. g = ws /\ g = generation BY DEF SocketOpen, OneConnection
<1>1. /\ state' = "waiting_for_challenge" /\ idleTimer' = TRUE
      /\ sockets' = [sockets EXCEPT ![g] = "open"]
      /\ UNCHANGED <<stopped, generation, ws, reconnectTimer, authTimer,
                     backoffIndex, authFailures, relayTunnel>>
  BY <1>0 DEF SocketOpen, SetState, retry
<1>2. state = "connecting" /\ authTimer = generation
  BY <1>0 DEF SocketOpen, Supervised, Active, Handshake
<1>3. ModeTypeOK' BY <1>1 DEF ModeTypeOK, States
<1>4. CounterTypeOK' BY <1>1 DEF CounterTypeOK
<1>5. SocketTypeOK' BY <1>1 DEF SocketTypeOK
<1>6. Supervised' BY <1>0, <1>1, <1>2 DEF Supervised, Active, Handshake
<1>7. sockets'[g] = "open" /\ \A h \in Sockets : h # g => sockets'[h] = sockets[h]
  BY <1>1 DEF SocketTypeOK
<1>8. UNCHANGED <<generation, ws>> BY <1>1
<1>9. OneConnection' BY <1>0, <1>7, <1>8 DEF OneConnection
<1>10. \A h \in Sockets : h > generation' => sockets'[h] = "none"
  BY <1>0, <1>7, <1>8 DEF CounterTypeOK
<1>11. sockets'[ws'] = "open" /\ ws' \in Sockets BY <1>0, <1>7, <1>8
<1> QED BY <1>1, <1>3, <1>4, <1>5, <1>6, <1>9, <1>10, <1>11 DEF Active, Handshake

LEMMA PeerClosesConn == \A g \in Sockets : ConnInv /\ PeerCloses(g) => ConnInv'
<1> SUFFICES ASSUME NEW g \in Sockets, ConnInv, PeerCloses(g) PROVE ConnInv' OBVIOUS
<1> USE DEF ConnInv, ConnTypeOK
<1>1. /\ sockets' = [sockets EXCEPT ![g] = "closing"] /\ sockets[g] # "none"
      /\ UNCHANGED <<state, stopped, generation, ws, reconnectTimer, authTimer, idleTimer,
                     backoffIndex, authFailures, relayTunnel>>
  BY DEF PeerCloses, session, timers, retry
<1>2. ModeTypeOK' BY <1>1 DEF ModeTypeOK, States
<1>3. CounterTypeOK' BY <1>1 DEF CounterTypeOK
<1>4. SocketTypeOK' BY <1>1 DEF SocketTypeOK
<1>5. Supervised' BY <1>1 DEF Supervised
<1>6. sockets'[g] = "closing" /\ \A h \in Sockets : h # g => sockets'[h] = sockets[h]
  BY <1>1 DEF SocketTypeOK
<1>7. OneConnection' BY <1>1, <1>6 DEF OneConnection
<1> QED BY <1>1, <1>2, <1>3, <1>4, <1>5, <1>6, <1>7

LEMMA SocketCloseConn == \A g \in Sockets : ConnInv /\ SocketClose(g) => ConnInv'
<1> SUFFICES ASSUME NEW g \in Sockets, ConnInv, SocketClose(g) PROVE ConnInv' OBVIOUS
<1> USE DEF ConnInv, ConnTypeOK
<1>1. /\ sockets' = [sockets EXCEPT ![g] = "closed"] /\ sockets[g] = "closing"
      /\ UNCHANGED <<stopped, generation, authFailures, relayTunnel>>
  BY DEF SocketClose
<1>2. sockets'[g] = "closed" /\ \A h \in Sockets : h # g => sockets'[h] = sockets[h]
  BY <1>1 DEF SocketTypeOK
<1>3. SocketTypeOK' BY <1>1 DEF SocketTypeOK
<1>4. CASE g = generation
  <2>1. authTimer' = 0 /\ idleTimer' = FALSE /\ ws' = 0
    BY <1>4 DEF SocketClose
  <2>2. /\ state' \in States /\ state' \notin Active
        /\ reconnectTimer' \in BOOLEAN
        /\ state' \in {"disconnected", "reconnecting"} /\ ~stopped' => reconnectTimer'
        /\ state' = "stopped" => stopped'
    BY <1>4 DEF SocketClose, ScheduleReconnect, SetState, States, Active, Handshake, ModeTypeOK
  <2>3. backoffIndex' \in 0..BackoffSteps
    BY <1>4 DEF SocketClose, ScheduleReconnect, CounterTypeOK
  <2>4. ConnTypeOK'
    <3>1. ModeTypeOK' BY <1>1, <2>1, <2>2 DEF ModeTypeOK
    <3>2. CounterTypeOK' BY <1>1, <2>1, <2>3 DEF CounterTypeOK
    <3> QED BY <3>1, <3>2, <1>3
  <2>5. \A h \in Sockets : sockets[h] \in {"connecting", "open"} => h = g
    BY <1>4 DEF OneConnection
  <2>6. NoneInUse(sockets')
    BY <1>1, <1>2, <2>5 DEF NoneInUse, Fades
  <2>7. generation' >= generation BY <1>1 DEF CounterTypeOK
  <2> QED BY <2>1, <2>2, <2>4, <2>6, <2>7, EndConn
<1>5. CASE g # generation
  <2>1. UNCHANGED <<state, reconnectTimer, authTimer, idleTimer, ws, backoffIndex>>
    BY <1>5 DEF SocketClose, timers
  <2>2. ModeTypeOK' BY <1>1, <2>1 DEF ModeTypeOK
  <2>3. CounterTypeOK' BY <1>1, <2>1 DEF CounterTypeOK
  <2>4. Supervised' BY <1>1, <2>1 DEF Supervised
  <2>5. OneConnection' BY <1>1, <1>2, <2>1 DEF OneConnection
  <2>6. g # ws
    BY <1>5 DEF Supervised, CounterTypeOK
  <2> QED BY <1>1, <1>2, <1>3, <2>1, <2>2, <2>3, <2>4, <2>5, <2>6
<1> QED BY <1>4, <1>5

\* The handshake moves on, on the open socket in use.
LEMMA ProgressConn ==
    ASSUME ConnInv, Heard,
           UNCHANGED <<stopped, generation, ws, reconnectTimer, idleTimer, sockets>>,
           relayTunnel' \in BOOLEAN, backoffIndex' \in 0..BackoffSteps,
           authFailures' \in 0..MaxAuthFailures,
           state \in {"waiting_for_challenge", "authenticating"},
           \/ state' = "authenticating" /\ UNCHANGED authTimer
           \/ state' = "authenticated" /\ authTimer' = 0
    PROVE  ConnInv'
<1> USE DEF ConnInv, ConnTypeOK
<1>1. ModeTypeOK' BY DEF ModeTypeOK, States
<1>2. CounterTypeOK' BY DEF CounterTypeOK
<1>3. SocketTypeOK' BY DEF SocketTypeOK
<1>4. Supervised' BY DEF Supervised, Active, Handshake
<1>5. OneConnection' BY DEF OneConnection
<1> QED BY <1>1, <1>2, <1>3, <1>4, <1>5 DEF Active, Handshake

LEMMA ChallengeConn == \A c \in Sockets : ConnInv /\ Challenge(c) => ConnInv'
<1> SUFFICES ASSUME NEW c \in Sockets, ConnInv, Challenge(c) PROVE ConnInv' OBVIOUS
<1>1. /\ Heard /\ state' = "authenticating" /\ state = "waiting_for_challenge"
      /\ UNCHANGED <<stopped, generation, ws, reconnectTimer, authTimer, idleTimer,
                     backoffIndex, authFailures, relayTunnel, sockets>>
  BY DEF Challenge, SetState, timers, retry
<1>2. relayTunnel' \in BOOLEAN BY <1>1 DEF ConnInv, ConnTypeOK, ModeTypeOK
<1>3. backoffIndex' \in 0..BackoffSteps /\ authFailures' \in 0..MaxAuthFailures
  BY <1>1 DEF ConnInv, ConnTypeOK, CounterTypeOK
<1> QED BY <1>1, <1>2, <1>3, ProgressConn

LEMMA AuthenticatedConn == \A b \in BOOLEAN : ConnInv /\ Authenticated(b) => ConnInv'
<1> SUFFICES ASSUME NEW b \in BOOLEAN, ConnInv, Authenticated(b) PROVE ConnInv' OBVIOUS
<1>1. /\ Heard /\ state' = "authenticated" /\ state = "authenticating"
      /\ relayTunnel' \in BOOLEAN /\ authTimer' = 0
      /\ UNCHANGED <<stopped, generation, ws, reconnectTimer, idleTimer, sockets>>
  BY DEF Authenticated, SetState
<1>2. backoffIndex' \in 0..BackoffSteps /\ authFailures' \in 0..MaxAuthFailures
  BY DEF Authenticated
<1> QED BY <1>1, <1>2, ProgressConn

LEMMA TimeoutConn == ConnInv /\ (AuthTimeout \/ IdleTimeout) => ConnInv'
<1> SUFFICES ASSUME ConnInv, AuthTimeout \/ IdleTimeout PROVE ConnInv' OBVIOUS
<1>1. authFailures' \in 0..MaxAuthFailures /\ UNCHANGED relayTunnel
  BY DEF AuthTimeout, IdleTimeout, ConnInv, ConnTypeOK, CounterTypeOK
<1>2. CASE IdleTimeout
  BY <1>1, <1>2, IdleInBounds, DropConn DEF IdleTimeout
<1>3. CASE AuthTimeout /\ authTimer = generation /\ state # "authenticated"
  <2>1. generation <= MaxGen BY <1>3 DEF ConnInv, ConnTypeOK, CounterTypeOK
  <2>2. DropAndRetry BY <1>3 DEF AuthTimeout
  <2> QED BY <1>1, <2>1, <2>2, DropConn
<1>4. CASE AuthTimeout /\ ~(authTimer = generation /\ state # "authenticated")
  <2> USE DEF ConnInv, ConnTypeOK
  <2>1. /\ UNCHANGED <<state, stopped, generation, ws, reconnectTimer, idleTimer,
                       backoffIndex, authFailures, relayTunnel, sockets>>
        /\ authTimer' = 0
    BY <1>4 DEF AuthTimeout, session
  <2>2. state \notin Handshake
    BY <1>4 DEF Supervised, Handshake
  <2>3. ModeTypeOK' BY <2>1 DEF ModeTypeOK
  <2>4. CounterTypeOK' BY <2>1 DEF CounterTypeOK
  <2>5. SocketTypeOK' BY <2>1 DEF SocketTypeOK
  <2>6. Supervised' BY <2>1, <2>2 DEF Supervised
  <2>7. OneConnection' BY <2>1 DEF OneConnection
  <2> QED BY <2>1, <2>3, <2>4, <2>5, <2>6, <2>7
<1> QED BY <1>2, <1>3, <1>4

-----------------------------------------------------------------------------
(* The requests of a session *)

ReqInv == RequestTypeOK /\ RequestsNeedSession

\* Leaving the session empties the requests, staying keeps the socket.
LEMMA SetStateReq ==
    ASSUME ReqInv, SetState(state'),
           state = "authenticated" /\ state' = "authenticated" => ws' = ws
    PROVE  ReqInv'
<1> USE DEF ReqInv
<1>1. CASE state = "authenticated" /\ state' # "authenticated"
  <2>1. RejectRequests BY <1>1 DEF SetState
  <2>2. RequestTypeOK' BY <2>1 DEF RejectRequests, RequestTypeOK
  <2> QED BY <1>1, <2>1, <2>2 DEF RejectRequests, RequestsNeedSession
<1>2. CASE ~(state = "authenticated" /\ state' # "authenticated")
  <2>1. UNCHANGED <<pendingPushes, pendingRemovals, contexts, result>>
    BY <1>2 DEF SetState, requests
  <2>2. RequestTypeOK' BY <2>1 DEF RequestTypeOK
  <2> QED BY <1>2, <2>1, <2>2 DEF RequestsNeedSession
<1> QED BY <1>1, <1>2

LEMMA SameReq ==
    ASSUME ReqInv, UNCHANGED <<state, ws, pendingPushes, pendingRemovals, contexts, result>>
    PROVE  ReqInv'
BY DEF ReqInv, RequestTypeOK, RequestsNeedSession

LEMMA ConnectReq ==
    ASSUME ConnInv, ReqInv, NEW c, Connect(c),
           c.state = "authenticated" => c.ws = ws
    PROVE  ReqInv'
<1>1. SetState(state')
  BY DEF Connect, ConnectRefused, ConnectThrows, ConnectOpens, Ends, SetState
<1>2. CASE state' = "authenticated" /\ state = "authenticated"
  <2>1. Ends(c) /\ c.state = "authenticated"
    BY <1>2 DEF Connect, ConnectRefused, ConnectThrows, ConnectOpens, Ends, SetState
  <2>2. ws' = ws BY <2>1 DEF Ends
  <2> QED BY <1>1, <2>2, SetStateReq
<1> QED BY <1>1, <1>2, SetStateReq

\* The actions that end in SetState.
LEMMA DropAndRetryReq == ConnInv /\ ReqInv /\ DropAndRetry => ReqInv'
<1> SUFFICES ASSUME ConnInv, ReqInv, DropAndRetry PROVE ReqInv' OBVIOUS
<1>1. SetState(state') BY DEF DropAndRetry, ScheduleReconnect, SetState
<1>2. state' # "authenticated"
  BY DEF DropAndRetry, ScheduleReconnect, SetState, AfterDrop
<1> QED BY <1>1, <1>2, SetStateReq

LEMMA CallReq ==
    ConnInv /\ ReqInv /\ (Start \/ Reconnect \/ ReconnectTimeout \/ Disconnect \/ Shutdown)
      => ReqInv'
<1> SUFFICES ASSUME ConnInv, ReqInv,
                    Start \/ Reconnect \/ ReconnectTimeout \/ Disconnect \/ Shutdown
             PROVE  ReqInv'
  OBVIOUS
<1>1. CASE Start BY <1>1, ConnectReq DEF Start, Now
<1>2. CASE ReconnectTimeout BY <1>2, ConnectReq DEF ReconnectTimeout, Now
<1>3. CASE Reconnect
  <2>1. Dropped.state # "authenticated" BY DEF Dropped, AfterDrop
  <2> QED BY <1>3, <2>1, ConnectReq DEF Reconnect
<1>4. CASE Disconnect
  <2>1. SetState(state') /\ state' = "stopped" BY <1>4 DEF Disconnect, SetState
  <2> QED BY <2>1, SetStateReq
<1>5. CASE Shutdown
  <2>1. RejectRequests /\ state' = "stopped" BY <1>5 DEF Shutdown
  <2>2. RequestTypeOK' BY <2>1 DEF ReqInv, RejectRequests, RequestTypeOK
  <2> QED BY <2>1, <2>2 DEF ReqInv, RejectRequests, RequestsNeedSession
<1> QED BY <1>1, <1>2, <1>3, <1>4, <1>5

LEMMA TimeoutReq == ConnInv /\ ReqInv /\ (AuthTimeout \/ IdleTimeout) => ReqInv'
<1> SUFFICES ASSUME ConnInv, ReqInv, AuthTimeout \/ IdleTimeout PROVE ReqInv' OBVIOUS
<1>1. CASE DropAndRetry BY <1>1, DropAndRetryReq
<1>2. CASE ~DropAndRetry
  BY <1>2, SameReq DEF AuthTimeout, IdleTimeout, session, requests
<1> QED BY <1>1, <1>2

LEMMA SocketReq ==
    \A g \in Sockets : ConnInv /\ ReqInv /\ (SocketOpen(g) \/ PeerCloses(g) \/ SocketClose(g))
      => ReqInv'
<1> SUFFICES ASSUME NEW g \in Sockets, ConnInv, ReqInv,
                    SocketOpen(g) \/ PeerCloses(g) \/ SocketClose(g)
             PROVE  ReqInv'
  OBVIOUS
<1>1. CASE SocketOpen(g)
  <2>1. CASE g = generation
    BY <1>1, <2>1, SetStateReq DEF SocketOpen, SetState
  <2>2. CASE g # generation
    BY <1>1, <2>2, SameReq DEF SocketOpen, requests
  <2> QED BY <2>1, <2>2
<1>2. CASE PeerCloses(g)
  BY <1>2, SameReq DEF PeerCloses, session, requests
<1>3. CASE SocketClose(g) /\ g = generation
  <2>1. \/ SetState(state')
        \/ state = "failed" /\ UNCHANGED <<state, requests>>
    <3>1. CASE stopped
      BY <1>3, <3>1 DEF SocketClose, SetState
    <3>2. CASE ~stopped /\ state = "failed"
      BY <1>3, <3>2 DEF SocketClose, requests
    <3>3. CASE ~stopped /\ state # "failed"
      BY <1>3, <3>3 DEF SocketClose, ScheduleReconnect, SetState
    <3> QED BY <3>1, <3>2, <3>3
  <2>2. CASE SetState(state')
    <3>1. state' # "authenticated"
      BY <1>3, <2>2 DEF SocketClose, ScheduleReconnect, SetState
    <3> QED BY <2>2, <3>1, SetStateReq
  <2>3. CASE state = "failed" /\ UNCHANGED <<state, requests>>
    BY <2>3 DEF ReqInv, RequestTypeOK, RequestsNeedSession, requests
  <2> QED BY <2>1, <2>2, <2>3
<1>4. CASE SocketClose(g) /\ g # generation
  BY <1>4, SameReq DEF SocketClose, requests
<1> QED BY <1>1, <1>2, <1>3, <1>4

LEMMA HandshakeReq ==
    ConnInv /\ ReqInv
      /\ (AuthRejected \/ Replaced \/ (\E c \in Sockets : Challenge(c))
          \/ (\E b \in BOOLEAN : Authenticated(b)))
      => ReqInv'
<1> SUFFICES ASSUME ConnInv, ReqInv,
                    \/ AuthRejected
                    \/ Replaced
                    \/ \E c \in Sockets : Challenge(c)
                    \/ \E b \in BOOLEAN : Authenticated(b)
             PROVE  ReqInv'
  OBVIOUS
<1>1. SetState(state')
  BY DEF AuthRejected, Replaced, Challenge, Authenticated, ScheduleReconnect, SetState
<1>2. state = "authenticated" => state' # "authenticated"
  BY DEF AuthRejected, Replaced, Challenge, Authenticated, ScheduleReconnect, SetState, AfterDrop
<1> QED BY <1>1, <1>2, SetStateReq

\* The steps of the requests themselves.
LEMMA PushReq == ConnInv /\ ReqInv /\ PushNotification => ReqInv'
<1> SUFFICES ASSUME ConnInv, ReqInv, PushNotification PROVE ReqInv' OBVIOUS
<1> USE DEF ReqInv, RequestTypeOK
<1>1. UNCHANGED <<state, ws, pendingRemovals, contexts>> /\ nextPush \in Pushes
  BY DEF PushNotification, session
<1>2. pendingPushes' \in Seq(Pushes)
  <2>1. pendingPushes' \in {pendingPushes, Append(pendingPushes, nextPush)}
    BY DEF PushNotification
  <2>2. Append(pendingPushes, nextPush) \in Seq(Pushes) BY <1>1
  <2> QED BY <2>1, <2>2
<1>3. result' \in [Pushes -> {"new", "pending", "accepted", "failed", "timeout"}]
  <2>1. \/ result' = [result EXCEPT ![nextPush] = "pending"]
        \/ result' = [result EXCEPT ![nextPush] = "failed"]
    BY DEF PushNotification
  <2> QED BY <1>1, <2>1
<1>4. state # "authenticated" => pendingPushes' = pendingPushes
  BY DEF PushNotification
<1> QED BY <1>1, <1>2, <1>3, <1>4 DEF RequestsNeedSession

LEMMA PushResultReq == \A b \in BOOLEAN : ConnInv /\ ReqInv /\ PushResult(b) => ReqInv'
<1> SUFFICES ASSUME NEW b \in BOOLEAN, ConnInv, ReqInv, PushResult(b) PROVE ReqInv' OBVIOUS
<1> USE DEF ReqInv, RequestTypeOK
<1>1. UNCHANGED <<state, ws, pendingRemovals, contexts>>
  BY DEF PushResult, session
<1>2. CASE pendingPushes # <<>>
  <2>1. pendingPushes' = Tail(pendingPushes) BY <1>2 DEF PushResult
  <2>3. Tail(pendingPushes) \in Seq(Pushes) BY <1>2
  <2>4. Head(pendingPushes) \in Pushes BY <1>2
  <2>2. result' \in [Pushes -> {"new", "pending", "accepted", "failed", "timeout"}]
    BY <1>2, <2>4 DEF PushResult
  <2> QED BY <1>1, <1>2, <2>1, <2>2, <2>3 DEF RequestsNeedSession
<1>3. CASE pendingPushes = <<>>
  BY <1>1, <1>3, SameReq DEF PushResult
<1> QED BY <1>2, <1>3

LEMMA PushTimeoutReq == ConnInv /\ ReqInv /\ PushTimeout => ReqInv'
<1> SUFFICES ASSUME ConnInv, ReqInv, PushTimeout PROVE ReqInv' OBVIOUS
<1> USE DEF ReqInv, RequestTypeOK
<1>1. PICK i \in DOMAIN pendingPushes :
        /\ result' = [result EXCEPT ![pendingPushes[i]] = "timeout"]
        /\ pendingPushes' = SubSeq(pendingPushes, 1, i - 1)
                              \o SubSeq(pendingPushes, i + 1, Len(pendingPushes))
        /\ UNCHANGED <<state, ws, pendingRemovals, contexts>>
  BY DEF PushTimeout, session
<1>2. i \in 1..Len(pendingPushes) BY <1>1
<1>3. /\ SubSeq(pendingPushes, 1, i - 1) \in Seq(Pushes)
      /\ SubSeq(pendingPushes, i + 1, Len(pendingPushes)) \in Seq(Pushes)
  BY <1>2
<1>4. pendingPushes' \in Seq(Pushes) BY <1>1, <1>3
<1>5. result' \in [Pushes -> {"new", "pending", "accepted", "failed", "timeout"}]
  BY <1>1
<1>6. state = "authenticated" BY <1>2 DEF RequestsNeedSession
<1> QED BY <1>1, <1>4, <1>5, <1>6 DEF RequestsNeedSession

LEMMA RemovalReq ==
    \A r \in Removals : ConnInv /\ ReqInv /\ (RemoveLink(r) \/ RemovalSettled(r)) => ReqInv'
BY DEF ReqInv, RequestTypeOK, RequestsNeedSession, RemoveLink, RemovalSettled, session

LEMMA TunnelReq ==
    ConnInv /\ ReqInv /\ (TunnelStart \/ \E g \in contexts : TunnelDone(g)) => ReqInv'
<1> SUFFICES ASSUME ConnInv, ReqInv, TunnelStart \/ \E g \in contexts : TunnelDone(g)
             PROVE  ReqInv'
  OBVIOUS
<1> USE DEF ReqInv, RequestTypeOK
<1>1. CASE TunnelStart
  <2>1. ws \in Sockets BY <1>1 DEF TunnelStart, Heard, ConnInv, Supervised, Active
  <2> QED BY <1>1, <2>1 DEF TunnelStart, RequestsNeedSession, session
<1>2. CASE \E g \in contexts : TunnelDone(g)
  BY <1>2 DEF TunnelDone, RequestsNeedSession, session
<1> QED BY <1>1, <1>2

-----------------------------------------------------------------------------
(* The challenges and the wire: types only *)

\* A step of the handshake: only Challenge and the two outcomes of a signature
\* touch the challenges.
LEMMA ChallengeTypes ==
    \A c \in Sockets : ChallengeTypeOK /\ Challenge(c) => ChallengeTypeOK'
<1> SUFFICES ASSUME NEW c \in Sockets, ChallengeTypeOK, Challenge(c)
             PROVE  ChallengeTypeOK'
  OBVIOUS
<1> USE DEF ChallengeTypeOK
<1>1. generation \in Sockets BY DEF Challenge, Heard
<1>2. signing' \subseteq [gen : Sockets, challenge : Sockets] /\ authSent' = authSent
  <2>1. signing' = signing \cup {[gen |-> generation, challenge |-> c]}
    BY DEF Challenge
  <2>2. [gen |-> generation, challenge |-> c] \in [gen : Sockets, challenge : Sockets]
    BY <1>1
  <2>3. authSent' = authSent BY DEF Challenge, wire
  <2> QED BY <2>1, <2>2, <2>3
<1>3. processed' \in Seq(Sockets)
  <2> DEFINE longer == Append(processed, c)
  <2>0. c \in Sockets /\ processed \in Seq(Sockets) OBVIOUS
  <2>1. longer \in Seq(Sockets) /\ longer # <<>>
    <3>1. longer \in Seq(Sockets) BY <2>0
    <3>2. Len(longer) = Len(processed) + 1 BY <2>0
    <3>3. Len(processed) \in Nat BY <2>0
    <3> HIDE DEF longer
    <3>4. Len(longer) # 0 BY <3>2, <3>3
    <3> QED BY <3>1, <3>4
  <2>2. Tail(longer) \in Seq(Sockets) BY <2>1
  <2>3. processed' \in {longer, Tail(longer)} BY DEF Challenge
  <2> QED BY <2>1, <2>2, <2>3
<1> QED BY <1>2, <1>3

LEMMA SignatureTypes ==
    \A s \in signing : ChallengeTypeOK /\ (Signed(s) \/ SignFailed(s)) => ChallengeTypeOK'
<1> SUFFICES ASSUME NEW s \in signing, ChallengeTypeOK, Signed(s) \/ SignFailed(s)
             PROVE  ChallengeTypeOK'
  OBVIOUS
<1> USE DEF ChallengeTypeOK
<1>1. processed' = processed /\ signing' = signing \ {s}
  BY DEF Signed, SignFailed
<1>2. CASE Signed(s)
  <2>1. CASE CanSend
    <3>1. [sock |-> ws, challenge |-> s.challenge] \in [sock : Sockets, challenge : Sockets]
      BY <2>1 DEF CanSend
    <3>2. authSent' \subseteq authSent \cup {[sock |-> ws, challenge |-> s.challenge]}
      BY <1>2 DEF Signed
    <3> QED BY <1>1, <3>1, <3>2
  <2>2. CASE ~CanSend
    <3>1. authSent' = authSent BY <1>2, <2>2 DEF Signed
    <3> QED BY <1>1, <3>1
  <2> QED BY <2>1, <2>2
<1>3. CASE SignFailed(s)
  <2>1. authSent' = authSent BY <1>3 DEF SignFailed, wire
  <2> QED BY <1>1, <2>1
<1> QED BY <1>2, <1>3

LEMMA SameWire ==
    WireTypeOK /\ UNCHANGED <<relayQ, nextPush, sentOn, ackOf>> => WireTypeOK'
BY DEF WireTypeOK

LEMMA PushWire == WireTypeOK /\ PushNotification => WireTypeOK'
<1> SUFFICES ASSUME WireTypeOK, PushNotification PROVE WireTypeOK' OBVIOUS
<1> USE DEF WireTypeOK
<1>1. /\ nextPush \in Pushes /\ nextPush' = nextPush + 1 /\ UNCHANGED ackOf
      /\ \/ UNCHANGED <<relayQ, sentOn>>
         \/ /\ CanSend
            /\ relayQ' = [relayQ EXCEPT ![ws] = Append(@, nextPush)]
            /\ sentOn' = [sentOn EXCEPT ![nextPush] = ws]
  BY DEF PushNotification
<1>2. CASE UNCHANGED <<relayQ, sentOn>> BY <1>1, <1>2
<1>3. CASE /\ CanSend
           /\ relayQ' = [relayQ EXCEPT ![ws] = Append(@, nextPush)]
           /\ sentOn' = [sentOn EXCEPT ![nextPush] = ws]
  <2>1. ws \in Sockets BY <1>3 DEF CanSend
  <2>2. relayQ[ws] \in Seq(Pushes) BY <2>1
  <2>3. Append(relayQ[ws], nextPush) \in Seq(Pushes) BY <1>1, <2>2
  <2>4. relayQ' \in [Sockets -> Seq(Pushes)] BY <1>3, <2>1, <2>3
  <2>5. sentOn' \in [Pushes -> {0} \cup Sockets] BY <1>1, <1>3, <2>1
  <2> QED BY <1>1, <2>4, <2>5
<1> QED BY <1>1, <1>2, <1>3

LEMMA PushResultWire ==
    \A b \in BOOLEAN : ReqInv /\ WireTypeOK /\ PushResult(b) => WireTypeOK'
<1> SUFFICES ASSUME NEW b \in BOOLEAN, ReqInv, WireTypeOK, PushResult(b)
             PROVE  WireTypeOK'
  OBVIOUS
<1> USE DEF WireTypeOK
<1>1. /\ generation \in Sockets /\ relayQ[generation] # <<>>
      /\ relayQ' = [relayQ EXCEPT ![generation] = Tail(@)]
      /\ UNCHANGED <<nextPush, sentOn>>
  BY DEF PushResult, Heard
<1>2. relayQ[generation] \in Seq(Pushes) BY <1>1
<1>3. Tail(relayQ[generation]) \in Seq(Pushes) /\ Head(relayQ[generation]) \in Pushes
  BY <1>1, <1>2
<1>4. relayQ' \in [Sockets -> Seq(Pushes)] BY <1>1, <1>3
<1>5. ackOf' \in [Pushes -> {0} \cup Pushes]
  <2>1. CASE pendingPushes = <<>> BY <2>1 DEF PushResult
  <2>2. CASE pendingPushes # <<>>
    <3>1. Head(pendingPushes) \in Pushes BY <2>2 DEF ReqInv, RequestTypeOK
    <3>2. ackOf' = [ackOf EXCEPT ![Head(pendingPushes)] = Head(relayQ[generation])]
      BY <2>2 DEF PushResult
    <3> QED BY <1>3, <3>1, <3>2
  <2> QED BY <2>1, <2>2
<1> QED BY <1>1, <1>4, <1>5

-----------------------------------------------------------------------------
(* The invariant *)

IInv == ConnInv /\ ReqInv /\ ChallengeTypeOK /\ WireTypeOK

LEMMA InitIInv == Init => IInv
<1> SUFFICES ASSUME Init PROVE IInv OBVIOUS
<1>1. ConnInv BY InitConn
<1>2. ReqInv
  BY DEF Init, ReqInv, RequestTypeOK, RequestsNeedSession
<1>3. ChallengeTypeOK BY DEF Init, ChallengeTypeOK
<1>4. WireTypeOK BY DEF Init, WireTypeOK
<1> QED BY <1>1, <1>2, <1>3, <1>4 DEF IInv

\* Every step keeps the connection consistent.
LEMMA NextConn == IInv /\ [Next]_vars => ConnInv'
<1> SUFFICES ASSUME IInv, [Next]_vars PROVE ConnInv' OBVIOUS
<1> USE DEF IInv
<1>1. CASE Message
  <2>1. CASE BadMessage
    <3>1. generation <= MaxGen BY <2>1, HeardInBounds DEF BadMessage
    <3>2. DropAndRetry /\ UNCHANGED <<authFailures, relayTunnel>>
      BY <2>1 DEF BadMessage, ProtocolAbort
    <3>3. authFailures' \in 0..MaxAuthFailures
      BY <3>2 DEF ConnInv, ConnTypeOK, CounterTypeOK
    <3> QED BY <3>1, <3>2, <3>3, DropConn
  <2>2. CASE AuthRejected BY <2>2, AuthRejectedConn
  <2>3. CASE Replaced BY <2>3, ReplacedConn
  <2>4. CASE TunnelStart BY <2>4, SameConn DEF TunnelStart
  <2>5. CASE \E c \in Sockets : Challenge(c) BY <2>5, ChallengeConn
  <2>6. CASE \E b \in BOOLEAN : Authenticated(b) BY <2>6, AuthenticatedConn
  <2>7. CASE \E b \in BOOLEAN : PushResult(b) BY <2>7, SameConn DEF PushResult
  <2> QED BY <1>1, <2>1, <2>2, <2>3, <2>4, <2>5, <2>6, <2>7 DEF Message
<1>2. CASE Signature
  <2>1. PICK s \in signing : Signed(s) \/ SignFailed(s) BY <1>2 DEF Signature
  <2>2. CASE Signed(s) BY <2>2, SameConn DEF Signed
  <2>3. CASE SignFailed(s) /\ s.gen = generation
    <3>1. generation <= MaxGen BY <2>3 DEF ChallengeTypeOK
    <3>2. DropAndRetry /\ UNCHANGED <<authFailures, relayTunnel>>
      BY <2>3 DEF SignFailed, ProtocolAbort
    <3>3. authFailures' \in 0..MaxAuthFailures
      BY <3>2 DEF ConnInv, ConnTypeOK, CounterTypeOK
    <3> QED BY <3>1, <3>2, <3>3, DropConn
  <2>4. CASE SignFailed(s) /\ s.gen # generation
    BY <2>4, SameConn DEF SignFailed
  <2> QED BY <2>1, <2>2, <2>3, <2>4
<1>3. CASE NextEvent
  <2>1. CASE Timer
    <3>1. CASE PushTimeout BY <3>1, SameConn DEF PushTimeout
    <3> QED BY <2>1, <3>1, ReconnectTimeoutConn, TimeoutConn DEF Timer
  <2>2. CASE SocketEvent
    BY <2>2, SocketOpenConn, PeerClosesConn, SocketCloseConn DEF SocketEvent
  <2>3. CASE Call
    <3>1. CASE PushNotification BY <3>1, SameConn DEF PushNotification
    <3>2. CASE \E r \in Removals : RemoveLink(r) BY <3>2, SameConn DEF RemoveLink
    <3> QED BY <2>3, <3>1, <3>2, StartConn, ReconnectConn, DisconnectConn, ShutdownConn
            DEF Call
  <2>4. CASE \E r \in Removals : RemovalSettled(r)
    BY <2>4, SameConn DEF RemovalSettled
  <2>5. CASE \E g \in contexts : TunnelDone(g)
    BY <2>5, SameConn DEF TunnelDone
  <2> QED BY <1>3, <2>1, <2>2, <2>3, <2>4, <2>5 DEF NextEvent
<1>4. CASE UNCHANGED vars BY <1>4, SameConn DEF vars
<1> QED BY <1>1, <1>2, <1>3, <1>4 DEF Next

\* Every step keeps the requests within the session.
LEMMA NextReq == IInv /\ [Next]_vars => ReqInv'
<1> SUFFICES ASSUME IInv, [Next]_vars PROVE ReqInv' OBVIOUS
<1> USE DEF IInv
<1>1. CASE Message
  <2>1. CASE BadMessage BY <2>1, DropAndRetryReq DEF BadMessage, ProtocolAbort
  <2>2. CASE \/ AuthRejected \/ Replaced
             \/ \E c \in Sockets : Challenge(c)
             \/ \E b \in BOOLEAN : Authenticated(b)
    BY <2>2, HandshakeReq
  <2>3. CASE TunnelStart BY <2>3, TunnelReq
  <2>4. CASE \E b \in BOOLEAN : PushResult(b) BY <2>4, PushResultReq
  <2> QED BY <1>1, <2>1, <2>2, <2>3, <2>4 DEF Message
<1>2. CASE Signature
  <2>1. PICK s \in signing : Signed(s) \/ SignFailed(s) BY <1>2 DEF Signature
  <2>2. CASE Signed(s) BY <2>2, SameReq DEF Signed, session, requests
  <2>3. CASE SignFailed(s) /\ s.gen = generation
    BY <2>3, DropAndRetryReq DEF SignFailed, ProtocolAbort
  <2>4. CASE SignFailed(s) /\ s.gen # generation
    BY <2>4, SameReq DEF SignFailed, session, requests
  <2> QED BY <2>1, <2>2, <2>3, <2>4
<1>3. CASE NextEvent
  <2>1. CASE Timer BY <2>1, CallReq, TimeoutReq, PushTimeoutReq DEF Timer
  <2>2. CASE SocketEvent BY <2>2, SocketReq DEF SocketEvent
  <2>3. CASE Call BY <2>3, CallReq, PushReq, RemovalReq DEF Call
  <2>4. CASE \E r \in Removals : RemovalSettled(r) BY <2>4, RemovalReq
  <2>5. CASE \E g \in contexts : TunnelDone(g) BY <2>5, TunnelReq
  <2> QED BY <1>3, <2>1, <2>2, <2>3, <2>4, <2>5 DEF NextEvent
<1>4. CASE UNCHANGED vars BY <1>4, SameReq DEF vars, session, requests
<1> QED BY <1>1, <1>2, <1>3, <1>4 DEF Next

LEMMA NextChallenge == IInv /\ [Next]_vars => ChallengeTypeOK'
<1> SUFFICES ASSUME IInv, [Next]_vars PROVE ChallengeTypeOK' OBVIOUS
<1> USE DEF IInv
<1>1. CASE \E c \in Sockets : Challenge(c) BY <1>1, ChallengeTypes
<1>2. CASE Signature BY <1>2, SignatureTypes DEF Signature
<1>3. CASE UNCHANGED <<processed, signing, authSent>> BY <1>3 DEF ChallengeTypeOK
<1>4. CASE Message
  BY <1>1, <1>3, <1>4
  DEF Message, BadMessage, AuthRejected, Replaced, TunnelStart, Authenticated, PushResult, wire
<1>5. CASE NextEvent
  <2>1. CASE Timer
    BY <1>3, <2>1 DEF Timer, ReconnectTimeout, AuthTimeout, IdleTimeout, PushTimeout, wire
  <2>2. CASE SocketEvent
    BY <1>3, <2>2 DEF SocketEvent, SocketOpen, PeerCloses, SocketClose, wire
  <2>3. CASE Call
    BY <1>3, <2>3
    DEF Call, Start, Reconnect, Disconnect, Shutdown, PushNotification, RemoveLink, wire
  <2> QED BY <1>3, <1>5, <2>1, <2>2, <2>3 DEF NextEvent, RemovalSettled, TunnelDone, wire
<1>6. CASE UNCHANGED vars BY <1>3, <1>6 DEF vars, wire
<1> QED BY <1>2, <1>4, <1>5, <1>6 DEF Next

LEMMA NextWire == IInv /\ [Next]_vars => WireTypeOK'
<1> SUFFICES ASSUME IInv, [Next]_vars PROVE WireTypeOK' OBVIOUS
<1> USE DEF IInv
<1>1. CASE PushNotification BY <1>1, PushWire
<1>2. CASE \E b \in BOOLEAN : PushResult(b) BY <1>2, PushResultWire
<1>3. CASE UNCHANGED <<relayQ, nextPush, sentOn, ackOf>> BY <1>3, SameWire
<1>4. CASE Message
  BY <1>2, <1>3, <1>4
  DEF Message, BadMessage, AuthRejected, Replaced, TunnelStart, Authenticated, Challenge,
      wire, history
<1>5. CASE Signature BY <1>3, <1>5 DEF Signature, Signed, SignFailed, wire, history
<1>6. CASE NextEvent
  <2>1. CASE Timer
    BY <1>3, <2>1
    DEF Timer, ReconnectTimeout, AuthTimeout, IdleTimeout, PushTimeout, wire, history
  <2>2. CASE SocketEvent
    BY <1>3, <2>2 DEF SocketEvent, SocketOpen, PeerCloses, SocketClose, wire, history
  <2>3. CASE Call
    BY <1>1, <1>3, <2>3
    DEF Call, Start, Reconnect, Disconnect, Shutdown, RemoveLink, wire, history
  <2> QED BY <1>3, <1>6, <2>1, <2>2, <2>3
          DEF NextEvent, RemovalSettled, TunnelDone, wire, history
<1>7. CASE UNCHANGED vars BY <1>3, <1>7 DEF vars, wire, history
<1> QED BY <1>4, <1>5, <1>6, <1>7 DEF Next

\* IInv is an inductive invariant of the specification.
THEOREM Invariant == Spec => []IInv
<1>1. IInv /\ [Next]_vars => IInv'
  BY NextConn, NextReq, NextChallenge, NextWire DEF IInv
<1> QED BY InitIInv, <1>1, PTL DEF Spec

\* The variables keep the values relay-connection.js gives them.
THEOREM TypeCorrect == Spec => []TypeOK
<1>1. IInv => TypeOK BY DEF IInv, ConnInv, ReqInv, TypeOK
<1> QED BY Invariant, <1>1, PTL

\* The client is never stranded: in every state the timer that will end or
\* repeat the attempt is armed, for the socket in use.
THEOREM AlwaysSupervised == Spec => []Supervised
<1>1. IInv => Supervised BY DEF IInv, ConnInv
<1> QED BY Invariant, <1>1, PTL

\* Whatever order calls, timers and socket events come in, no second socket
\* is opened while one is connecting or open.
THEOREM AtMostOneConnection == Spec => []OneConnection
<1>1. IInv => OneConnection BY DEF IInv, ConnInv
<1> QED BY Invariant, <1>1, PTL

\* No push, removal or tunnel request outlives the session it belongs to.
THEOREM RequestsEndWithSession == Spec => []RequestsNeedSession
<1>1. IInv => RequestsNeedSession BY DEF IInv, ReqInv
<1> QED BY Invariant, <1>1, PTL
-----------------------------------------------------------------------------
(* No attempt while stopped *)

\* Only connect() opens a socket, and it may when its caller is not stopped.
LEMMA ConnectOpening ==
    ASSUME NEW c \in Handed, Connect(c), stopped'
    PROVE  stopped' = c.stopped /\ sockets' = c.sockets
<1>1. stopped' = c.stopped
  BY DEF Connect, ConnectRefused, ConnectThrows, ConnectOpens, Ends, MayConnect, Handed
<1>2. ~MayConnect(c) BY <1>1 DEF MayConnect
<1> QED BY <1>1, <1>2 DEF Connect, ConnectRefused, ConnectThrows, ConnectOpens, Ends

\* Every way the sockets can change while the service stays stopped.
LEMMA StoppedSockets ==
    ASSUME IInv, Next, stopped, stopped'
    PROVE  \/ UNCHANGED sockets
           \/ sockets' = Closed
           \/ \E g \in Sockets : \E v \in {"open", "closing", "closed"} :
                 sockets' = [sockets EXCEPT ![g] = v]
           \/ Shutdown
<1>1. CASE Message
  <2>1. CASE BadMessage \/ AuthRejected \/ Replaced
    BY <2>1
    DEF BadMessage, ProtocolAbort, DropAndRetry, DropSocket, AuthRejected, Replaced
  <2>2. CASE ~(BadMessage \/ AuthRejected \/ Replaced)
    BY <1>1, <2>2 DEF Message, TunnelStart, Challenge, Authenticated, PushResult
  <2> QED BY <2>1, <2>2
<1>2. CASE Signature
  BY <1>2 DEF Signature, Signed, SignFailed, ProtocolAbort, DropAndRetry, DropSocket
<1>3. CASE NextEvent
  <2>1. stopped \in BOOLEAN BY DEF IInv, ConnInv, ConnTypeOK, ModeTypeOK
  <2>2. CASE Start
    <3> DEFINE c == [Now EXCEPT !.stopped = FALSE, !.backoffIndex = 0]
    <3>1. c.stopped = FALSE BY DEF Now
    <3>2. Connect(c) BY <2>2 DEF Start
    <3>3. 0 \in Backoffs BY DEF Backoffs
    <3>4. c \in Handed BY <3>3, NowReady DEF Handed, Now, IInv
    <3> HIDE DEF c
    <3> QED BY <3>1, <3>2, <3>4, ConnectOpening
  <2>3. CASE Reconnect
    <3>1. Dropped.stopped = FALSE BY DEF Dropped
    <3>2. Connect(Dropped) BY <2>3 DEF Reconnect
    <3>3. Dropped \in Handed BY <2>3, DroppedReady DEF Reconnect, IInv
    <3> QED BY <3>1, <3>2, <3>3, ConnectOpening
  <2>4. CASE ReconnectTimeout
    <3> DEFINE c == [Now EXCEPT !.reconnectTimer = FALSE]
    <3>1. c.stopped = stopped /\ c.sockets = sockets BY DEF Now
    <3>2. Connect(c) BY <2>4 DEF ReconnectTimeout
    <3>3. c \in Handed BY NowReady DEF Handed, Now, IInv
    <3> HIDE DEF c
    <3> QED BY <2>1, <3>1, <3>2, <3>3, ConnectOpening
  <2>5. CASE AuthTimeout \/ IdleTimeout \/ PushTimeout
    BY <2>5 DEF AuthTimeout, IdleTimeout, PushTimeout, DropAndRetry, DropSocket
  <2>6. CASE SocketEvent
    BY <2>6 DEF SocketEvent, SocketOpen, PeerCloses, SocketClose
  <2>7. CASE Disconnect BY <2>7 DEF Disconnect, DropSocket
  <2>8. CASE PushNotification \/ \E r \in Removals : RemoveLink(r)
    BY <2>8 DEF PushNotification, RemoveLink
  <2> QED BY <1>3, <2>2, <2>3, <2>4, <2>5, <2>6, <2>7, <2>8
          DEF NextEvent, Timer, Call, RemovalSettled, TunnelDone
<1> QED BY <1>1, <1>2, <1>3 DEF Next

\* A stopped or replaced service starts no connection attempt, also with a
\* reconnect timer left over.
THEOREM NoAttemptWhileStopped == Spec => StoppedStaysDown
<1> DEFINE StaysDown ==
      stopped /\ stopped' =>
        \A g \in Sockets : sockets'[g] = "connecting" => sockets[g] = "connecting"
<1>1. IInv /\ [Next]_vars => [StaysDown]_vars
  <2> SUFFICES ASSUME IInv, Next, stopped, stopped', NEW g \in Sockets,
                      sockets'[g] = "connecting"
               PROVE  sockets[g] = "connecting"
    OBVIOUS
  <2>1. sockets \in [Sockets -> {"none", "connecting", "open", "closing", "closed"}]
    BY DEF IInv, ConnInv, ConnTypeOK, SocketTypeOK
  <2> QED BY <2>1, StoppedSockets DEF Closed, Shutdown
<1> QED BY Invariant, <1>1, PTL DEF Spec, StoppedStaysDown
-----------------------------------------------------------------------------
(* The promise of a push *)

\* The FIFO of the client against the queue of the relay, on the connection in
\* use: the relay has not answered at least as many, and the one whose answer
\* would settle the i-th entry was sent no later than that entry.
Aligned ==
    ws \in Sockets /\ sockets[ws] = "open" =>
      /\ Len(pendingPushes) <= Len(relayQ[ws])
      /\ \A i \in DOMAIN pendingPushes :
            relayQ[ws][i] <= pendingPushes[i] /\ sentOn[pendingPushes[i]] = ws

\* The FIFO holds the pending pushes in the order they were sent.
InOrder ==
    /\ \A p \in Pushes :
          result[p] = "pending" <=> \E i \in DOMAIN pendingPushes : pendingPushes[i] = p
    /\ \A i \in DOMAIN pendingPushes : pendingPushes[i] < nextPush
    /\ \A i, j \in DOMAIN pendingPushes : i < j => pendingPushes[i] < pendingPushes[j]

\* What the relay holds was sent on that socket, what is settled was sent.
SentBefore ==
    /\ \A g \in Sockets : \A i \in DOMAIN relayQ[g] :
          relayQ[g][i] < nextPush /\ sentOn[relayQ[g][i]] = g
    /\ \A p \in Pushes : ackOf[p] # 0 =>
          p < nextPush /\ ackOf[p] <= p /\ sentOn[ackOf[p]] = sentOn[p]

FifoInv == InOrder /\ SentBefore /\ Aligned

LEMMA InitFifo == Init => FifoInv
BY DEF Init, FifoInv, InOrder, SentBefore, Aligned

\* s without its i-th element.
Cut(s, i) == SubSeq(s, 1, i - 1) \o SubSeq(s, i + 1, Len(s))

LEMMA CutProperties ==
    ASSUME NEW S, NEW s \in Seq(S), NEW i \in 1..Len(s)
    PROVE  /\ Cut(s, i) \in Seq(S) /\ Len(Cut(s, i)) = Len(s) - 1
           /\ \A j \in 1..Len(Cut(s, i)) : Cut(s, i)[j] = IF j < i THEN s[j] ELSE s[j + 1]
<1> DEFINE t == Cut(s, i)
           a == SubSeq(s, 1, i - 1)
           b == SubSeq(s, i + 1, Len(s))
           n == Len(s)
<1>1. n \in Nat /\ \A j \in 1..n : s[j] \in S OBVIOUS
<1>2. /\ a \in Seq(S) /\ Len(a) = i - 1
      /\ \A j \in 1..(i - 1) : a[j] = s[j]
  BY <1>1, SubSeqProperties
<1>3. /\ b \in Seq(S) /\ Len(b) = n - i
      /\ \A j \in 1..(n - i) : b[j] = s[i + j]
  BY <1>1, SubSeqProperties
<1> HIDE DEF a, b, n, t
<1>4. t = a \o b BY DEF a, b, n, t, Cut
<1>5. /\ a \o b \in Seq(S) /\ Len(a \o b) = Len(a) + Len(b)
      /\ \A j \in 1..(Len(a) + Len(b)) :
           (a \o b)[j] = IF j <= Len(a) THEN a[j] ELSE b[j - Len(a)]
  BY <1>2, <1>3, ConcatProperties
<1>6. i \in 1..n /\ Len(a) + Len(b) = n - 1 BY <1>1, <1>2, <1>3 DEF n
<1>7. t \in Seq(S) /\ Len(t) = n - 1 BY <1>4, <1>5, <1>6
<1>8. ASSUME NEW j \in 1..(n - 1) PROVE t[j] = IF j < i THEN s[j] ELSE s[j + 1]
  <2>1. j \in 1..(Len(a) + Len(b)) BY <1>6
  <2>2. (a \o b)[j] = IF j <= Len(a) THEN a[j] ELSE b[j - Len(a)] BY <1>5, <2>1
  <2>3. t[j] = IF j <= Len(a) THEN a[j] ELSE b[j - Len(a)] BY <1>4, <2>2, Zenon
  <2>4. CASE j < i
    <3>1. j \in 1..(i - 1) /\ j <= i - 1 BY <1>1, <1>6, <2>4
    <3>2. t[j] = a[j] BY <1>2, <2>3, <3>1
    <3> QED BY <1>2, <2>4, <3>1, <3>2
  <2>5. CASE ~(j < i)
    <3> DEFINE k == j - (i - 1)
    <3>1. k \in 1..(n - i) /\ i + k = j + 1 /\ ~(j <= i - 1) BY <1>1, <1>6, <2>5
    <3>2. t[j] = b[k] BY <1>2, <2>3, <3>1
    <3> HIDE DEF k
    <3> QED BY <1>3, <2>5, <3>1, <3>2
  <2> QED BY <2>4, <2>5
<1> QED BY <1>7, <1>8 DEF n, t

\* An increasing f, and h, which is f without its i-th element.
Increasing(f, n) ==
    /\ \A j \in 1..n : f[j] \in Nat
    /\ \A j, k \in 1..n : j < k => f[j] < f[k]
Lacks(h, f, n, i) ==
    \A j \in 1..(n - 1) : h[j] = IF j < i THEN f[j] ELSE f[j + 1]
Rest(h, f, n, i) ==
    /\ \A j \in 1..(n - 1) : h[j] # f[i]
    /\ \A j \in 1..(n - 1) : \E k \in 1..n : h[j] = f[k]
    /\ \A j \in 1..n : j # i => \E k \in 1..(n - 1) : h[k] = f[j]
    /\ \A j, k \in 1..(n - 1) : j < k => h[j] < h[k]

LEMMA TakenOut ==
    ASSUME NEW n \in Nat, NEW i \in 1..n, NEW f, NEW h,
           Increasing(f, n), Lacks(h, f, n, i)
    PROVE  Rest(h, f, n, i)
<1> USE DEF Increasing, Lacks
<1>1. \A j \in 1..(n - 1) : j \in 1..n /\ j + 1 \in 1..n OBVIOUS
<1>2. ASSUME NEW j \in 1..(n - 1) PROVE h[j] # f[i] /\ \E k \in 1..n : h[j] = f[k]
  <2>1. CASE j < i BY <1>1, <2>1
  <2>2. CASE ~(j < i)
    <3>1. i < j + 1 /\ h[j] = f[j + 1] BY <2>2
    <3> QED BY <1>1, <3>1
  <2> QED BY <2>1, <2>2
<1>3. ASSUME NEW j \in 1..n, j # i PROVE \E k \in 1..(n - 1) : h[k] = f[j]
  <2>1. CASE j < i
    <3>1. j \in 1..(n - 1) /\ h[j] = f[j] BY <2>1
    <3> QED BY <3>1
  <2>2. CASE i < j
    <3> DEFINE k == j - 1
    <3>1. k \in 1..(n - 1) /\ k + 1 = j /\ ~(k < i) BY <2>2
    <3> HIDE DEF k
    <3> QED BY <3>1
  <2> QED BY <1>3, <2>1, <2>2
<1>4. ASSUME NEW j \in 1..(n - 1), NEW k \in 1..(n - 1), j < k PROVE h[j] < h[k]
  <2>1. f[j] < f[k] /\ f[k] < f[k + 1] /\ f[j + 1] < f[k + 1] BY <1>1, <1>4
  <2>2. CASE k < i
    <3>1. h[j] = f[j] /\ h[k] = f[k] BY <1>4, <2>2
    <3> QED BY <2>1, <3>1
  <2>3. CASE ~(k < i)
    <3>1. h[k] = f[k + 1] /\ (h[j] = f[j] \/ h[j] = f[j + 1]) BY <2>3
    <3>2. f[j] < f[k + 1] BY <1>1, <1>4
    <3> QED BY <2>1, <3>1, <3>2
  <2> QED BY <2>2, <2>3
<1> QED BY <1>2, <1>3, <1>4 DEF Rest

\* The i-th entry leaves the FIFO, settled.
Taken(i) ==
    /\ pendingPushes' \in Seq(Pushes) /\ Len(pendingPushes') = Len(pendingPushes) - 1
    /\ \A j \in 1..Len(pendingPushes') :
         pendingPushes'[j] = IF j < i THEN pendingPushes[j] ELSE pendingPushes[j + 1]
    /\ \E v \in {"accepted", "failed", "timeout"} :
         result' = [result EXCEPT ![pendingPushes[i]] = v]

LEMMA TakenInOrder ==
    ASSUME RequestTypeOK, InOrder, NEW i \in 1..Len(pendingPushes), Taken(i),
           UNCHANGED nextPush
    PROVE  InOrder'
<1> DEFINE f == pendingPushes
           h == pendingPushes'
<1>1. f \in Seq(Pushes) /\ h \in Seq(Pushes) /\ Len(f) \in Nat /\ Len(h) = Len(f) - 1
  BY DEF RequestTypeOK, Taken
<1>2. DOMAIN f = 1..Len(f) /\ DOMAIN h = 1..Len(h) BY <1>1
<1>3. \A j \in 1..Len(h) : h[j] = IF j < i THEN f[j] ELSE f[j + 1] BY DEF Taken
<1>4. f[i] \in Pushes /\ \A j \in 1..Len(f) : f[j] \in Nat BY <1>1
<1>5. PICK v \in {"accepted", "failed", "timeout"} : result' = [result EXCEPT ![f[i]] = v]
  BY DEF Taken
<1>6. result'[f[i]] # "pending" /\ \A p \in Pushes \ {f[i]} : result'[p] = result[p]
  BY <1>4, <1>5 DEF RequestTypeOK
<1>7. /\ \A p \in Pushes : result[p] = "pending" <=> \E j \in DOMAIN f : f[j] = p
      /\ \A j \in DOMAIN f : f[j] < nextPush
      /\ \A j, k \in DOMAIN f : j < k => f[j] < f[k]
  BY DEF InOrder
<1>i. i \in 1..Len(f) OBVIOUS
<1> HIDE DEF f, h
<1>8. PICK n \in Nat : n = Len(f) BY <1>1
<1>9. DOMAIN f = 1..n /\ DOMAIN h = 1..(n - 1) /\ i \in 1..n BY <1>1, <1>2, <1>8, <1>i
<1>10. Increasing(f, n) /\ Lacks(h, f, n, i)
  BY <1>2, <1>3, <1>4, <1>7, <1>8, <1>9 DEF Increasing, Lacks
<1>11. /\ \A j \in 1..(n - 1) : h[j] # f[i]
       /\ \A j \in 1..(n - 1) : \E k \in 1..n : h[j] = f[k]
       /\ \A j \in 1..n : j # i => \E k \in 1..(n - 1) : h[k] = f[j]
       /\ \A j, k \in 1..(n - 1) : j < k => h[j] < h[k]
  <2>1. Rest(h, f, n, i) BY <1>8, <1>9, <1>10, TakenOut
  <2> QED BY <2>1 DEF Rest
<1>12. \A p \in Pushes \ {f[i]} :
         (\E j \in DOMAIN f : f[j] = p) <=> \E j \in DOMAIN h : h[j] = p
  BY <1>9, <1>11
<1>13. \A p \in Pushes : result'[p] = "pending" <=> \E j \in DOMAIN h : h[j] = p
  BY <1>6, <1>7, <1>9, <1>11, <1>12
<1>14. \A j \in DOMAIN h : h[j] < nextPush BY <1>7, <1>9, <1>11
<1>15. \A j, k \in DOMAIN h : j < k => h[j] < h[k] BY <1>9, <1>11
<1> QED BY <1>13, <1>14, <1>15 DEF InOrder, h

\* No step but those of the pushes themselves: the FIFO is kept or failed as a
\* whole, and no socket is open that was neither open nor connecting.
Rejected ==
    /\ result' = [p \in Pushes |->
                    IF \E i \in DOMAIN pendingPushes : pendingPushes[i] = p
                    THEN "failed" ELSE result[p]]
    /\ pendingPushes' = <<>>
Opens == \A g \in Sockets : sockets'[g] = "open" => sockets[g] \in {"connecting", "open"}
Settling == Rejected \/ UNCHANGED <<pendingPushes, result>>
Passive == UNCHANGED <<relayQ, nextPush, sentOn, ackOf>> /\ Opens /\ Settling

LEMMA PassiveFifo == ASSUME IInv, FifoInv, Passive PROVE FifoInv'
<1> USE DEF Passive, Settling
<1>1. SentBefore' BY DEF FifoInv, SentBefore
<1>2. InOrder'
  <2>1. CASE UNCHANGED <<pendingPushes, result>> BY <2>1 DEF FifoInv, InOrder
  <2>2. CASE Rejected
    <3>1. \A p \in Pushes : result'[p] # "pending" BY <2>2 DEF Rejected, FifoInv, InOrder
    <3>2. DOMAIN pendingPushes' = {} BY <2>2 DEF Rejected
    <3> QED BY <3>1, <3>2 DEF InOrder
  <2> QED BY <2>1, <2>2
<1>3. Aligned'
  <2> SUFFICES ASSUME ws' \in Sockets, sockets'[ws'] = "open" PROVE Aligned'
    BY DEF Aligned
  <2>1. ws' = ws /\ sockets[ws] \in {"connecting", "open"}
    BY DEF Opens, IInv, ConnInv, OneConnection
  <2>2. relayQ[ws] \in Seq(Pushes) BY <2>1 DEF IInv, WireTypeOK
  <2>3. CASE pendingPushes' = <<>>
    <3>1. Len(pendingPushes') = 0 /\ DOMAIN pendingPushes' = {} BY <2>3
    <3>2. Len(relayQ'[ws']) \in Nat BY <2>1, <2>2
    <3>3. Len(pendingPushes') <= Len(relayQ'[ws']) BY <3>1, <3>2
    <3> QED BY <3>1, <3>3 DEF Aligned
  <2>4. CASE sockets[ws] = "connecting"
    <3>1. state # "authenticated" BY <2>1, <2>4 DEF IInv, ConnInv, Active
    <3>2. pendingPushes' = <<>>
      BY <3>1 DEF IInv, ReqInv, RequestsNeedSession, Rejected
    <3> QED BY <2>3, <3>2
  <2>5. CASE sockets[ws] = "open" /\ UNCHANGED <<pendingPushes, result>>
    BY <2>1, <2>5 DEF FifoInv, Aligned
  <2> QED BY <2>1, <2>3, <2>4, <2>5 DEF Rejected
<1> QED BY <1>1, <1>2, <1>3 DEF FifoInv

\* The steps that are passive.
LEMMA SetStateSettles ==
    ASSUME NEW s, SetState(s) PROVE Settling
BY DEF SetState, RejectRequests, Settling, Rejected, requests

LEMMA ConnectPassive ==
    ASSUME IInv, NEW c \in Handed, Connect(c), c.sockets \in {sockets, Closed}
    PROVE  Opens /\ Settling
<1>1. \E s : SetState(s)
  BY DEF Connect, ConnectRefused, ConnectThrows, ConnectOpens, Ends
<1>2. Settling BY <1>1, SetStateSettles
<1>3. sockets' \in {c.sockets, [c.sockets EXCEPT ![c.generation + 1] = "connecting"]}
  BY DEF Connect, ConnectRefused, ConnectThrows, ConnectOpens, Ends, Handed
<1>4. Opens
  <2> SUFFICES ASSUME NEW g \in Sockets, sockets'[g] = "open"
               PROVE  sockets[g] \in {"connecting", "open"}
    BY DEF Opens
  <2>1. sockets \in [Sockets -> SocketStates] /\ Closed \in [Sockets -> SocketStates]
    BY DEF IInv, ConnInv, ConnTypeOK, SocketTypeOK, SocketStates, Closed
  <2>2. c.sockets[g] = "open" BY <1>3, <2>1
  <2> QED BY <2>2 DEF Closed
<1> QED BY <1>2, <1>4

LEMMA DropPassive == ASSUME DropSocket PROVE Opens
BY DEF DropSocket, Opens, Closed

LEMMA RetryPassive == ASSUME DropAndRetry PROVE Opens /\ Settling
<1>1. \E s : SetState(s) BY DEF DropAndRetry, ScheduleReconnect
<1> QED BY <1>1, SetStateSettles, DropPassive DEF DropAndRetry

LEMMA SameSockets == ASSUME UNCHANGED sockets PROVE Opens
BY DEF Opens

LEMMA SocketPassive ==
    ASSUME IInv, NEW g \in Sockets, SocketOpen(g) \/ PeerCloses(g) \/ SocketClose(g)
    PROVE  Opens /\ Settling
<1>1. Opens BY DEF Opens, SocketOpen, PeerCloses, SocketClose, IInv, ConnInv, ConnTypeOK, SocketTypeOK
<1>2. (\E s : SetState(s)) \/ UNCHANGED requests
  BY DEF SocketOpen, PeerCloses, SocketClose, ScheduleReconnect, requests
<1> QED BY <1>1, <1>2, SetStateSettles DEF Settling, requests

LEMMA CallPassive ==
    ASSUME IInv, Start \/ Reconnect \/ ReconnectTimeout \/ Disconnect \/ Shutdown
    PROVE  Opens /\ Settling
<1>1. CASE Start
  <2> DEFINE c == [Now EXCEPT !.stopped = FALSE, !.backoffIndex = 0]
  <2>1. c.sockets = sockets /\ Connect(c) BY <1>1 DEF Start, Now
  <2>2. 0 \in Backoffs BY DEF Backoffs
  <2>3. c \in Handed BY <2>2, NowReady DEF Handed, Now, IInv
  <2> HIDE DEF c
  <2> QED BY <2>1, <2>3, ConnectPassive
<1>2. CASE ReconnectTimeout
  <2> DEFINE c == [Now EXCEPT !.reconnectTimer = FALSE]
  <2>1. c.sockets = sockets /\ Connect(c) BY <1>2 DEF ReconnectTimeout, Now
  <2>3. c \in Handed BY NowReady DEF Handed, Now, IInv
  <2> HIDE DEF c
  <2> QED BY <2>1, <2>3, ConnectPassive
<1>3. CASE Reconnect
  <2>1. Dropped.sockets = Closed /\ Connect(Dropped) BY <1>3 DEF Reconnect, Dropped
  <2>2. Dropped \in Handed BY <1>3, DroppedReady DEF Reconnect, IInv
  <2> QED BY <2>1, <2>2, ConnectPassive
<1>4. CASE Disconnect BY <1>4, SetStateSettles, DropPassive DEF Disconnect
<1>5. CASE Shutdown
  BY <1>5 DEF Shutdown, RejectRequests, Settling, Rejected, Opens
<1> QED BY <1>1, <1>2, <1>3, <1>4, <1>5

LEMMA NextPassive ==
    ASSUME IInv, [Next]_vars
    PROVE  \/ Passive \/ PushNotification \/ PushTimeout
           \/ \E b \in BOOLEAN : PushResult(b)
<1> USE DEF Passive
<1>1. CASE Message
  <2>1. CASE BadMessage
    BY <2>1, RetryPassive DEF BadMessage, ProtocolAbort, wire, history
  <2>2. CASE AuthRejected \/ Replaced
    <3>1. \E s : SetState(s) BY <2>2 DEF AuthRejected, Replaced, ScheduleReconnect
    <3>2. DropSocket /\ UNCHANGED <<wire, history>> BY <2>2 DEF AuthRejected, Replaced
    <3> QED BY <3>1, <3>2, SetStateSettles, DropPassive DEF wire, history
  <2>3. CASE TunnelStart
    BY <2>3, SameSockets DEF TunnelStart, Settling, wire, history
  <2>4. CASE \E c \in Sockets : Challenge(c)
    BY <2>4, SameSockets, SetStateSettles DEF Challenge, wire, history
  <2>5. CASE \E b \in BOOLEAN : Authenticated(b)
    BY <2>5, SameSockets, SetStateSettles DEF Authenticated, wire, history
  <2> QED BY <1>1, <2>1, <2>2, <2>3, <2>4, <2>5 DEF Message
<1>2. CASE Signature
  <2>1. PICK s \in signing : Signed(s) \/ SignFailed(s) BY <1>2 DEF Signature
  <2>2. CASE Signed(s)
    BY <2>2, SameSockets DEF Signed, Settling, requests, history
  <2>3. CASE SignFailed(s) /\ s.gen = generation
    BY <2>3, RetryPassive DEF SignFailed, ProtocolAbort, wire, history
  <2>4. CASE SignFailed(s) /\ s.gen # generation
    BY <2>4, SameSockets DEF SignFailed, Settling, requests, wire, history
  <2> QED BY <2>1, <2>2, <2>3, <2>4
<1>3. CASE NextEvent
  <2>1. CASE AuthTimeout /\ ~DropAndRetry
    BY <2>1, SameSockets DEF AuthTimeout, Settling, requests, wire, history
  <2>2. CASE AuthTimeout /\ DropAndRetry
    BY <2>2, RetryPassive DEF AuthTimeout, wire, history
  <2>3. CASE IdleTimeout BY <2>3, RetryPassive DEF IdleTimeout, wire, history
  <2>4. CASE SocketEvent
    <3>1. PICK g \in Sockets : SocketOpen(g) \/ PeerCloses(g) \/ SocketClose(g)
      BY <2>4 DEF SocketEvent
    <3>2. UNCHANGED <<wire, history>> BY <3>1 DEF SocketOpen, PeerCloses, SocketClose
    <3> QED BY <3>1, <3>2, SocketPassive DEF wire, history
  <2>5. CASE Start \/ Reconnect \/ ReconnectTimeout \/ Disconnect \/ Shutdown
    <3>1. UNCHANGED <<wire, history>>
      BY <2>5 DEF Start, Reconnect, ReconnectTimeout, Disconnect, Shutdown
    <3> QED BY <2>5, <3>1, CallPassive DEF wire, history
  <2>6. CASE (\E r \in Removals : RemoveLink(r) \/ RemovalSettled(r))
             \/ \E g \in contexts : TunnelDone(g)
    BY <2>6, SameSockets DEF RemoveLink, RemovalSettled, TunnelDone, Settling, wire, history
  <2> QED BY <1>3, <2>1, <2>2, <2>3, <2>4, <2>5, <2>6 DEF NextEvent, Timer, Call
<1>4. CASE UNCHANGED vars
  BY <1>4, SameSockets DEF vars, Settling, requests, wire, history
<1> QED BY <1>1, <1>2, <1>3, <1>4 DEF Next

\* A push is queued last, on both sides or, on a socket that is no longer
\* open, on the client's alone.
LEMMA PushFifo == ASSUME IInv, FifoInv, PushNotification PROVE FifoInv'
<1> DEFINE f == pendingPushes
           n == nextPush
<1>1. f \in Seq(Pushes) /\ Len(f) \in Nat BY DEF IInv, ReqInv, RequestTypeOK
<1>2. n \in Pushes /\ n \in Nat /\ n' = n + 1 /\ ackOf' = ackOf BY DEF PushNotification
<1>3. UNCHANGED <<ws, sockets>> BY DEF PushNotification
<1>4. result \in [Pushes -> {"new", "pending", "accepted", "failed", "timeout"}]
  BY DEF IInv, ReqInv, RequestTypeOK
<1>5. /\ relayQ \in [Sockets -> Seq(Pushes)]
      /\ sentOn \in [Pushes -> {0} \cup Sockets]
      /\ ackOf \in [Pushes -> {0} \cup Pushes]
  BY DEF IInv, WireTypeOK
<1>6. DOMAIN f = 1..Len(f) /\ \A i \in 1..Len(f) : f[i] \in Nat /\ f[i] < n
  BY <1>1 DEF FifoInv, InOrder
<1>7. \A p \in Pushes \ {n} : sentOn'[p] = sentOn[p] /\ result'[p] = result[p]
  BY <1>4, <1>5 DEF PushNotification
<1>8. /\ \A p \in Pushes : result[p] = "pending" <=> \E i \in DOMAIN f : f[i] = p
      /\ \A i, j \in DOMAIN f : i < j => f[i] < f[j]
  BY DEF FifoInv, InOrder
<1>9. f' \in {f, Append(f, n)} BY DEF PushNotification
<1>10. /\ Len(Append(f, n)) = Len(f) + 1
       /\ Append(f, n)[Len(f) + 1] = n
       /\ \A i \in 1..Len(f) : Append(f, n)[i] = f[i]
       /\ DOMAIN Append(f, n) = 1..(Len(f) + 1)
  BY <1>1, <1>2, AppendProperties
<1>11. InOrder'
  <2>1. CASE state = "authenticated"
    <3>1. f' = Append(f, n) /\ result'[n] = "pending"
      BY <1>2, <1>4, <2>1 DEF PushNotification
    <3> HIDE DEF f, n
    <3>2. \A p \in Pushes : result'[p] = "pending" <=> \E i \in DOMAIN f' : f'[i] = p
      <4> TAKE p \in Pushes
      <4>1. CASE p = n
        <5>1. Len(f) + 1 \in DOMAIN f' /\ f'[Len(f) + 1] = p BY <1>1, <1>10, <3>1, <4>1
        <5> QED BY <3>1, <4>1, <5>1
      <4>2. CASE p # n
        <5>1. ASSUME NEW i \in DOMAIN f', f'[i] = p PROVE i \in 1..Len(f) /\ f[i] = p
          <6>1. i # Len(f) + 1 BY <1>10, <3>1, <4>2, <5>1
          <6>2. i \in 1..Len(f) BY <1>1, <1>10, <3>1, <6>1
          <6> QED BY <1>10, <3>1, <5>1, <6>2
        <5>2. ASSUME NEW i \in 1..Len(f), f[i] = p PROVE i \in DOMAIN f' /\ f'[i] = p
          BY <1>1, <1>10, <3>1, <5>2
        <5> QED BY <1>6, <1>7, <1>8, <4>2, <5>1, <5>2
      <4> QED BY <4>1, <4>2
    <3>3. \A i \in DOMAIN f' : f'[i] < n' BY <1>1, <1>2, <1>6, <1>10, <3>1
    <3>4. \A i, j \in DOMAIN f' : i < j => f'[i] < f'[j]
      <4> SUFFICES ASSUME NEW i \in DOMAIN f', NEW j \in DOMAIN f', i < j
                   PROVE  f'[i] < f'[j]
        OBVIOUS
      <4>1. i \in 1..Len(f) /\ (j \in 1..Len(f) \/ j = Len(f) + 1) BY <1>1, <1>10, <3>1
      <4> QED BY <1>6, <1>8, <1>10, <3>1, <4>1
    <3> QED BY <3>2, <3>3, <3>4 DEF InOrder, f, n
  <2>2. CASE state # "authenticated"
    <3>1. f = <<>> BY <2>2 DEF IInv, ReqInv, RequestsNeedSession
    <3>2. f' = <<>> /\ result'[n] = "failed"
      BY <1>2, <1>4, <2>2, <3>1 DEF PushNotification
    <3>3. \A p \in Pushes : result'[p] # "pending" BY <1>7, <1>8, <3>1, <3>2
    <3>4. DOMAIN f' = {} BY <3>2
    <3> QED BY <3>3, <3>4 DEF InOrder
  <2> QED BY <2>1, <2>2
<1>12. \A g \in Sockets : \A i \in DOMAIN relayQ[g] :
         relayQ[g][i] \in Pushes \ {n} /\ relayQ[g][i] < n /\ sentOn[relayQ[g][i]] = g
  <2> TAKE g \in Sockets
  <2> TAKE i \in DOMAIN relayQ[g]
  <2>1. relayQ[g] \in Seq(Pushes) BY <1>5
  <2>2. relayQ[g][i] \in Pushes BY <2>1
  <2> QED BY <2>2 DEF FifoInv, SentBefore
<1>13. ASSUME state = "authenticated", CanSend
       PROVE  /\ ws \in Sockets /\ relayQ[ws] \in Seq(Pushes) /\ Len(relayQ[ws]) \in Nat
              /\ sentOn'[n] = ws
              /\ relayQ'[ws] = Append(relayQ[ws], n)
              /\ \A g \in Sockets \ {ws} : relayQ'[g] = relayQ[g]
              /\ DOMAIN relayQ'[ws] = 1..(Len(relayQ[ws]) + 1)
              /\ Len(relayQ'[ws]) = Len(relayQ[ws]) + 1
              /\ relayQ'[ws][Len(relayQ[ws]) + 1] = n
              /\ \A i \in 1..Len(relayQ[ws]) : relayQ'[ws][i] = relayQ[ws][i]
  <2>1. ws \in Sockets /\ relayQ[ws] \in Seq(Pushes) /\ Len(relayQ[ws]) \in Nat
    BY <1>5, <1>13 DEF CanSend
  <2>2. /\ sentOn' = [sentOn EXCEPT ![n] = ws]
        /\ relayQ' = [relayQ EXCEPT ![ws] = Append(relayQ[ws], n)]
    BY <1>13 DEF PushNotification
  <2>3. relayQ'[ws] = Append(relayQ[ws], n) /\ sentOn'[n] = ws BY <1>2, <1>5, <2>1, <2>2
  <2>4. \A g \in Sockets \ {ws} : relayQ'[g] = relayQ[g] BY <1>5, <2>1, <2>2
  <2> HIDE DEF n
  <2> QED BY <1>2, <2>1, <2>3, <2>4, AppendProperties
<1>14. ~(state = "authenticated" /\ CanSend) => UNCHANGED <<relayQ, sentOn>>
  BY DEF PushNotification
<1>15. SentBefore'
  <2>1. \A p \in Pushes : ackOf'[p] # 0 =>
          p < n' /\ ackOf'[p] <= p /\ sentOn'[ackOf'[p]] = sentOn'[p]
    <3> SUFFICES ASSUME NEW p \in Pushes, ackOf[p] # 0
                 PROVE  p < n + 1 /\ ackOf[p] <= p /\ sentOn'[ackOf[p]] = sentOn'[p]
      BY <1>2
    <3>1. p < n /\ ackOf[p] <= p /\ sentOn[ackOf[p]] = sentOn[p]
      BY DEF FifoInv, SentBefore
    <3>2. ackOf[p] \in Pushes \ {n} /\ p \in Pushes \ {n} BY <1>2, <1>5, <3>1
    <3> QED BY <1>2, <1>7, <3>1, <3>2
  <2>2. \A g \in Sockets : \A i \in DOMAIN relayQ'[g] :
          relayQ'[g][i] < n' /\ sentOn'[relayQ'[g][i]] = g
    <3>1. CASE state = "authenticated" /\ CanSend
      <4> TAKE g \in Sockets
      <4> TAKE i \in DOMAIN relayQ'[g]
      <4>1. CASE g # ws
        <5>1. relayQ'[g] = relayQ[g] BY <1>13, <3>1, <4>1
        <5> QED BY <1>2, <1>7, <1>12, <5>1
      <4>2. CASE g = ws /\ i = Len(relayQ[ws]) + 1
        BY <1>2, <1>13, <3>1, <4>2
      <4>3. CASE g = ws /\ i # Len(relayQ[ws]) + 1
        <5>0. i \in 1..(Len(relayQ[ws]) + 1) /\ Len(relayQ[ws]) \in Nat BY <1>13, <3>1, <4>3
        <5>2. i \in 1..Len(relayQ[ws]) BY <4>3, <5>0
        <5>1. i \in DOMAIN relayQ[g] /\ relayQ'[g][i] = relayQ[g][i]
          BY <1>13, <3>1, <4>3, <5>2
        <5> QED BY <1>2, <1>7, <1>12, <5>1
      <4> QED BY <4>1, <4>2, <4>3
    <3>2. CASE ~(state = "authenticated" /\ CanSend)
      BY <1>2, <1>7, <1>12, <1>14, <3>2
    <3> QED BY <3>1, <3>2
  <2> QED BY <2>1, <2>2 DEF SentBefore
<1>16. Aligned'
  <2> SUFFICES ASSUME ws \in Sockets, sockets[ws] = "open" PROVE Aligned'
    BY <1>3 DEF Aligned
  <2>1. CanSend BY DEF CanSend
  <2>2. /\ Len(f) <= Len(relayQ[ws])
        /\ \A i \in 1..Len(f) : relayQ[ws][i] <= f[i] /\ sentOn[f[i]] = ws
    BY <1>6 DEF FifoInv, Aligned
  <2>3. CASE state # "authenticated"
    <3>1. f = <<>> BY <2>3 DEF IInv, ReqInv, RequestsNeedSession
    <3>2. f' = f /\ UNCHANGED <<relayQ, ws>> BY <1>3, <2>3 DEF PushNotification
    <3>3. DOMAIN f' = {} /\ Len(f') = Len(f) BY <3>1, <3>2
    <3> QED BY <2>2, <3>2, <3>3 DEF Aligned
  <2>4. CASE state = "authenticated"
    <3>1. f' = Append(f, n) BY <2>4 DEF PushNotification
    <3>2. \A i \in 1..Len(f) : f[i] \in Pushes \ {n} BY <1>1, <1>6
    <3>3. \A i \in 1..Len(f) : sentOn'[f[i]] = ws BY <1>7, <2>2, <3>2
    <3>4. \A i \in 1..Len(relayQ[ws]) : relayQ[ws][i] \in Nat /\ relayQ[ws][i] < n
      BY <1>12, <1>13, <2>1, <2>4
    <3> HIDE DEF f, n
    <3>5. Len(f') <= Len(relayQ'[ws]) BY <1>1, <1>10, <1>13, <2>1, <2>2, <2>4, <3>1
    <3>6. ASSUME NEW i \in DOMAIN f' PROVE relayQ'[ws][i] <= f'[i] /\ sentOn'[f'[i]] = ws
      <4>1. CASE i \in 1..Len(f)
        <5>1. f'[i] = f[i] /\ i \in 1..Len(relayQ[ws])
          BY <1>1, <1>10, <1>13, <2>1, <2>2, <2>4, <3>1, <4>1
        <5>2. relayQ'[ws][i] = relayQ[ws][i] BY <1>13, <2>1, <2>4, <5>1
        <5> QED BY <2>2, <3>3, <4>1, <5>1, <5>2
      <4>2. CASE i = Len(f) + 1
        <5>1. f'[i] = n BY <1>10, <3>1, <4>2
        <5>2. i \in 1..(Len(relayQ[ws]) + 1) BY <1>1, <1>13, <2>1, <2>2, <2>4, <4>2
        <5>3. relayQ'[ws][i] <= n
          <6>1. CASE i = Len(relayQ[ws]) + 1 BY <1>2, <1>13, <2>1, <2>4, <6>1
          <6>2. CASE i \in 1..Len(relayQ[ws]) BY <1>2, <1>13, <2>1, <2>4, <3>4, <6>2
          <6> QED BY <1>13, <2>1, <2>4, <5>2, <6>1, <6>2
        <5> QED BY <1>13, <2>1, <2>4, <5>1, <5>3
      <4> QED BY <1>1, <1>10, <3>1, <4>1, <4>2
    <3> QED BY <1>3, <3>5, <3>6 DEF Aligned, f
  <2> QED BY <2>3, <2>4
<1> QED BY <1>11, <1>15, <1>16 DEF FifoInv

\* What stays aligned when the i-th entry goes: the answers of the relay that
\* are left over settle later entries.
LEMMA PushTimeoutFifo == ASSUME IInv, FifoInv, PushTimeout PROVE FifoInv'
<1> DEFINE f == pendingPushes
<1>1. PICK i \in DOMAIN f :
        /\ result' = [result EXCEPT ![f[i]] = "timeout"]
        /\ f' = SubSeq(f, 1, i - 1) \o SubSeq(f, i + 1, Len(f))
        /\ UNCHANGED <<ws, sockets, relayQ, nextPush, sentOn, ackOf>>
  BY DEF PushTimeout, wire, history
<1>2. f \in Seq(Pushes) /\ Len(f) \in Nat /\ DOMAIN f = 1..Len(f)
  BY DEF IInv, ReqInv, RequestTypeOK
<1>3. /\ f' \in Seq(Pushes) /\ Len(f') = Len(f) - 1
      /\ \A j \in 1..Len(f') : f'[j] = IF j < i THEN f[j] ELSE f[j + 1]
  <2>1. f' = Cut(f, i) BY <1>1 DEF Cut
  <2>2. i \in 1..Len(f) BY <1>2
  <2> QED BY <1>2, <2>1, <2>2, CutProperties
<1>4. Taken(i) BY <1>1, <1>3 DEF Taken
<1>5. InOrder' BY <1>1, <1>2, <1>4, TakenInOrder DEF IInv, ReqInv, FifoInv
<1>6. SentBefore' BY <1>1 DEF FifoInv, SentBefore
<1>7. Aligned'
  <2> SUFFICES ASSUME ws \in Sockets, sockets[ws] = "open" PROVE Aligned'
    BY <1>1 DEF Aligned
  <2>1. /\ Len(f) <= Len(relayQ[ws])
        /\ \A j \in 1..Len(f) : relayQ[ws][j] <= f[j] /\ sentOn[f[j]] = ws
    BY <1>2 DEF FifoInv, Aligned
  <2>2. relayQ[ws] \in Seq(Pushes) /\ Len(relayQ[ws]) \in Nat BY DEF IInv, WireTypeOK
  <2>3. \A j, k \in 1..Len(f) : j < k => f[j] < f[k] BY <1>2 DEF FifoInv, InOrder
  <2>4. DOMAIN f' = 1..Len(f') BY <1>3
  <2>5. \A j \in 1..Len(f) : f[j] \in Nat BY <1>2
  <2>6. \A j \in 1..Len(relayQ[ws]) : relayQ[ws][j] \in Nat BY <2>2
  <2> HIDE DEF f
  <2>7. ASSUME NEW j \in 1..Len(f') PROVE relayQ[ws][j] <= f'[j] /\ sentOn[f'[j]] = ws
    <3>0. j \in 1..(Len(f) - 1) BY <1>3
    <3>1. j \in 1..Len(f) /\ j + 1 \in 1..Len(f) /\ j \in 1..Len(relayQ[ws])
      <4>1. j \in 1..Len(f) /\ j + 1 \in 1..Len(f) BY <1>2, <3>0
      <4>2. Len(f) <= Len(relayQ[ws]) BY <2>1
      <4> QED BY <1>2, <2>2, <4>1, <4>2
    <3>2. relayQ[ws][j] <= f[j] /\ f[j] < f[j + 1] /\ sentOn[f[j]] = ws /\ sentOn[f[j + 1]] = ws
      BY <2>1, <2>3, <3>1
    <3>3. relayQ[ws][j] \in Nat /\ f[j] \in Nat /\ f[j + 1] \in Nat BY <2>5, <2>6, <3>1
    <3>4. f'[j] = f[j] \/ f'[j] = f[j + 1] BY <1>3
    <3> QED BY <3>2, <3>3, <3>4
  <2>8. Len(f') <= Len(relayQ[ws]) BY <1>2, <1>3, <2>1, <2>2
  <2> QED BY <1>1, <2>4, <2>7, <2>8 DEF Aligned, f
<1> QED BY <1>5, <1>6, <1>7 DEF FifoInv

LEMMA TailProperties ==
    ASSUME NEW S, NEW s \in Seq(S), s # <<>>
    PROVE  /\ Tail(s) \in Seq(S) /\ Len(s) \in Nat \ {0} /\ Len(Tail(s)) = Len(s) - 1
           /\ DOMAIN Tail(s) = 1..(Len(s) - 1)
           /\ \A j \in 1..(Len(s) - 1) : Tail(s)[j] = s[j + 1]
           /\ Head(s) = s[1] /\ s[1] \in S
<1>1. Len(s) \in Nat \ {0} OBVIOUS
<1>2. Head(s) = s[1] /\ s[1] \in S BY <1>1
<1>3. /\ Tail(s) \in Seq(S) /\ Len(Tail(s)) = Len(s) - 1
      /\ \A j \in 1..Len(Tail(s)) : Tail(s)[j] = s[j + 1]
  BY HeadTailProperties
<1> QED BY <1>1, <1>2, <1>3

LEMMA PushResultFifo ==
    ASSUME IInv, FifoInv, NEW b \in BOOLEAN, PushResult(b) PROVE FifoInv'
<1> DEFINE f == pendingPushes
           q == relayQ[generation]
<1>1. /\ f \in Seq(Pushes) /\ Len(f) \in Nat /\ DOMAIN f = 1..Len(f)
      /\ relayQ \in [Sockets -> Seq(Pushes)]
      /\ ackOf \in [Pushes -> {0} \cup Pushes]
  BY DEF IInv, ReqInv, RequestTypeOK, WireTypeOK
<1>2. /\ generation \in Sockets /\ sockets[generation] = "open" /\ ws = generation
      /\ q # <<>> /\ relayQ' = [relayQ EXCEPT ![generation] = Tail(q)]
      /\ UNCHANGED <<generation, ws, sockets, nextPush, sentOn>>
  BY DEF PushResult, Heard, IInv, ConnInv, OneConnection
<1>3. q \in Seq(Pushes) BY <1>1, <1>2
<1>4. /\ relayQ'[generation] = Tail(q)
      /\ \A g \in Sockets \ {generation} : relayQ'[g] = relayQ[g]
  BY <1>1, <1>2
<1> HIDE DEF q
<1>5. /\ Len(q) \in Nat \ {0} /\ Len(Tail(q)) = Len(q) - 1
      /\ DOMAIN Tail(q) = 1..(Len(q) - 1)
      /\ \A j \in 1..(Len(q) - 1) : Tail(q)[j] = q[j + 1]
      /\ Head(q) = q[1] /\ q[1] \in Pushes
  BY <1>2, <1>3, TailProperties
<1>6. DOMAIN q = 1..Len(q) BY <1>3
<1>7. /\ Len(f) <= Len(q)
      /\ \A j \in 1..Len(f) : q[j] <= f[j] /\ sentOn[f[j]] = generation
  BY <1>1, <1>2 DEF FifoInv, Aligned, q
<1>8. \A j \in 1..Len(q) : q[j] < nextPush /\ sentOn[q[j]] = generation
  BY <1>2, <1>6 DEF FifoInv, SentBefore, q
<1>9. \A g \in Sockets : \A i \in DOMAIN relayQ'[g] :
        relayQ'[g][i] < nextPush /\ sentOn[relayQ'[g][i]] = g
  <2> TAKE g \in Sockets
  <2> TAKE i \in DOMAIN relayQ'[g]
  <2>1. CASE g = generation
    <3>1. i \in 1..(Len(q) - 1) /\ i + 1 \in 1..Len(q) /\ relayQ'[g][i] = q[i + 1]
      BY <1>4, <1>5, <2>1
    <3> QED BY <1>8, <2>1, <3>1
  <2>2. CASE g # generation
    BY <1>4, <2>2 DEF FifoInv, SentBefore
  <2> QED BY <2>1, <2>2
<1>10. CASE f = <<>>
  <2>1. UNCHANGED <<pendingPushes, result, ackOf>> BY <1>10 DEF PushResult
  <2>2. InOrder' BY <1>2, <2>1 DEF FifoInv, InOrder
  <2>3. SentBefore' BY <1>2, <1>9, <2>1 DEF FifoInv, SentBefore
  <2>4. DOMAIN f' = {} /\ Len(f') = 0 BY <1>10, <2>1
  <2>5. Len(f') <= Len(relayQ'[ws']) BY <1>2, <1>4, <1>5, <2>4
  <2>6. Aligned' BY <2>4, <2>5 DEF Aligned
  <2> QED BY <2>2, <2>3, <2>6 DEF FifoInv
<1>11. CASE f # <<>>
  <2>1. /\ f' = Tail(f)
        /\ result' = [result EXCEPT ![Head(f)] = IF b THEN "accepted" ELSE "failed"]
        /\ ackOf' = [ackOf EXCEPT ![Head(f)] = Head(q)]
    BY <1>11 DEF PushResult, q
  <2>2. /\ Tail(f) \in Seq(Pushes) /\ Len(f) \in Nat \ {0} /\ Len(Tail(f)) = Len(f) - 1
        /\ DOMAIN Tail(f) = 1..(Len(f) - 1)
        /\ \A j \in 1..(Len(f) - 1) : Tail(f)[j] = f[j + 1]
        /\ Head(f) = f[1] /\ f[1] \in Pushes
    BY <1>1, <1>11, TailProperties
  <2>3. Taken(1)
    <3>1. \A j \in 1..Len(f') : f'[j] = f[j + 1] /\ ~(j < 1) BY <2>1, <2>2
    <3>2. \E v \in {"accepted", "failed", "timeout"} : result' = [result EXCEPT ![f[1]] = v]
      BY <2>1, <2>2
    <3>3. f' \in Seq(Pushes) /\ Len(f') = Len(f) - 1 BY <2>1, <2>2
    <3> QED BY <3>1, <3>2, <3>3 DEF Taken
  <2>4. InOrder'
    <3>1. 1 \in 1..Len(pendingPushes) BY <2>2
    <3> HIDE DEF f
    <3> QED BY <1>2, <2>3, <3>1, TakenInOrder DEF IInv, ReqInv, FifoInv
  <2>5. f[1] < nextPush
    <3>1. 1 \in DOMAIN f BY <1>1, <2>2
    <3> QED BY <3>1 DEF FifoInv, InOrder
  <2>6. q[1] <= f[1] /\ sentOn[q[1]] = sentOn[f[1]] BY <1>5, <1>7, <1>8, <2>2
  <2>7. \A p \in Pushes : ackOf'[p] # 0 =>
          p < nextPush /\ ackOf'[p] <= p /\ sentOn[ackOf'[p]] = sentOn[p]
    <3> TAKE p \in Pushes
    <3>1. CASE p = f[1]
      <4>1. ackOf'[p] = q[1] BY <1>1, <1>5, <2>1, <2>2, <3>1
      <4> QED BY <2>5, <2>6, <3>1, <4>1
    <3>2. CASE p # f[1]
      <4>1. ackOf'[p] = ackOf[p] BY <1>1, <2>1, <2>2, <3>2
      <4> QED BY <4>1 DEF FifoInv, SentBefore
    <3> QED BY <3>1, <3>2
  <2>8. SentBefore' BY <1>2, <1>9, <2>7 DEF SentBefore
  <2>9. Aligned'
    <3>1. Len(f') <= Len(relayQ'[ws']) BY <1>2, <1>4, <1>5, <1>7, <2>1, <2>2
    <3>2. ASSUME NEW j \in DOMAIN f' PROVE relayQ'[ws'][j] <= f'[j] /\ sentOn[f'[j]] = ws
      <4>1. j \in 1..(Len(f) - 1) /\ j \in 1..(Len(q) - 1) /\ j + 1 \in 1..Len(f)
        BY <1>1, <1>5, <1>7, <2>1, <2>2
      <4>2. f'[j] = f[j + 1] /\ relayQ'[ws'][j] = q[j + 1]
        BY <1>2, <1>4, <1>5, <2>1, <2>2, <4>1
      <4> QED BY <1>2, <1>7, <4>1, <4>2
    <3> QED BY <1>2, <3>1, <3>2 DEF Aligned
  <2> QED BY <2>4, <2>8, <2>9 DEF FifoInv
<1> QED BY <1>10, <1>11

LEMMA NextFifo == IInv /\ FifoInv /\ [Next]_vars => FifoInv'
BY NextPassive, PassiveFifo, PushFifo, PushTimeoutFifo, PushResultFifo

LEMMA FifoImplies == RequestTypeOK /\ FifoInv => NoLostPromise
<1> SUFFICES ASSUME RequestTypeOK, FifoInv PROVE NoLostPromise OBVIOUS
<1>1. ASSUME NEW i \in DOMAIN pendingPushes, NEW j \in DOMAIN pendingPushes,
             pendingPushes[i] = pendingPushes[j]
      PROVE  i = j
  <2>1. pendingPushes \in Seq(Pushes) BY DEF RequestTypeOK
  <2>2. i \in Nat /\ j \in Nat /\ pendingPushes[i] \in Nat BY <2>1
  <2>3. ~(i < j) /\ ~(j < i) BY <1>1, <2>2 DEF FifoInv, InOrder
  <2> QED BY <2>2, <2>3
<1> QED BY <1>1 DEF FifoInv, InOrder, SentBefore, NoLostPromise

\* relay-connection.js 168-175, 602-625, 816-850: the promise of a push is settled exactly once,
\* by an acknowledgement of its own connection for it or for an earlier push,
\* by its timer or by the end of the session, however acknowledgements, timers
\* and lost connections interleave.
THEOREM PushesSettledOnce == Spec => []NoLostPromise
<1>1. IInv /\ FifoInv /\ [Next]_vars => FifoInv' BY NextFifo
<1>2. IInv /\ FifoInv => NoLostPromise BY FifoImplies DEF IInv, ReqInv
<1> QED BY InitFifo, Invariant, <1>1, <1>2, PTL DEF Spec
-----------------------------------------------------------------------------
(* The session, as the application sees it *)

\* A service that is stopped has no socket in use, and a push not sent yet has
\* no verdict.
SessionInv ==
    /\ stopped => ws = 0 /\ state \notin Active
    /\ \A p \in Pushes : p >= nextPush => result[p] = "new"

ServiceInv == IInv /\ FifoInv /\ SessionInv

LEMMA InitSession == Init => SessionInv
BY DEF Init, SessionInv

\* What every step does that is not one of a request: it may end the session
\* but not begin one, and not stop or start the service while one lasts.
Moves ==
    /\ SetState(state')
    /\ nextPush' = nextPush
    /\ stopped' \in BOOLEAN
    /\ stopped' => ws' = 0 /\ state' \notin Active
    /\ state' = "authenticated" => state = "authenticated" /\ stopped' = stopped

\* A socket of the present generation is heard only while the service runs.
LEMMA ListensRunning ==
    ASSUME ServiceInv, NEW g \in Sockets, sockets[g] \in {"connecting", "open"}
    PROVE  stopped = FALSE /\ g = ws /\ g = generation
BY DEF ServiceInv, IInv, ConnInv, ConnTypeOK, ModeTypeOK, OneConnection, SessionInv

LEMMA RetryMoves ==
    ASSUME ServiceInv, DropAndRetry, UNCHANGED nextPush PROVE Moves
<1>1. SetState(state') BY DEF DropAndRetry, ScheduleReconnect, SetState
<1>2. state' \notin Active
  BY DEF ServiceInv, IInv, ConnInv, ConnTypeOK, ModeTypeOK, DropAndRetry, ScheduleReconnect,
         SetState, AfterDrop, States, Active, Handshake
<1>3. ws' = 0 /\ stopped' = stopped BY DEF DropAndRetry, DropSocket
<1>4. stopped \in BOOLEAN BY DEF ServiceInv, IInv, ConnInv, ConnTypeOK, ModeTypeOK
<1> QED BY <1>1, <1>2, <1>3, <1>4 DEF Moves, Active

LEMMA QuietMoves ==
    ASSUME ServiceInv, UNCHANGED <<session, ws, requests, nextPush>> PROVE Moves
BY DEF ServiceInv, IInv, ConnInv, ConnTypeOK, ModeTypeOK, SessionInv, Moves, SetState,
       session, requests, Active

\* connect() is refused to a stopped service and in a session.
LEMMA ConnectMoves ==
    ASSUME ServiceInv, NEW c \in Handed, Connect(c), UNCHANGED nextPush,
           c.stopped => c.ws = 0 /\ c.state \notin Active,
           c.state = "authenticated" => state = "authenticated" /\ c.stopped = stopped
    PROVE  Moves
<1>1. SetState(state')
  BY DEF Connect, ConnectRefused, ConnectThrows, ConnectOpens, Ends, SetState
<1>2. c.stopped \in BOOLEAN BY DEF Handed
<1>3. stopped' = c.stopped
  <2>1. CASE ConnectRefused(c)
    <3>1. PICK s : Ends([c EXCEPT !.state = s]) BY <2>1 DEF ConnectRefused
    <3> QED BY <1>2, <3>1 DEF Ends, Handed
  <2>2. CASE ConnectThrows(c) BY <1>2, <2>2 DEF ConnectThrows, Ends, Handed
  <2>3. CASE ConnectOpens(c) BY <1>2, <2>3 DEF ConnectOpens, Ends, Handed
  <2>4. CASE Ends(c) BY <1>2, <2>4 DEF Ends
  <2> QED BY Zenon, <2>1, <2>2, <2>3, <2>4 DEF Connect
<1>4. \/ state' = c.state /\ ws' = c.ws
      \/ ~c.stopped /\ state' # "authenticated"
  <2>1. CASE ~MayConnect(c) /\ Ends(c) BY <2>1 DEF Ends, SetState
  <2>2. CASE ConnectRefused(c)
    BY <2>2 DEF ConnectRefused, MayConnect, Ends, SetState, Handed
  <2>3. CASE ConnectThrows(c)
    BY <2>3 DEF ConnectThrows, MayConnect, Ends, SetState, Handed
  <2>4. CASE ConnectOpens(c)
    BY <2>4 DEF ConnectOpens, MayConnect, Ends, SetState, Handed
  <2> QED BY <2>1, <2>2, <2>3, <2>4 DEF Connect
<1> QED BY <1>1, <1>2, <1>3, <1>4 DEF Moves

LEMMA CallMoves ==
    ASSUME ServiceInv, Start \/ Reconnect \/ ReconnectTimeout \/ Disconnect \/ Shutdown
    PROVE  Moves
<1>0. /\ IInv /\ ConnInv /\ stopped \in BOOLEAN
      /\ stopped => ws = 0 /\ state \notin Active
  BY DEF ServiceInv, IInv, SessionInv, ConnInv, ConnTypeOK, ModeTypeOK
<1>1. CASE Start
  <2> DEFINE c == [Now EXCEPT !.stopped = FALSE, !.backoffIndex = 0]
  <2>1. Connect(c) /\ UNCHANGED nextPush BY <1>1 DEF Start, history
  <2>2. 0 \in Backoffs BY DEF Backoffs
  <2>3. c \in Handed BY <1>0, <2>2, NowReady DEF Handed, Now
  <2>4. c.stopped = FALSE /\ c.state = state BY DEF Now
  <2>5. state = "authenticated" => stopped = FALSE BY <1>0 DEF Active
  <2> HIDE DEF c
  <2> QED BY <2>1, <2>3, <2>4, <2>5, ConnectMoves
<1>2. CASE ReconnectTimeout
  <2> DEFINE c == [Now EXCEPT !.reconnectTimer = FALSE]
  <2>1. Connect(c) /\ UNCHANGED nextPush BY <1>2 DEF ReconnectTimeout, history
  <2>3. c \in Handed BY <1>0, NowReady DEF Handed, Now
  <2>4. c.stopped = stopped /\ c.state = state /\ c.ws = ws BY DEF Now
  <2> HIDE DEF c
  <2> QED BY <1>0, <2>1, <2>3, <2>4, ConnectMoves
<1>3. CASE Reconnect
  <2>1. Connect(Dropped) /\ UNCHANGED nextPush BY <1>3 DEF Reconnect, history
  <2>2. Dropped \in Handed /\ Dropped.state \notin Active
    BY <1>0, <1>3, DroppedReady DEF Reconnect
  <2>3. Dropped.stopped = FALSE BY DEF Dropped
  <2> QED BY <2>1, <2>2, <2>3, ConnectMoves DEF Active
<1>4. CASE Disconnect
  BY <1>4 DEF Disconnect, DropSocket, SetState, Moves, history, Active, Handshake
<1>5. CASE Shutdown
  <2>1. /\ RejectRequests /\ state' = "stopped" /\ ws' = 0 /\ stopped' = TRUE
        /\ UNCHANGED nextPush
    BY <1>5 DEF Shutdown, history
  <2>2. CASE state = "authenticated"
    BY <2>1, <2>2 DEF SetState, Moves, Active, Handshake
  <2>3. CASE state # "authenticated"
    <3>1. pendingPushes = <<>> /\ pendingRemovals = {} /\ contexts = {}
      BY <1>0, <2>3 DEF IInv, ReqInv, RequestsNeedSession
    <3>2. DOMAIN pendingPushes = {} BY <3>1
    <3>3. result' = [p \in Pushes |-> result[p]] BY <2>1, <3>2 DEF RejectRequests
    <3>4. result' = result BY <1>0, <3>3 DEF IInv, ReqInv, RequestTypeOK
    <3>5. UNCHANGED requests BY <2>1, <3>1, <3>4 DEF RejectRequests, requests
    <3> QED BY <2>1, <2>3, <3>5 DEF SetState, Moves, Active, Handshake
  <2> QED BY <2>2, <2>3
<1> QED BY <1>1, <1>2, <1>3, <1>4, <1>5

LEMMA SocketMoves ==
    ASSUME ServiceInv, NEW g \in Sockets, SocketOpen(g) \/ PeerCloses(g) \/ SocketClose(g)
    PROVE  Moves
<1>1. CASE SocketOpen(g)
  <2>1. stopped = FALSE /\ g = generation BY <1>1, ListensRunning DEF SocketOpen
  <2>2. SetState("waiting_for_challenge") /\ UNCHANGED <<stopped, ws, nextPush>>
    BY <1>1, <2>1 DEF SocketOpen, history
  <2> QED BY <2>1, <2>2 DEF SetState, Moves
<1>2. CASE PeerCloses(g) BY <1>2, QuietMoves DEF PeerCloses, history
<1>3. CASE SocketClose(g) /\ g # generation
  BY <1>3, QuietMoves DEF SocketClose, session, history
<1>4. CASE SocketClose(g) /\ g = generation
  <2>1. ws' = 0 /\ UNCHANGED <<stopped, nextPush>> BY <1>4 DEF SocketClose, history
  <2>2. stopped \in BOOLEAN BY DEF ServiceInv, IInv, ConnInv, ConnTypeOK, ModeTypeOK
  <2>3. CASE stopped
    BY <1>4, <2>1, <2>2, <2>3 DEF SocketClose, SetState, Moves, Active, Handshake
  <2>4. CASE ~stopped /\ state = "failed"
    BY <1>4, <2>1, <2>2, <2>4 DEF SocketClose, SetState, Moves, requests
  <2>5. CASE ~stopped /\ state # "failed"
    BY <1>4, <2>1, <2>2, <2>5 DEF SocketClose, ScheduleReconnect, SetState, Moves
  <2> QED BY <2>3, <2>4, <2>5
<1> QED BY <1>1, <1>2, <1>3, <1>4

LEMMA NextMoves ==
    ASSUME ServiceInv, [Next]_vars
    PROVE  \/ Moves \/ PushNotification \/ PushTimeout \/ TunnelStart
           \/ \E b \in BOOLEAN : Authenticated(b)
           \/ \E b \in BOOLEAN : PushResult(b)
           \/ \E r \in Removals : RemoveLink(r)
           \/ \E r \in Removals : RemovalSettled(r)
           \/ \E g \in contexts : TunnelDone(g)
<1>1. CASE Message
  <2>1. CASE BadMessage BY <2>1, RetryMoves DEF BadMessage, ProtocolAbort, history
  <2>2. CASE AuthRejected
    <3>1. CASE ~(authFailures + 1 >= MaxAuthFailures)
      BY <2>2, <3>1, RetryMoves DEF AuthRejected, DropAndRetry, history
    <3>2. CASE authFailures + 1 >= MaxAuthFailures
      <4>1. /\ SetState("failed") /\ ws' = 0
            /\ UNCHANGED <<stopped, nextPush>>
        BY <2>2, <3>2 DEF AuthRejected, DropSocket, history
      <4>2. stopped \in BOOLEAN BY DEF ServiceInv, IInv, ConnInv, ConnTypeOK, ModeTypeOK
      <4> QED BY <4>1, <4>2 DEF SetState, Moves, Active, Handshake
    <3> QED BY <3>1, <3>2
  <2>3. CASE Replaced
    BY <2>3 DEF Replaced, DropSocket, SetState, Moves, history, Active, Handshake
  <2>4. CASE \E c \in Sockets : Challenge(c)
    <3>1. PICK c \in Sockets : Challenge(c) BY <2>4
    <3>2. stopped = FALSE BY <3>1, ListensRunning DEF Challenge, Heard
    <3>3. SetState("authenticating") /\ UNCHANGED <<stopped, nextPush>>
      BY <3>1 DEF Challenge, history
    <3> QED BY <3>2, <3>3 DEF SetState, Moves
  <2> QED BY <1>1, <2>1, <2>2, <2>3, <2>4 DEF Message
<1>2. CASE Signature
  <2>1. PICK s \in signing : Signed(s) \/ SignFailed(s) BY <1>2 DEF Signature
  <2>2. CASE Signed(s) BY <2>2, QuietMoves DEF Signed, history
  <2>3. CASE SignFailed(s) /\ s.gen = generation
    BY <2>3, RetryMoves DEF SignFailed, ProtocolAbort, history
  <2>4. CASE SignFailed(s) /\ s.gen # generation
    BY <2>4, QuietMoves DEF SignFailed, history
  <2> QED BY <2>1, <2>2, <2>3, <2>4
<1>3. CASE NextEvent
  <2>1. CASE AuthTimeout /\ ~DropAndRetry BY <2>1, QuietMoves DEF AuthTimeout, history
  <2>2. CASE AuthTimeout /\ DropAndRetry BY <2>2, RetryMoves DEF AuthTimeout, history
  <2>3. CASE IdleTimeout BY <2>3, RetryMoves DEF IdleTimeout, history
  <2>4. CASE SocketEvent BY <2>4, SocketMoves DEF SocketEvent
  <2>5. CASE Start \/ Reconnect \/ ReconnectTimeout \/ Disconnect \/ Shutdown
    BY <2>5, CallMoves
  <2> QED BY <1>3, <2>1, <2>2, <2>3, <2>4, <2>5 DEF NextEvent, Timer, Call
<1>4. CASE UNCHANGED vars BY <1>4, QuietMoves DEF vars, history
<1> QED BY <1>1, <1>2, <1>3, <1>4 DEF Next

\* Every step keeps the invariant and is one of the session, or none.
Serves == Sessions!Next \/ UNCHANGED Sessions!vars

LEMMA MovesServe ==
    ASSUME ServiceInv, Moves PROVE SessionInv' /\ Serves
<1>1. CASE state = "authenticated" /\ state' # "authenticated"
  <2>1. RejectRequests BY <1>1 DEF Moves, SetState
  <2>2. \A p \in Pushes :
          result[p] = "pending" <=> \E i \in DOMAIN pendingPushes : pendingPushes[i] = p
    BY DEF ServiceInv, FifoInv, InOrder
  <2>3. result' = [p \in Pushes |-> IF result[p] = "pending" THEN "failed" ELSE result[p]]
    BY <2>1, <2>2 DEF RejectRequests
  <2>4. Sessions!End
    BY <1>1, <2>1, <2>3 DEF Moves, RejectRequests, Sessions!End
  <2>5. SessionInv' BY <2>3 DEF ServiceInv, SessionInv, Moves
  <2> QED BY <2>4, <2>5 DEF Serves, Sessions!Next
<1>2. CASE ~(state = "authenticated" /\ state' # "authenticated")
  <2>1. UNCHANGED requests BY <1>2 DEF Moves, SetState
  <2>2. SessionInv' BY <2>1 DEF ServiceInv, SessionInv, Moves, requests
  <2>3. CASE stopped' = stopped
    <3>1. UNCHANGED Sessions!vars
      BY <1>2, <2>1, <2>3 DEF Moves, requests, Sessions!vars
    <3> QED BY <2>2, <3>1 DEF Serves
  <2>4. CASE stopped' # stopped
    <3>1. stopped \in BOOLEAN BY DEF ServiceInv, IInv, ConnInv, ConnTypeOK, ModeTypeOK
    <3>2. state # "authenticated" /\ state' # "authenticated" BY <1>2, <2>4 DEF Moves
    <3>3. Sessions!Switch
      BY <2>1, <2>4, <3>1, <3>2 DEF Moves, requests, Sessions!Switch
    <3> QED BY <2>2, <3>3 DEF Serves, Sessions!Next
  <2> QED BY <2>3, <2>4
<1> QED BY <1>1, <1>2

LEMMA AuthenticatedServes ==
    ASSUME ServiceInv, NEW b \in BOOLEAN, Authenticated(b) PROVE SessionInv' /\ Serves
<1>1. stopped = FALSE BY ListensRunning DEF Authenticated, Heard
<1>2. /\ state = "authenticating" /\ state' = "authenticated"
      /\ UNCHANGED <<stopped, nextPush, pendingPushes, pendingRemovals, contexts, result>>
  BY DEF Authenticated, SetState, requests, history
<1>3. Sessions!Authenticate BY <1>1, <1>2 DEF Sessions!Authenticate
<1>4. SessionInv' BY <1>1, <1>2 DEF ServiceInv, SessionInv
<1> QED BY <1>3, <1>4 DEF Serves, Sessions!Next

LEMMA PushServes == ASSUME ServiceInv, PushNotification PROVE SessionInv' /\ Serves
<1>1. /\ nextPush \in Pushes /\ nextPush' = nextPush + 1 /\ nextPush \in Nat
      /\ UNCHANGED <<state, stopped, ws, pendingRemovals, contexts>>
  BY DEF PushNotification, session
<1>2. result[nextPush] = "new" BY <1>1 DEF ServiceInv, SessionInv
<1>3. result' = [result EXCEPT ![nextPush] =
                   IF state = "authenticated" THEN "pending" ELSE "failed"]
  BY DEF PushNotification
<1>4. Sessions!Push(nextPush) BY <1>1, <1>2, <1>3 DEF Sessions!Push
<1>5. SessionInv'
  <2>1. \A p \in Pushes : p >= nextPush' => result'[p] = "new"
    BY <1>1, <1>3 DEF ServiceInv, SessionInv, IInv, ReqInv, RequestTypeOK
  <2> QED BY <1>1, <2>1 DEF ServiceInv, SessionInv
<1> QED BY <1>1, <1>4, <1>5 DEF Serves, Sessions!Next

\* A push that is taken out of the FIFO and settled.
LEMMA SettledServes ==
    ASSUME ServiceInv, NEW i \in DOMAIN pendingPushes, NEW v \in Sessions!Verdicts,
           result' = [result EXCEPT ![pendingPushes[i]] = v],
           UNCHANGED <<session, ws, nextPush, pendingRemovals, contexts>>
    PROVE  SessionInv' /\ Serves
<1> DEFINE p == pendingPushes[i]
<1>1. p \in Pushes /\ p \in Nat /\ p < nextPush /\ result[p] = "pending"
  BY DEF ServiceInv, FifoInv, InOrder, IInv, ReqInv, RequestTypeOK
<1>2. state = "authenticated" BY DEF ServiceInv, IInv, ReqInv, RequestsNeedSession
<1>3. Sessions!Settle(p) BY <1>1, <1>2 DEF Sessions!Settle, session
<1>4. \A q \in Pushes : q >= nextPush' => result'[q] = "new"
  <2> SUFFICES ASSUME NEW q \in Pushes, q >= nextPush PROVE result'[q] = "new"
    BY DEF session
  <2>1. q # p BY <1>1 DEF ServiceInv, IInv, WireTypeOK
  <2> QED BY <2>1 DEF ServiceInv, SessionInv, IInv, ReqInv, RequestTypeOK
<1>5. SessionInv' BY <1>4 DEF ServiceInv, SessionInv, session
<1> QED BY <1>1, <1>3, <1>5 DEF Serves, Sessions!Next

LEMMA PushResultServes ==
    ASSUME ServiceInv, NEW b \in BOOLEAN, PushResult(b) PROVE SessionInv' /\ Serves
<1>1. UNCHANGED <<session, ws, nextPush, pendingRemovals, contexts>> BY DEF PushResult
<1>2. CASE pendingPushes # <<>>
  <2>1. 1 \in DOMAIN pendingPushes /\ Head(pendingPushes) = pendingPushes[1]
    BY <1>2 DEF ServiceInv, IInv, ReqInv, RequestTypeOK
  <2> DEFINE v == IF b THEN "accepted" ELSE "failed"
  <2>2. v \in Sessions!Verdicts BY DEF Sessions!Verdicts
  <2>3. result' = [result EXCEPT ![pendingPushes[1]] = v] BY <1>2, <2>1 DEF PushResult
  <2> HIDE DEF v
  <2> QED BY <1>1, <2>1, <2>2, <2>3, SettledServes
<1>3. CASE pendingPushes = <<>>
  <2>1. UNCHANGED <<result, pendingPushes>> BY <1>3 DEF PushResult
  <2>2. Moves BY <1>1, <2>1, QuietMoves DEF requests
  <2> QED BY <2>2, MovesServe
<1> QED BY <1>2, <1>3

LEMMA RequestServes ==
    ASSUME ServiceInv,
           \/ PushTimeout \/ TunnelStart
           \/ \E r \in Removals : RemoveLink(r)
           \/ \E r \in Removals : RemovalSettled(r)
           \/ \E g \in contexts : TunnelDone(g)
    PROVE  SessionInv' /\ Serves
<1>1. CASE PushTimeout
  <2>1. PICK i \in DOMAIN pendingPushes :
          /\ result' = [result EXCEPT ![pendingPushes[i]] = "timeout"]
          /\ UNCHANGED <<session, ws, nextPush, pendingRemovals, contexts>>
    BY <1>1 DEF PushTimeout, history
  <2>2. "timeout" \in Sessions!Verdicts BY DEF Sessions!Verdicts
  <2> QED BY <2>1, <2>2, SettledServes
<1>2. CASE ~PushTimeout
  <2>1. SessionInv'
    BY <1>2 DEF ServiceInv, SessionInv, TunnelStart, RemoveLink, RemovalSettled, TunnelDone,
                session, history
  <2>2. CASE TunnelStart
    <3>1. Sessions!Tunnel(TRUE) BY <2>2 DEF TunnelStart, session, Sessions!Tunnel
    <3> QED BY <2>1, <3>1 DEF Serves, Sessions!Next
  <2>3. CASE \E r \in Removals : RemoveLink(r)
    <3>1. PICK r \in Removals : RemoveLink(r) BY <2>3
    <3>2. Sessions!Remove(r) BY <3>1 DEF RemoveLink, session, Sessions!Remove
    <3> QED BY <2>1, <3>2 DEF Serves, Sessions!Next
  <2>4. CASE \E r \in Removals : RemovalSettled(r)
    <3>1. PICK r \in Removals : RemovalSettled(r) BY <2>4
    <3>2. Sessions!Removed(r) BY <3>1 DEF RemovalSettled, session, Sessions!Removed
    <3> QED BY <2>1, <3>2 DEF Serves, Sessions!Next
  <2>5. CASE \E g \in contexts : TunnelDone(g)
    <3>1. PICK g \in contexts : TunnelDone(g) BY <2>5
    <3>2. state = "authenticated" BY DEF ServiceInv, IInv, ReqInv, RequestsNeedSession
    <3>3. Sessions!Tunnel(contexts' # {})
      BY <3>1, <3>2 DEF TunnelDone, session, Sessions!Tunnel
    <3> QED BY <2>1, <3>3 DEF Serves, Sessions!Next
  <2> QED BY <1>2, <2>2, <2>3, <2>4, <2>5
<1> QED BY <1>1, <1>2

\* The connection implements the session service: whatever order calls,
\* timers, late events and messages of the relay come in, the application sees
\* sessions that begin only while the service runs and that settle what was
\* asked in them.
THEOREM ServesTheSession == Spec => ServesSessions
<1>1. Init => Sessions!Init
  BY DEF Init, Sessions!Init
<1>2. ServiceInv /\ [Next]_vars => SessionInv' /\ [Sessions!Next]_(Sessions!vars)
  BY NextMoves, MovesServe, AuthenticatedServes, PushServes, PushResultServes, RequestServes
  DEF Serves
<1>3. ServiceInv /\ [Next]_vars => FifoInv' BY NextFifo DEF ServiceInv
<1>4. IInv /\ FifoInv /\ SessionInv <=> ServiceInv BY DEF ServiceInv
<1> QED BY InitFifo, InitSession, Invariant, <1>1, <1>2, <1>3, <1>4, PTL
        DEF Spec, ServesSessions, Sessions!Spec
=============================================================================
