---------------------------- MODULE RequestStreams ----------------------------
(***************************************************************************)
(* What the origin promises the relay for the requests it has accepted, as *)
(* the relay sees it on the WebSocket: an answer is a head, parts numbered *)
(* from 0 without a gap and one end; it may be cut off by a cancellation,  *)
(* or by silence when the connection is gone; nothing follows a request    *)
(* that is over, and no request outlives its connection.                   *)
(***************************************************************************)
EXTENDS Naturals, Sequences

CONSTANTS Requests,   \* the requests, in no particular order
          MaxParts    \* the parts an answer may have

VARIABLES connected,  \* there is an authenticated connection
          accepted,   \* requests accepted so far
          live,       \* those that are not over
          stream      \* the messages sent for each

vars == <<connected, accepted, live, stream>>

Start == [type |-> "start", seq |-> 0]
Body(n) == [type |-> "body", seq |-> n]
End == [type |-> "end", seq |-> 0]
Cancel == [type |-> "cancel", seq |-> 0]

(* An answer so far: nothing, or the head and n parts.                     *)
Answer(n) == <<Start>> \o [i \in 1..n |-> Body(i - 1)]
Answers == {<<>>} \cup {Answer(n) : n \in 0..MaxParts}

(* How it may stop.  A send buffer that is full right after the end adds a *)
(* cancellation to it.                                                     *)
Stops(answer) == {answer, Append(answer, Cancel)}
                 \cup IF answer = <<>> THEN {}
                      ELSE {Append(answer, End), answer \o <<End, Cancel>>}

Continues(answer) == {a \in Answers : Len(a) >= Len(answer)}

Init ==
  /\ connected = FALSE
  /\ accepted = {} /\ live = {}
  /\ stream = [c \in Requests |-> <<>>]

Connect ==
  /\ ~connected /\ connected' = TRUE
  /\ UNCHANGED <<accepted, live, stream>>

Accept(c) ==
  /\ connected /\ c \notin accepted
  /\ accepted' = accepted \cup {c}
  /\ live' = live \cup {c}
  /\ UNCHANGED <<connected, stream>>

Send(c) ==
  /\ c \in live
  /\ \E a \in Continues(stream[c]) : stream' = [stream EXCEPT ![c] = a]
  /\ UNCHANGED <<connected, accepted, live>>

Stop(c) ==
  /\ c \in live
  /\ live' = live \ {c}
  /\ \E a \in Continues(stream[c]) : \E s \in Stops(a) : stream' = [stream EXCEPT ![c] = s]
  /\ UNCHANGED <<connected, accepted>>

Disconnect ==
  /\ connected /\ connected' = FALSE
  /\ live' = {}
  /\ UNCHANGED <<accepted, stream>>

Next == Connect \/ Disconnect \/ \E c \in Requests : Accept(c) \/ Send(c) \/ Stop(c)

Spec == Init /\ [][Next]_vars
=============================================================================
