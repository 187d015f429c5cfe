---------------------------- MODULE RelaySession ----------------------------
(***************************************************************************)
(* What the origin connection promises the application that uses it: there *)
(* is a session with the relay or there is none.  A request made without a *)
(* session is refused at once; one made in a session is settled once, by   *)
(* the relay, by its timer or with the session, and none is left over when *)
(* the session ends.  A service that was stopped has no session before it  *)
(* is started again.                                                       *)
(***************************************************************************)
CONSTANTS Pushes,    \* the push notifications
          Removals   \* the remove_link requests

VARIABLES stopped,    \* by the user, by a shutdown or replaced by another client
          connected,  \* there is a session
          verdict,    \* what became of each push
          removals,   \* open remove_link requests
          tunnel      \* there are open tunnel requests

vars == <<stopped, connected, verdict, removals, tunnel>>

Verdicts == {"accepted", "failed", "timeout"}

Init ==
  /\ stopped = FALSE /\ connected = FALSE
  /\ verdict = [p \in Pushes |-> "new"]
  /\ removals = {} /\ tunnel = FALSE

Authenticate ==
  /\ ~stopped /\ ~connected
  /\ connected' = TRUE
  /\ UNCHANGED <<stopped, verdict, removals, tunnel>>

Push(p) ==
  /\ verdict[p] = "new"
  /\ verdict' = [verdict EXCEPT ![p] = IF connected THEN "pending" ELSE "failed"]
  /\ UNCHANGED <<stopped, connected, removals, tunnel>>

Settle(p) ==
  /\ connected /\ verdict[p] = "pending"
  /\ \E v \in Verdicts : verdict' = [verdict EXCEPT ![p] = v]
  /\ UNCHANGED <<stopped, connected, removals, tunnel>>

Remove(r) ==
  /\ connected /\ r \notin removals
  /\ removals' = removals \cup {r}
  /\ UNCHANGED <<stopped, connected, verdict, tunnel>>

Removed(r) ==
  /\ r \in removals
  /\ removals' = removals \ {r}
  /\ UNCHANGED <<stopped, connected, verdict, tunnel>>

Tunnel(open) ==
  /\ connected
  /\ tunnel' = open
  /\ UNCHANGED <<stopped, connected, verdict, removals>>

(* The session ends, because the service is stopped or for another reason. *)
End ==
  /\ connected /\ connected' = FALSE
  /\ stopped' \in BOOLEAN
  /\ verdict' = [p \in Pushes |-> IF verdict[p] = "pending" THEN "failed" ELSE verdict[p]]
  /\ removals' = {} /\ tunnel' = FALSE

(* Stopped or started again, without a session.                            *)
Switch ==
  /\ ~connected
  /\ stopped' = ~stopped
  /\ UNCHANGED <<connected, verdict, removals, tunnel>>

Next ==
  \/ Authenticate \/ End \/ Switch
  \/ \E p \in Pushes : Push(p) \/ Settle(p)
  \/ \E r \in Removals : Remove(r) \/ Removed(r)
  \/ \E open \in BOOLEAN : Tunnel(open)

Spec == Init /\ [][Next]_vars
=============================================================================
