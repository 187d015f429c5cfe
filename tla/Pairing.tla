------------------------------- MODULE Pairing -------------------------------
(***************************************************************************)
(* Pairing a phone through the relay (remote-access/pairing-state.js): the *)
(* session of one signed-in administrator, its calls one after the other   *)
(* behind a lock, each with requests to the relay whose answers may be     *)
(* lost, the retries of the provisioning, and the sweep that ends sessions *)
(* without waiting for the lock.                                           *)
(*                                                                         *)
(* Session n of the relay is entry n here; a session whose creation was    *)
(* not answered is known to nobody and left out.                           *)
(***************************************************************************)
EXTENDS Naturals, Sequences

CONSTANTS
    Retries,      \* length of PROVISION_RETRY_DELAYS_MS
    MaxSessions,  \* bound: sessions of a behaviour
    MaxCalls,     \* bound: calls other than the polling of the page
    MaxQueue,     \* bound: calls that wait for the lock
    MaxFaults,    \* bound: lost requests or answers, signing or storing that fails
    MaxStops      \* bound: sign-outs and restarts of the process

ASSUME PairingAssumption ==
    {Retries, MaxSessions, MaxCalls, MaxQueue, MaxFaults, MaxStops} \subseteq Nat

VARIABLES
    relay,      \* the sessions at the relay
    entries,    \* what this process keeps of each
    session,    \* sessions.get(owner), 0 for none
    timer,      \* is there a provisionTimer of the owner?
    signedIn,   \* is the owner, one login session, still signed in?
    queue,      \* the calls that wait for the lock, the retries included
    op,         \* the call that holds it
    late,       \* sessions whose expiresAtMs is past
    stored,     \* sessions whose identity was written to the identity store
    disturbed,  \* history: those ended by the user, the clock, a restart, or not stored
    count       \* counters for the bounds

vars == <<relay, entries, session, timer, signedIn, queue, op, late,
          stored, disturbed, count>>
remote == <<relay, late>>
owned == <<session, signedIn>>
history == <<stored, disturbed>>

Numbers == 1..MaxSessions
Made == 1..Len(entries)
Calls == {"create", "poll", "cancel", "reject", "confirm", "provision"}

Polled == {"pending", "awaiting_confirmation"}
Expirable == Polled \cup {"confirming", "confirmed", "provisioning"}
Terminal == {"paired", "rejected", "cancelled", "expired"}

Idle == [kind |-> "none", at |-> "none", entry |-> 0, token |-> FALSE, reply |-> "none"]
NewEntry == [status |-> "pending", token |-> TRUE, known |-> FALSE, attempts |-> 0]

Init ==
    /\ relay = <<>> /\ entries = <<>> /\ late = {}
    /\ session = 0 /\ timer = FALSE /\ signedIn = TRUE
    /\ queue = <<>> /\ op = Idle
    /\ stored = {} /\ disturbed = {}
    /\ count = [calls |-> 0, faults |-> 0, stops |-> 0]

-----------------------------------------------------------------------------
(* An entry.  scrubSecrets goes with every terminal status.                 *)

Ended(x, status) == [x EXCEPT !.status = status, !.token = FALSE]

\* Mutant: a confirmed session does not expire.
SweepEntry_NotConfirmed(e) ==
    IF e \in late /\ entries[e].status \in Expirable \ {"confirmed"}
    THEN Ended(entries[e], "expired") ELSE entries[e]

SweepEntry(e) ==
    IF e \in late /\ entries[e].status \in Expirable
    THEN Ended(entries[e], "expired") ELSE entries[e]

Intermediate == {"confirming", "provisioning", "paired"}

\* The intermediate states of a call are led by the call itself.
ApplyRemoteStatus(x, status) ==
    IF x.status \in Intermediate /\ status \in {"paired", "confirmed"} THEN x
    ELSE IF status \in Terminal THEN Ended(x, status)
    ELSE [x EXCEPT !.status = status, !.known = @ \/ status = "awaiting_confirmation"]

-----------------------------------------------------------------------------
(* The lock: withLock lets one call in at a time.                           *)

Call(kind) ==
    /\ signedIn /\ (session # 0 \/ kind = "create")
    /\ count.calls < MaxCalls /\ Len(queue) < MaxQueue
    /\ count' = [count EXCEPT !.calls = @ + 1]
    /\ queue' = Append(queue, kind)
    /\ UNCHANGED <<remote, history, entries, owned, timer, op>>

\* An open page asks again and again; what it asks later than that is answered
\* without the relay and left out.
PagePolls ==
    /\ signedIn /\ session # 0 /\ queue = <<>> /\ op = Idle
    /\ entries[session].status \in Polled
    /\ queue' = <<"poll">>
    /\ UNCHANGED <<remote, history, entries, owned, timer, op, count>>

\* The timer of the retry; it takes its place behind the lock.
RetryTimeout ==
    /\ timer /\ Len(queue) < MaxQueue
    /\ timer' = FALSE
    /\ queue' = Append(queue, "retry")
    /\ UNCHANGED <<remote, history, entries, owned, op, count>>

Enters(kind) ==
    /\ op = Idle /\ queue # <<>> /\ Head(queue) = kind
    /\ queue' = Tail(queue)
    /\ UNCHANGED <<remote, stored, owned, count>>

Become(e, x) == entries' = [entries EXCEPT ![e] = x]

\* A request, with the token the entry holds when it is sent.
Asks(kind, at, e, token) ==
    op' = [kind |-> kind, at |-> at, entry |-> e, token |-> token,
           reply |-> IF at \in {"sign", "store"} THEN "none" ELSE "sent"]

\* clearProvisionTimer, for an entry that has just ended.
Cleared(e, x) ==
    timer' = (timer /\ ~(x.status \in Terminal /\ entries[e].status # x.status))

ProvisionLocked(kind, e, x) ==
    IF e \in late
    THEN /\ Become(e, Ended(x, "expired")) /\ timer' = FALSE /\ op' = Idle
    ELSE /\ Become(e, [x EXCEPT !.status = "provisioning", !.attempts = @ + 1])
         /\ Asks(kind, "provision", e, x.token)
         /\ UNCHANGED timer

-----------------------------------------------------------------------------
(* What a call does before its first request *)

NoSession ==
    /\ session = 0
    /\ \E kind \in (Calls \cup {"retry"}) \ {"create"} : Enters(kind)
    /\ UNCHANGED <<entries, timer, op, disturbed>>

BeginCreate ==
    /\ Enters("create")
    /\ Len(entries) < MaxSessions
    /\ IF session = 0
       THEN Asks("create", "create", 0, FALSE) /\ UNCHANGED <<entries, timer>>
       ELSE LET x == SweepEntry(session) IN
            /\ Become(session, x) /\ Cleared(session, x)
            /\ IF x.status \in Terminal
               THEN Asks("create", "create", 0, FALSE) ELSE UNCHANGED op
    /\ UNCHANGED disturbed

BeginPoll ==
    /\ session # 0 /\ Enters("poll")
    /\ LET x == SweepEntry(session) IN
       /\ Become(session, x) /\ Cleared(session, x)
       /\ IF x.status \in Polled
          THEN Asks("poll", "read", session, x.token) ELSE UNCHANGED op
    /\ UNCHANGED disturbed

BeginCancel ==
    /\ session # 0 /\ Enters("cancel")
    /\ LET x == SweepEntry(session) IN
       IF x.status \in Polled /\ x.token
       THEN Become(session, x) /\ Asks("cancel", "cancel", session, x.token)
       ELSE Become(session, Ended(x, "cancelled")) /\ UNCHANGED op
    /\ timer' = FALSE
    /\ disturbed' = disturbed \cup {session}

BeginReject ==
    /\ session # 0 /\ Enters("reject")
    /\ LET x == SweepEntry(session) IN
       /\ Become(session, x) /\ Cleared(session, x)
       /\ IF x.status = "awaiting_confirmation" /\ x.token
          THEN Asks("reject", "reject", session, x.token) ELSE UNCHANGED op
    /\ UNCHANGED disturbed

BeginConfirm ==
    /\ session # 0 /\ Enters("confirm")
    /\ LET x == SweepEntry(session) IN
       IF x.status \in {"confirmed", "provisioning"}
       THEN ProvisionLocked("confirm", session, x)
       ELSE /\ Become(session, x) /\ Cleared(session, x)
            /\ IF x.status = "awaiting_confirmation" /\ x.token /\ x.known
               THEN Asks("confirm", "sign", session, x.token) ELSE UNCHANGED op
    /\ UNCHANGED disturbed

\* The call of the user.
BeginProvision ==
    /\ session # 0 /\ Enters("provision")
    /\ LET x == SweepEntry(session) IN
       IF x.status \in {"confirmed", "provisioning"}
       THEN ProvisionLocked("provision", session, x)
       ELSE Become(session, x) /\ Cleared(session, x) /\ UNCHANGED op
    /\ UNCHANGED disturbed

\* Mutant: the retry does not look at the status again.
BeginRetry_Unchecked ==
    /\ session # 0 /\ Enters("retry")
    /\ ProvisionLocked("retry", session, SweepEntry(session))
    /\ UNCHANGED disturbed

\* The retry after the timer.
BeginRetry ==
    /\ session # 0 /\ Enters("retry")
    /\ LET x == SweepEntry(session) IN
       IF x.status = "confirmed"
       THEN ProvisionLocked("retry", session, x)
       ELSE Become(session, x) /\ Cleared(session, x) /\ UNCHANGED op
    /\ UNCHANGED disturbed

Begin == NoSession \/ BeginCreate \/ BeginPoll \/ BeginCancel \/ BeginReject
         \/ BeginConfirm \/ BeginProvision \/ BeginRetry

-----------------------------------------------------------------------------
(* The relay, as relay-client.js understands its answers *)

\* The status a request leaves at the relay, and the answers it may get.
Executed(at, status) ==
    CASE at \in {"read", "refresh", "reconcile"} -> status
      [] at = "cancel" -> IF status \in Polled THEN "cancelled" ELSE status
      [] at = "confirm" -> IF status = "awaiting_confirmation" THEN "confirmed" ELSE status
      [] at = "reject" -> IF status = "awaiting_confirmation" THEN "rejected" ELSE status
      [] at = "provision" -> IF status = "confirmed" THEN "paired" ELSE status

Answers(at, status) ==
    CASE at \in {"read", "refresh", "reconcile"} ->
           IF status = "expired" THEN {"expired", "notFound"} ELSE {status}
      [] at # "provision" /\ status = "expired" -> {"expired"}
      [] at \in {"confirm", "reject"} ->
           IF status = "awaiting_confirmation" THEN {"ok"} ELSE {"conflict"}
      [] at = "cancel" -> {"ok"}
      [] at = "provision" ->
           CASE status = "confirmed" -> {"ok"}
             [] status = "paired" -> {"ok", "conflict"}
             [] status = "expired" -> {"expired"}
             [] OTHER -> {"failed"}

RelayAnswers ==
    /\ op.reply = "sent"
    /\ CASE op.at = "create" ->
              op' = [op EXCEPT !.reply = "ok"] /\ UNCHANGED relay
         [] op.at # "create" /\ ~op.token ->
              op' = [op EXCEPT !.reply = "notFound"] /\ UNCHANGED relay
         [] OTHER ->
              /\ relay' = [relay EXCEPT ![op.entry] = Executed(op.at, @)]
              /\ \E reply \in Answers(op.at, relay[op.entry]) :
                   op' = [op EXCEPT !.reply = reply]
    /\ UNCHANGED <<late, history, entries, owned, timer, queue, count>>

\* The request or its answer is lost, or the time for it runs out.
RelayUnavailable ==
    /\ op.reply \notin {"none", "unavailable"} /\ count.faults < MaxFaults
    /\ count' = [count EXCEPT !.faults = @ + 1]
    /\ op' = [op EXCEPT !.reply = "unavailable"]
    /\ UNCHANGED <<remote, history, entries, owned, timer, queue>>

\* The phone scans the code and claims the session.
PhoneClaims(e) ==
    /\ e \in Made /\ relay[e] = "pending"
    /\ relay' = [relay EXCEPT ![e] = "awaiting_confirmation"]
    /\ UNCHANGED <<late, history, entries, owned, timer, queue, op, count>>

\* The session expires at the relay, and by the clock of this process.
RelayExpires(e) ==
    /\ e \in Made /\ relay[e] \in Polled \cup {"confirmed"}
    /\ relay' = [relay EXCEPT ![e] = "expired"]
    /\ disturbed' = disturbed \cup {e}
    /\ UNCHANGED <<late, stored, entries, owned, timer, queue, op, count>>

TimePasses(e) ==
    /\ e \in Made \ late
    /\ late' = late \cup {e}
    /\ disturbed' = disturbed \cup {e}
    /\ UNCHANGED <<relay, stored, entries, owned, timer, queue, op, count>>

-----------------------------------------------------------------------------
(* What a call does with an answer *)

Answered(at) ==
    /\ op.at = at /\ op.reply # "sent"
    /\ UNCHANGED <<late, owned, queue>>

Created ==
    /\ op.at = "create" /\ op.reply # "sent"
    /\ IF op.reply = "ok"
       THEN /\ relay' = Append(relay, "pending") /\ entries' = Append(entries, NewEntry)
            /\ session' = Len(entries) + 1
       ELSE UNCHANGED <<relay, entries, session>>
    /\ op' = Idle
    /\ UNCHANGED <<late, history, signedIn, timer, queue, count>>

\* poll: a session the relay does not know is over, a failure changes nothing.
PollAnswered ==
    /\ Answered("read")
    /\ LET x == CASE op.reply = "unavailable" -> entries[op.entry]
                  [] op.reply = "notFound" -> Ended(entries[op.entry], "expired")
                  [] OTHER -> ApplyRemoteStatus(entries[op.entry], op.reply)
       IN Become(op.entry, x) /\ IF op.reply = "notFound" THEN UNCHANGED timer
                                 ELSE Cleared(op.entry, x)
    /\ op' = Idle
    /\ UNCHANGED <<relay, history, count>>

\* cancel: whatever the relay says.
CancelAnswered ==
    /\ Answered("cancel")
    /\ Become(op.entry, Ended(entries[op.entry], "cancelled"))
    /\ op' = Idle
    /\ UNCHANGED <<relay, history, timer, count>>

\* refreshAfterConflict, if there is still a token.
Refresh(x) ==
    /\ Become(op.entry, x)
    /\ IF x.token THEN Asks(op.kind, "refresh", op.entry, x.token) ELSE op' = Idle

RejectAnswered ==
    /\ Answered("reject")
    /\ CASE op.reply = "ok" ->
              Become(op.entry, Ended(entries[op.entry], "rejected")) /\ op' = Idle
         [] op.reply \in {"conflict", "expired"} -> Refresh(entries[op.entry])
         [] OTHER -> UNCHANGED entries /\ op' = Idle
    /\ UNCHANGED <<relay, history, timer, count>>

Signed ==
    /\ op.at = "sign"
    /\ Become(op.entry, [entries[op.entry] EXCEPT !.status = "confirming"])
    /\ Asks("confirm", "confirm", op.entry, entries[op.entry].token)
    /\ UNCHANGED <<remote, history, owned, timer, queue, count>>

SignFails ==
    /\ op.at = "sign" /\ count.faults < MaxFaults
    /\ count' = [count EXCEPT !.faults = @ + 1]
    /\ op' = Idle
    /\ UNCHANGED <<remote, history, entries, owned, timer, queue>>

ConfirmAnswered ==
    /\ Answered("confirm")
    /\ LET x == entries[op.entry] IN
       CASE op.reply = "ok" ->
              ProvisionLocked("confirm", op.entry, [x EXCEPT !.status = "confirmed"])
         [] op.reply \in {"conflict", "expired"} -> Refresh(x) /\ UNCHANGED timer
         [] OTHER ->
              /\ Become(op.entry, [x EXCEPT !.status = "awaiting_confirmation"])
              /\ op' = Idle /\ UNCHANGED timer
    /\ UNCHANGED <<relay, history, count>>

Refreshed ==
    /\ Answered("refresh")
    /\ LET x == IF op.reply \in {"unavailable", "notFound"} THEN entries[op.entry]
                ELSE ApplyRemoteStatus(entries[op.entry], op.reply)
       IN Become(op.entry, x) /\ Cleared(op.entry, x)
    /\ op' = Idle
    /\ UNCHANGED <<relay, history, count>>

\* Mutant: one retry too few is planned.
ScheduleRetry_OneLess ==
    timer' = (timer \/ (session # 0 /\ entries[session].attempts < Retries))

\* scheduleProvisionRetry, by the entry the owner has now.
ScheduleRetry == timer' = (timer \/ (session # 0 /\ entries[session].attempts <= Retries))

StaysConfirmed ==
    /\ Become(op.entry, [entries[op.entry] EXCEPT !.status = "confirmed"])
    /\ ScheduleRetry /\ op' = Idle

ProvisionAnswered ==
    /\ Answered("provision")
    /\ CASE op.reply = "ok" ->
              Asks(op.kind, "store", op.entry, FALSE) /\ UNCHANGED <<entries, timer>>
         [] op.reply = "conflict" ->
              /\ Asks(op.kind, "reconcile", op.entry, entries[op.entry].token)
              /\ UNCHANGED <<entries, timer>>
         [] op.reply = "expired" ->
              /\ Become(op.entry, Ended(entries[op.entry], "expired"))
              /\ timer' = FALSE /\ op' = Idle
         [] OTHER -> StaysConfirmed
    /\ UNCHANGED <<relay, history, count>>

\* Mutant: what the relay has as paired is shown so, and not stored.
Reconciled_NotStored ==
    /\ Answered("reconcile")
    /\ IF op.reply \in Terminal
       THEN /\ Become(op.entry, Ended(entries[op.entry], op.reply))
            /\ timer' = FALSE /\ op' = Idle
       ELSE StaysConfirmed
    /\ UNCHANGED <<relay, history, count>>

\* reconcileFromStatus, after a conflict.
Reconciled ==
    /\ Answered("reconcile")
    /\ CASE op.reply = "paired" ->
              Asks(op.kind, "store", op.entry, FALSE) /\ UNCHANGED <<entries, timer>>
         [] op.reply \in Terminal \ {"paired"} ->
              LET x == ApplyRemoteStatus(entries[op.entry], op.reply) IN
              Become(op.entry, x) /\ Cleared(op.entry, x) /\ op' = Idle
         [] OTHER -> StaysConfirmed
    /\ UNCHANGED <<relay, history, count>>

\* finalizePaired.
Stored ==
    /\ op.at = "store"
    /\ stored' = stored \cup {op.entry}
    /\ Become(op.entry, Ended(entries[op.entry], "paired"))
    /\ timer' = FALSE /\ op' = Idle
    /\ UNCHANGED <<remote, disturbed, owned, queue, count>>

StoreFails ==
    /\ op.at = "store" /\ count.faults < MaxFaults
    /\ count' = [count EXCEPT !.faults = @ + 1]
    /\ disturbed' = disturbed \cup {op.entry}
    /\ Become(op.entry, [entries[op.entry] EXCEPT !.status = "confirmed"])
    /\ op' = Idle
    /\ UNCHANGED <<remote, stored, owned, timer, queue>>

Continue == Created \/ PollAnswered \/ CancelAnswered \/ RejectAnswered \/ Signed
            \/ ConfirmAnswered \/ Refreshed \/ ProvisionAnswered \/ Reconciled \/ Stored

-----------------------------------------------------------------------------
(* The sweep, signing out, the end of the process *)

\* sweepAll does not wait for the lock.
Sweep ==
    /\ session # 0
    /\ LET x == SweepEntry(session) IN
       /\ x # entries[session]
       /\ Become(session, x) /\ Cleared(session, x)
    /\ UNCHANGED <<remote, history, owned, queue, op, count>>

\* An entry that is over is forgotten, later than any request can last.
Forget ==
    /\ session # 0 /\ entries[session].status \in Terminal
    /\ op.entry # session
    /\ session' = 0 /\ timer' = FALSE
    /\ Become(session, [entries[session] EXCEPT !.token = FALSE])
    /\ UNCHANGED <<remote, history, signedIn, queue, op, count>>

\* removeForOwner; the calls already made go on with what they hold.
SignOut ==
    /\ session # 0 /\ count.stops < MaxStops
    /\ count' = [count EXCEPT !.stops = @ + 1]
    /\ Become(session, [entries[session] EXCEPT !.token = FALSE])
    /\ session' = 0 /\ timer' = FALSE /\ signedIn' = FALSE
    /\ disturbed' = disturbed \cup {session}
    /\ UNCHANGED <<remote, stored, queue, op>>

\* Nothing of the pairing is kept on disk but a stored identity.
Restart ==
    /\ Len(entries) > 0 /\ count.stops < MaxStops
    /\ count' = [count EXCEPT !.stops = @ + 1]
    /\ entries' = [e \in Made |-> [entries[e] EXCEPT !.token = FALSE]]
    /\ session' = 0 /\ timer' = FALSE /\ queue' = <<>> /\ op' = Idle
    /\ disturbed' = disturbed \cup Made
    /\ UNCHANGED <<remote, stored, signedIn>>

-----------------------------------------------------------------------------
User == PagePolls \/ SignOut \/ \E kind \in Calls : Call(kind)
Outside == \E e \in Numbers : PhoneClaims(e) \/ RelayExpires(e) \/ TimePasses(e)
Faults == RelayUnavailable \/ SignFails \/ StoreFails \/ Restart

Next == User \/ RetryTimeout \/ Begin \/ RelayAnswers \/ Continue \/ Sweep \/ Forget
        \/ Outside \/ Faults

Spec == Init /\ [][Next]_vars

\* Timers fire and every request ends, at the latest by its own time limit;
\* the page is open while the phone is waited for.
Fairness ==
    /\ WF_vars(Begin) /\ WF_vars(RelayAnswers) /\ WF_vars(Continue)
    /\ WF_vars(RetryTimeout) /\ WF_vars(Sweep) /\ WF_vars(PagePolls)

FairSpec == Spec /\ Fairness

-----------------------------------------------------------------------------
(* Properties *)

\* The types of the variables; an entry and its session have the same number.
TypeOK ==
    /\ relay \in Seq(Polled \cup Terminal \cup {"confirmed"})
    /\ Len(relay) = Len(entries) /\ Len(entries) <= MaxSessions
    /\ \A e \in Made : entries[e] \in
         [status : Expirable \cup Terminal, token : BOOLEAN, known : BOOLEAN, attempts : Nat]
    /\ session \in 0..Len(entries) /\ timer \in BOOLEAN
    /\ queue \in Seq(Calls \cup {"retry"})
    /\ op.entry \in 0..Len(entries)
    /\ late \subseteq Made /\ stored \subseteq Made /\ disturbed \subseteq Made

\* A phone is shown as paired only when its identity was stored, and stored
\* only when the relay has it as paired: whatever answers were lost, nobody
\* believes in a link the other side does not know.
PairedIsStored ==
    \A e \in Made : /\ entries[e].status = "paired" => e \in stored
                    /\ e \in stored => relay[e] = "paired"

\* A session that is over stays over: no call that waited for the lock, no
\* retry and no late answer brings it back.  Only a session that the sweep
\* ended in the middle of a call may be under way again until the next sweep.
OverStaysOver ==
    [][\A e \in Made :
         entries[e].status \in Terminal /\ ~(entries[e].status = "expired" /\ op.entry = e)
           => entries'[e].status \in Terminal]_vars

\* Once homeESS has begun to provision, lost answers do not keep it from
\* storing the phone: a retry or the status of the relay completes it.
ProvisioningCompletes ==
    \A e \in Numbers :
        (e \in Made /\ entries[e].attempts > 0) ~> (e \in stored \cup disturbed)

\* After its time every session ends for good, and its token is gone, whatever
\* call was under way and even if the relay never answers.
EndsInTime ==
    \A e \in Numbers :
        e \in late ~> [](e \in Made /\ ~entries[e].token
                         /\ (entries[e].status \in Terminal \/ session # e))

\* What PROJECT_CONTEXT.md says of the confirmation: the provisioning follows
\* it by itself.  No session rests as confirmed without an attempt.
ProvisioningFollows ==
    op = Idle => \A e \in Made : entries[e].status = "confirmed" => entries[e].attempts > 0
=============================================================================
