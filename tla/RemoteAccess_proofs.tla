----------------------- MODULE RemoteAccess_proofs -----------------------
(***************************************************************************)
(* What rides on the relay connection: the pairing of phones and the       *)
(* tunnel to the local server.                                             *)
(*                                                                         *)
(* A phone is shown as paired only when its identity is stored, and        *)
(* stored only when the relay has it as paired, for any number of          *)
(* sessions, calls, faults and retries.  The induction needs what the lock *)
(* and the count of attempts give: a session without an attempt to         *)
(* provision it is not paired at the relay, and only the call that made    *)
(* the attempt goes on to store what it was told.                          *)
(*                                                                         *)
(* The origin end of the tunnel keeps what it promises the relay, for any  *)
(* number of requests, connections and chunks: the Map holds the contexts  *)
(* that are not over, and what is sent for a request is a stream of        *)
(* RequestStreams.  The induction needs to know how far the local server   *)
(* is with a request that is not over, and what was sent for it so far.    *)
(***************************************************************************)
EXTENDS Pairing, OriginTunnel, SequenceTheorems, TLAPS

-----------------------------------------------------------------------------
\* Pairing

USE PairingAssumption DEF PairingAssumption

RelayStatus == Polled \cup Terminal \cup {"confirmed"}
Entry == [status : Expirable \cup Terminal, token : BOOLEAN, known : BOOLEAN,
          attempts : Nat]
Op == [kind : Calls \cup {"retry", "none"},
       at : {"none", "create", "read", "cancel", "reject", "sign", "confirm",
             "refresh", "provision", "reconcile", "store"},
       entry : Nat, token : BOOLEAN,
       reply : RelayStatus \cup {"none", "sent", "ok", "unavailable", "notFound",
                                 "conflict", "failed"}]

TypeInv ==
  /\ relay \in Seq(RelayStatus) /\ entries \in Seq(Entry)
  /\ Len(relay) = Len(entries)
  /\ session \in 0..Len(entries)
  /\ op \in Op
  /\ stored \subseteq Made

\* Only a session with an attempt to provision it is paired at the relay, and
\* such a session is past the states in which it is polled or confirmed.
Past == {"provisioning", "confirmed"} \cup Terminal

Sound(e) ==
  /\ relay[e] = "paired" => entries[e].attempts > 0
  /\ entries[e].attempts > 0 => entries[e].status \in Past
  /\ entries[e].status = "paired" => e \in stored
  /\ e \in stored => relay[e] = "paired"

Early == {"read", "cancel", "reject", "sign", "confirm", "refresh"}
Later == {"provision", "reconcile", "store"}

\* A call that provisions made the attempt before; what it stores was reported
\* by the relay.
OpSound ==
  /\ op.at \in {"none", "sign", "store"} => op.reply = "none"
  /\ op.at \in Early \cup Later => op.entry \in Made /\ op.kind # "none"
  /\ op.at \in {"read", "refresh"} =>
       op.reply \in RelayStatus \cup {"sent", "unavailable", "notFound"}
  /\ op.at \in Early => entries[op.entry].attempts = 0 /\ op.reply # "paired"
  /\ op.at \in Later => entries[op.entry].attempts > 0
  /\ \/ op.at = "store"
     \/ op.at = "provision" /\ op.reply = "ok"
     \/ op.at = "reconcile" /\ op.reply = "paired"
     => relay[op.entry] = "paired"

IInv == TypeInv /\ (\A e \in Made : Sound(e)) /\ OpSound

-----------------------------------------------------------------------------
(* What the steps have in common *)

\* What the type invariant says of one entry and its session.
LEMMA Types ==
  ASSUME TypeInv
  PROVE  /\ Len(entries) \in Nat /\ Made = 1..Len(entries)
         /\ \A e \in Made : entries[e] \in Entry /\ relay[e] \in RelayStatus
BY LenProperties, ElementOfSeq DEF TypeInv, Made

\* The idle call is a call, and needs nothing to be sound.
LEMMA IdleType == Idle \in Op
BY DEF Idle, Op

LEMMA IdleSound == op' = Idle => OpSound'
BY DEF OpSound, Idle, Early, Later

\* The call that asks for a new session has no entry yet.
LEMMA CreateType == Asks("create", "create", 0, FALSE) => op' \in Op /\ OpSound'
<1> SUFFICES ASSUME Asks("create", "create", 0, FALSE) PROVE op' \in Op /\ OpSound'
  OBVIOUS
<1>1. op' = [kind |-> "create", at |-> "create", entry |-> 0, token |-> FALSE,
             reply |-> "sent"]
  BY DEF Asks
<1> QED BY <1>1 DEF Op, Calls, OpSound, Early, Later

\* Nothing the invariant looks at changes but the call.
LEMMA OpChanges ==
  ASSUME IInv, UNCHANGED <<relay, entries, session, stored>>, op' \in Op, OpSound'
  PROVE  IInv'
BY DEF IInv, TypeInv, Sound, Made

\* Nothing the invariant looks at changes.
LEMMA SameKeeps ==
  ASSUME IInv, UNCHANGED <<relay, entries, session, stored, op>>
  PROVE  IInv'
<1>1. op' \in Op BY DEF IInv, TypeInv
<1>2. OpSound' BY DEF IInv, OpSound, Made
<1> QED BY <1>1, <1>2, OpChanges

\* An entry becomes x.
LEMMA BecomeTypes ==
  ASSUME TypeInv, NEW e \in Made, NEW x \in Entry, Become(e, x)
  PROVE  /\ entries' \in Seq(Entry) /\ Len(entries') = Len(entries)
         /\ Made' = Made /\ entries'[e] = x
         /\ \A f \in Made : f # e => entries'[f] = entries[f]
<1>1. entries \in Seq(Entry) /\ e \in 1..Len(entries) BY DEF TypeInv, Made
<1>2. entries' = [entries EXCEPT ![e] = x] BY DEF Become
<1>3. /\ [entries EXCEPT ![e] = x] \in Seq(Entry)
      /\ Len([entries EXCEPT ![e] = x]) = Len(entries)
      /\ \A j \in 1..Len(entries) :
           [entries EXCEPT ![e] = x][j] = IF j = e THEN x ELSE entries[j]
  BY <1>1, ExceptSeq
<1> QED BY <1>1, <1>2, <1>3 DEF Made

\* What an entry may become.
Fine(e, x) ==
  /\ entries[e].attempts > 0 => x.attempts > 0
  /\ x.attempts > 0 => x.status \in Past
  /\ x.status = "paired" => e \in stored

\* One entry becomes x, and x is fine.
LEMMA BecomeSound ==
  ASSUME IInv, NEW e \in Made, NEW x \in Entry, Become(e, x), Fine(e, x),
         UNCHANGED <<relay, stored>>, session' \in 0..Len(entries), op' \in Op
  PROVE  TypeInv' /\ \A f \in Made' : Sound(f)'
<1>1. TypeInv /\ \A f \in Made : Sound(f) BY DEF IInv
<1>2. /\ entries' \in Seq(Entry) /\ Len(entries') = Len(entries)
      /\ Made' = Made /\ entries'[e] = x
      /\ \A f \in Made : f # e => entries'[f] = entries[f]
  BY <1>1, BecomeTypes
<1>3. TypeInv' BY <1>1, <1>2 DEF TypeInv
<1>4. ASSUME NEW f \in Made PROVE Sound(f)'
  <2>1. Sound(f) BY <1>1
  <2>2. CASE f = e
    <3>1. entries'[f] = x BY <1>2, <2>2
    <3>2. /\ entries[f].attempts > 0 => x.attempts > 0
          /\ x.attempts > 0 => x.status \in Past
          /\ x.status = "paired" => f \in stored
      BY <2>2 DEF Fine
    <3> QED BY <2>1, <3>1, <3>2 DEF Sound
  <2>3. CASE f # e BY <1>2, <2>1, <2>3 DEF Sound
  <2> QED BY <2>2, <2>3
<1> QED BY <1>2, <1>3, <1>4

\* The call goes on as it was, or is over, or asks for a new session.
LEMMA BecomeKeeps ==
  ASSUME IInv, NEW e \in Made, NEW x \in Entry, Become(e, x), Fine(e, x),
         x.attempts = entries[e].attempts,
         UNCHANGED <<relay, stored>>, session' \in 0..Len(entries),
         op' = op \/ op' = Idle \/ Asks("create", "create", 0, FALSE)
  PROVE  IInv'
<1>1. TypeInv /\ OpSound BY DEF IInv
<1>6. op \in Op BY <1>1 DEF TypeInv
<1>2. op' \in Op BY <1>6, IdleType, CreateType
<1>3. TypeInv' /\ \A f \in Made' : Sound(f)' BY <1>2, BecomeSound
<1>4. /\ Made' = Made /\ entries'[e] = x
      /\ \A f \in Made : f # e => entries'[f] = entries[f]
  BY <1>1, BecomeTypes
<1>5. OpSound'
  <2>1. CASE op' = Idle BY <2>1, IdleSound
  <2>3. CASE Asks("create", "create", 0, FALSE) BY <2>3, CreateType
  <2>2. CASE op' = op
    <3>1. op.at \in Early \cup Later => op.entry \in Made BY <1>1 DEF OpSound
    <3>2. op.at \in Early \cup Later => entries'[op.entry].attempts = entries[op.entry].attempts
      BY <1>4, <3>1
    <3> QED BY <1>1, <1>4, <2>2, <3>2 DEF OpSound, Early, Later
  <2> QED BY <2>1, <2>2, <2>3
<1> QED BY <1>3, <1>5 DEF IInv

\* The call asks for something before, or in, the provisioning.
LEMMA AsksEarly ==
  ASSUME IInv, NEW e \in Made, NEW x \in Entry, Become(e, x), Fine(e, x),
         x.attempts = 0, UNCHANGED <<relay, stored, session>>,
         NEW kind \in Calls \cup {"retry"}, NEW at \in Early, NEW token \in BOOLEAN,
         Asks(kind, at, e, token)
  PROVE  IInv'
<1>1. TypeInv BY DEF IInv
<1>2. Len(entries) \in Nat /\ e \in Nat BY <1>1, Types
<1>3. op' = [kind |-> kind, at |-> at, entry |-> e, token |-> token,
             reply |-> IF at \in {"sign", "store"} THEN "none" ELSE "sent"]
  BY DEF Asks
<1>4. op' \in Op BY <1>2, <1>3 DEF Op, Early
<1>5. TypeInv' /\ \A f \in Made' : Sound(f)'
  BY <1>1, <1>4, BecomeSound DEF TypeInv
<1>6. Made' = Made /\ entries'[e] = x BY <1>1, BecomeTypes
<1>7. OpSound' BY <1>3, <1>6 DEF OpSound, Early, Later, Calls
<1> QED BY <1>5, <1>7 DEF IInv

\* The call asks for something of the provisioning, the attempt being counted.
LEMMA AsksLater ==
  ASSUME IInv, NEW e \in Made, NEW x \in Entry, Become(e, x), Fine(e, x),
         x.attempts > 0, UNCHANGED <<relay, stored, session>>,
         NEW kind \in Calls \cup {"retry"}, NEW at \in Later, NEW token \in BOOLEAN,
         Asks(kind, at, e, token), at = "store" => relay[e] = "paired"
  PROVE  IInv'
<1>1. TypeInv BY DEF IInv
<1>2. Len(entries) \in Nat /\ e \in Nat BY <1>1, Types
<1>3. op' = [kind |-> kind, at |-> at, entry |-> e, token |-> token,
             reply |-> IF at \in {"sign", "store"} THEN "none" ELSE "sent"]
  BY DEF Asks
<1>4. op' \in Op BY <1>2, <1>3 DEF Op, Later
<1>5. TypeInv' /\ \A f \in Made' : Sound(f)'
  BY <1>1, <1>4, BecomeSound DEF TypeInv
<1>6. Made' = Made /\ entries'[e] = x BY <1>1, BecomeTypes
<1>7. OpSound' BY <1>3, <1>6 DEF OpSound, Early, Later, Calls
<1> QED BY <1>5, <1>7 DEF IInv

\* provisionLocked(): the session is over, or the attempt is counted and sent.
LEMMA ProvisionKeeps ==
  ASSUME IInv, NEW e \in Made, NEW x \in Entry,
         x.attempts = entries[e].attempts,
         NEW kind \in Calls \cup {"retry"}, ProvisionLocked(kind, e, x),
         UNCHANGED <<relay, stored, session>>
  PROVE  IInv'
<1>1. TypeInv BY DEF IInv
<1>2. entries[e] \in Entry BY <1>1, Types
<1>3. CASE e \in late
  <2>1. Ended(x, "expired") \in Entry BY DEF Ended, Entry, Terminal
  <2>2. Fine(e, Ended(x, "expired")) /\ Ended(x, "expired").attempts = entries[e].attempts
    BY DEF Fine, Ended, Entry, Past, Terminal
  <2>3. Become(e, Ended(x, "expired")) /\ op' = Idle BY <1>3 DEF ProvisionLocked
  <2> QED BY <1>1, <2>1, <2>2, <2>3, BecomeKeeps DEF TypeInv
<1>4. CASE e \notin late
  <2> DEFINE y == [x EXCEPT !.status = "provisioning", !.attempts = @ + 1]
  <2>5. x.attempts \in Nat BY DEF Entry
  <2>6. "provisioning" \in Expirable \cup Terminal BY DEF Expirable
  <2>1. y \in Entry /\ y.attempts > 0 /\ y.status = "provisioning"
    <3> DEFINE z == [x EXCEPT !.status = "provisioning"]
    <3>1. z \in Entry /\ z.status = "provisioning" BY <2>6 DEF Entry
    <3>2. y = [z EXCEPT !.attempts = x.attempts + 1] OBVIOUS
    <3>3. x.attempts + 1 \in Nat /\ x.attempts + 1 > 0 BY <2>5
    <3> HIDE DEF z
    <3> QED BY <3>1, <3>2, <3>3 DEF Entry
  <2>2. x.token \in BOOLEAN BY DEF Entry
  <2>3. Become(e, y) /\ Asks(kind, "provision", e, x.token) BY <1>4 DEF ProvisionLocked
  <2> HIDE DEF y
  <2>4. Fine(e, y) BY <2>1 DEF Fine, Past
  <2> QED BY <2>1, <2>2, <2>3, <2>4, AsksLater DEF Later
<1> QED BY <1>3, <1>4

\* What an entry may become under the sweep and after it.
LEMMA SweepFine ==
  ASSUME IInv, NEW e \in Made
  PROVE  /\ SweepEntry(e) \in Entry /\ Fine(e, SweepEntry(e))
         /\ SweepEntry(e).attempts = entries[e].attempts
<1>1. entries[e] \in Entry /\ Sound(e) BY Types DEF IInv
<1>2. Fine(e, entries[e]) BY <1>1 DEF Fine, Sound
<1>3. SweepEntry(e) = entries[e] \/ SweepEntry(e) = Ended(entries[e], "expired")
  BY DEF SweepEntry
<1>4. /\ Ended(entries[e], "expired") \in Entry
      /\ Fine(e, Ended(entries[e], "expired"))
      /\ Ended(entries[e], "expired").attempts = entries[e].attempts
  BY <1>1 DEF Ended, Fine, Entry, Past, Terminal
<1> QED BY <1>1, <1>2, <1>3, <1>4

\* Every end but the pairing is fine, and so is the entry as it is.
LEMMA EndFine ==
  ASSUME IInv, NEW e \in Made, NEW x \in Entry, x.attempts = entries[e].attempts,
         NEW s \in Terminal \ {"paired"}
  PROVE  /\ Ended(x, s) \in Entry /\ Fine(e, Ended(x, s))
         /\ Ended(x, s).attempts = entries[e].attempts
BY DEF Ended, Fine, Entry, Past, Terminal

LEMMA SameFine ==
  ASSUME IInv, NEW e \in Made
  PROVE  entries[e] \in Entry /\ Fine(e, entries[e])
<1>1. entries[e] \in Entry /\ Sound(e) BY Types DEF IInv
<1> QED BY <1>1 DEF Fine, Sound

LEMMA SameBecome ==
  ASSUME IInv, NEW e \in Made, UNCHANGED entries
  PROVE  Become(e, entries[e])
<1>1. entries \in [1..Len(entries) -> Entry] BY LenProperties DEF IInv, TypeInv
<1>2. entries = [entries EXCEPT ![e] = entries[e]] BY <1>1
<1> QED BY <1>2 DEF Become

\* An entry without its token.
LEMMA TokenFine ==
  ASSUME IInv, NEW e \in Made
  PROVE  LET x == [entries[e] EXCEPT !.token = FALSE] IN
         x \in Entry /\ Fine(e, x) /\ x.attempts = entries[e].attempts
<1>1. entries[e] \in Entry /\ Fine(e, entries[e]) BY SameFine
<1> QED BY <1>1 DEF Fine, Entry

\* A session that is polled or confirmed has no attempt yet.
LEMMA EarlySession ==
  ASSUME IInv, NEW e \in Made, SweepEntry(e).status \in Polled
  PROVE  SweepEntry(e).attempts = 0
<1>1. SweepEntry(e) \in Entry /\ Fine(e, SweepEntry(e)) BY SweepFine
<1>2. SweepEntry(e).status \notin Past BY DEF Past, Polled, Terminal
<1> QED BY <1>1, <1>2 DEF Fine, Entry

\* The session of the owner is one of those made.
LEMMA OwnedSession ==
  ASSUME IInv, session # 0
  PROVE  session \in Made
BY Types DEF IInv, TypeInv

-----------------------------------------------------------------------------
(* The calls *)

\* create(): before the request.
LEMMA BeginCreateKeeps ==
  ASSUME IInv, BeginCreate
  PROVE  IInv'
<1>1. UNCHANGED <<relay, stored, session>> BY DEF BeginCreate, Enters, remote, owned
<1>2. CASE session = 0
  <2>1. Asks("create", "create", 0, FALSE) /\ UNCHANGED entries
    BY <1>2 DEF BeginCreate
  <2> QED BY <1>1, <2>1, CreateType, OpChanges
<1>3. CASE session # 0
  <2>1. session \in Made BY <1>3, OwnedSession
  <2>2. Become(session, SweepEntry(session)) BY <1>3 DEF BeginCreate
  <2>3. op' = op \/ Asks("create", "create", 0, FALSE) BY <1>3 DEF BeginCreate
  <2> QED BY <1>1, <2>1, <2>2, <2>3, SweepFine, BecomeKeeps DEF IInv, TypeInv
<1> QED BY <1>2, <1>3

\* poll(): before the request.
LEMMA BeginPollKeeps ==
  ASSUME IInv, BeginPoll
  PROVE  IInv'
<1> DEFINE x == SweepEntry(session)
<1>1. UNCHANGED <<relay, stored, session>> /\ session # 0
  BY DEF BeginPoll, Enters, remote, owned
<1>2. session \in Made BY <1>1, OwnedSession
<1>3. Become(session, x) BY DEF BeginPoll
<1>4. x \in Entry /\ Fine(session, x) /\ x.attempts = entries[session].attempts
  BY <1>2, SweepFine
<1>5. x.token \in BOOLEAN BY <1>4 DEF Entry
<1>6. CASE x.status \in Polled
  <2>1. Asks("poll", "read", session, x.token) BY <1>6 DEF BeginPoll
  <2>2. x.attempts = 0 BY <1>2, <1>6, EarlySession
  <2> QED BY <1>1, <1>2, <1>3, <1>4, <1>5, <2>1, <2>2, AsksEarly DEF Early, Calls
<1>7. CASE x.status \notin Polled
  <2>1. op' = op BY <1>7 DEF BeginPoll
  <2> QED BY <1>1, <1>2, <1>3, <1>4, <2>1, BecomeKeeps DEF IInv, TypeInv
<1> QED BY <1>6, <1>7

\* cancel(): before the request, or without one.
LEMMA BeginCancelKeeps ==
  ASSUME IInv, BeginCancel
  PROVE  IInv'
<1> DEFINE x == SweepEntry(session)
<1>1. UNCHANGED <<relay, stored, session>> /\ session # 0
  BY DEF BeginCancel, Enters, remote, owned
<1>2. session \in Made BY <1>1, OwnedSession
<1>4. x \in Entry /\ Fine(session, x) /\ x.attempts = entries[session].attempts
  BY <1>2, SweepFine
<1>5. x.token \in BOOLEAN BY <1>4 DEF Entry
<1>6. CASE x.status \in Polled /\ x.token
  <2>1. Become(session, x) /\ Asks("cancel", "cancel", session, x.token)
    BY <1>6 DEF BeginCancel
  <2>2. x.attempts = 0 BY <1>2, <1>6, EarlySession
  <2> QED BY <1>1, <1>2, <1>4, <1>5, <2>1, <2>2, AsksEarly DEF Early, Calls
<1>7. CASE ~(x.status \in Polled /\ x.token)
  <2>1. Become(session, Ended(x, "cancelled")) /\ op' = op BY <1>7 DEF BeginCancel
  <2>2. "cancelled" \in Terminal \ {"paired"} BY DEF Terminal
  <2>3. session' \in 0..Len(entries) BY <1>1 DEF IInv, TypeInv
  <2> HIDE DEF x
  <2>4. /\ Ended(x, "cancelled") \in Entry /\ Fine(session, Ended(x, "cancelled"))
        /\ Ended(x, "cancelled").attempts = entries[session].attempts
    BY <1>2, <1>4, <2>2, EndFine
  <2> QED BY <1>1, <1>2, <2>1, <2>3, <2>4, BecomeKeeps
<1> QED BY <1>6, <1>7

\* reject(): before the request.
LEMMA BeginRejectKeeps ==
  ASSUME IInv, BeginReject
  PROVE  IInv'
<1> DEFINE x == SweepEntry(session)
<1>1. UNCHANGED <<relay, stored, session>> /\ session # 0
  BY DEF BeginReject, Enters, remote, owned
<1>2. session \in Made BY <1>1, OwnedSession
<1>3. Become(session, x) BY DEF BeginReject
<1>4. x \in Entry /\ Fine(session, x) /\ x.attempts = entries[session].attempts
  BY <1>2, SweepFine
<1>5. x.token \in BOOLEAN BY <1>4 DEF Entry
<1>6. CASE x.status = "awaiting_confirmation" /\ x.token
  <2>1. Asks("reject", "reject", session, x.token) BY <1>6 DEF BeginReject
  <2>2. x.attempts = 0 BY <1>2, <1>6, EarlySession DEF Polled
  <2> QED BY <1>1, <1>2, <1>3, <1>4, <1>5, <2>1, <2>2, AsksEarly DEF Early, Calls
<1>7. CASE ~(x.status = "awaiting_confirmation" /\ x.token)
  <2>1. op' = op BY <1>7 DEF BeginReject
  <2> QED BY <1>1, <1>2, <1>3, <1>4, <2>1, BecomeKeeps DEF IInv, TypeInv
<1> QED BY <1>6, <1>7

\* confirm(): before the signature, or the provisioning again.
LEMMA BeginConfirmKeeps ==
  ASSUME IInv, BeginConfirm
  PROVE  IInv'
<1> DEFINE x == SweepEntry(session)
<1>1. UNCHANGED <<relay, stored, session>> /\ session # 0
  BY DEF BeginConfirm, Enters, remote, owned
<1>2. session \in Made BY <1>1, OwnedSession
<1>4. x \in Entry /\ Fine(session, x) /\ x.attempts = entries[session].attempts
  BY <1>2, SweepFine
<1>5. x.token \in BOOLEAN BY <1>4 DEF Entry
<1>6. CASE x.status \in {"confirmed", "provisioning"}
  <2>1. ProvisionLocked("confirm", session, x) BY <1>6 DEF BeginConfirm
  <2> QED BY <1>1, <1>2, <1>4, <2>1, ProvisionKeeps DEF Calls
<1>7. CASE x.status = "awaiting_confirmation" /\ x.token /\ x.known
  <2>1. Become(session, x) /\ Asks("confirm", "sign", session, x.token)
    BY <1>7 DEF BeginConfirm
  <2>2. x.attempts = 0 BY <1>2, <1>7, EarlySession DEF Polled
  <2> QED BY <1>1, <1>2, <1>4, <1>5, <2>1, <2>2, AsksEarly DEF Early, Calls
<1>8. CASE /\ x.status \notin {"confirmed", "provisioning"}
           /\ ~(x.status = "awaiting_confirmation" /\ x.token /\ x.known)
  <2>1. Become(session, x) /\ op' = op BY <1>8 DEF BeginConfirm
  <2> QED BY <1>1, <1>2, <1>4, <2>1, BecomeKeeps DEF IInv, TypeInv
<1> QED BY <1>6, <1>7, <1>8

\* The user's call and the retry differ in the status they ask for.
LEMMA BeginProvisionKeeps ==
  ASSUME IInv, BeginProvision \/ BeginRetry
  PROVE  IInv'
<1> DEFINE x == SweepEntry(session)
<1>1. UNCHANGED <<relay, stored, session>> /\ session # 0
  BY DEF BeginProvision, BeginRetry, Enters, remote, owned
<1>2. session \in Made BY <1>1, OwnedSession
<1>4. x \in Entry /\ Fine(session, x) /\ x.attempts = entries[session].attempts
  BY <1>2, SweepFine
<1>5. \/ ProvisionLocked("provision", session, x)
      \/ ProvisionLocked("retry", session, x)
      \/ Become(session, x) /\ op' = op
  BY DEF BeginProvision, BeginRetry
<1>6. CASE Become(session, x) /\ op' = op
  BY <1>1, <1>2, <1>4, <1>6, BecomeKeeps DEF IInv, TypeInv
<1>7. CASE ProvisionLocked("provision", session, x)
  BY <1>1, <1>2, <1>4, <1>7, ProvisionKeeps DEF Calls
<1>8. CASE ProvisionLocked("retry", session, x)
  BY <1>1, <1>2, <1>4, <1>8, ProvisionKeeps
<1> QED BY <1>5, <1>6, <1>7, <1>8

-----------------------------------------------------------------------------
(* The relay *)

\* A session at the relay that is not paired moves on, and not to paired.
LEMMA RelayMoves ==
  ASSUME IInv, NEW e \in Made, relay[e] # "paired",
         NEW s \in RelayStatus \ {"paired"}, relay' = [relay EXCEPT ![e] = s],
         UNCHANGED <<entries, session, stored, op>>
  PROVE  IInv'
<1>1. /\ relay' \in Seq(RelayStatus) /\ Len(relay') = Len(relay)
      /\ relay'[e] = s
      /\ \A f \in Made : f # e => relay'[f] = relay[f]
  BY ExceptSeq DEF IInv, TypeInv, Made
<1>2. TypeInv' BY <1>1 DEF IInv, TypeInv, Made
<1>3. \A f \in Made' : Sound(f)' BY <1>1 DEF IInv, Sound, Made
<1>4. OpSound' BY <1>1 DEF IInv, OpSound, Early, Later, Made
<1> QED BY <1>2, <1>3, <1>4 DEF IInv

\* The phone claims, a session expires, time passes.
LEMMA OutsideKeeps ==
  ASSUME IInv, Outside
  PROVE  IInv'
<1>1. PICK e \in Numbers : PhoneClaims(e) \/ RelayExpires(e) \/ TimePasses(e)
  BY DEF Outside
<1>2. CASE PhoneClaims(e)
  <2>1. "awaiting_confirmation" \in RelayStatus \ {"paired"} BY DEF RelayStatus, Polled
  <2> QED BY <1>2, <2>1, RelayMoves DEF PhoneClaims, history, owned
<1>3. CASE RelayExpires(e)
  <2>1. "expired" \in RelayStatus \ {"paired"} BY DEF RelayStatus, Terminal
  <2>2. relay[e] # "paired" BY <1>3 DEF RelayExpires, Polled
  <2> QED BY <1>3, <2>1, <2>2, RelayMoves DEF RelayExpires, owned
<1>4. CASE TimePasses(e) BY <1>4, SameKeeps DEF TimePasses, owned
<1> QED BY <1>1, <1>2, <1>3, <1>4

Requests == {"cancel", "reject", "read", "refresh", "confirm", "provision", "reconcile"}

\* What a request makes of a status, and what it may be told.
LEMMA Execution ==
  ASSUME NEW at \in Requests, NEW status \in RelayStatus
  PROVE  /\ Executed(at, status) \in RelayStatus
         /\ status = "paired" => Executed(at, status) = "paired"
         /\ Executed(at, status) = "paired" => status = "paired" \/ at = "provision"
BY DEF Executed, Requests, RelayStatus, Polled, Terminal

\* An answer is never better than the status it leaves.
LEMMA Replies ==
  ASSUME NEW at \in Requests, NEW status \in RelayStatus, NEW r \in Answers(at, status)
  PROVE  /\ r \in RelayStatus \cup {"ok", "notFound", "conflict", "failed"}
         /\ at \in {"read", "refresh"} => r \in RelayStatus \cup {"notFound"}
         /\ r = "paired" => status = "paired" /\ at \in {"read", "refresh", "reconcile"}
         /\ at = "provision" /\ r = "ok" => Executed(at, status) = "paired"
<1>1. CASE at \in {"read", "refresh", "reconcile"}
  BY <1>1 DEF Answers, RelayStatus, Polled, Terminal
<1>2. CASE at \in {"cancel", "reject", "confirm"}
  BY <1>2 DEF Answers, RelayStatus, Polled, Terminal
<1>3. CASE at = "provision"
  BY <1>3 DEF Answers, Executed, RelayStatus, Polled, Terminal
<1> QED BY <1>1, <1>2, <1>3 DEF Requests

\* The relay executes a request and answers it.
LEMMA RelayAnswersKeeps ==
  ASSUME IInv, RelayAnswers
  PROVE  IInv'
<1>1. /\ op.reply = "sent" /\ op \in Op /\ OpSound
      /\ UNCHANGED <<entries, session, stored>>
  BY DEF RelayAnswers, IInv, TypeInv, history, owned
<1>2. CASE op.at = "create"
  <2>1. op' = [op EXCEPT !.reply = "ok"] /\ UNCHANGED relay
    BY <1>2 DEF RelayAnswers
  <2>2. op' \in Op BY <1>1, <2>1 DEF Op
  <2>3. OpSound' BY <1>1, <1>2, <2>1 DEF OpSound, Early, Later, Op
  <2> QED BY <1>1, <2>1, <2>2, <2>3, OpChanges
<1>3. CASE op.at # "create" /\ ~op.token
  <2>1. op' = [op EXCEPT !.reply = "notFound"] /\ UNCHANGED relay
    BY <1>3 DEF RelayAnswers
  <2>2. op' \in Op BY <1>1, <2>1 DEF Op
  <2>3. op.at \notin {"none", "sign", "store"} BY <1>1 DEF OpSound
  <2>4. OpSound' BY <1>1, <1>3, <2>1, <2>3 DEF OpSound, Early, Later, Op, Made
  <2> QED BY <1>1, <2>1, <2>2, <2>4, OpChanges
<1>4. CASE op.at # "create" /\ op.token
  <2> DEFINE e == op.entry
             at == op.at
             s == Executed(at, relay[e])
  <2>1. at \in Requests /\ e \in Made
    BY <1>1, <1>4 DEF OpSound, Op, Requests, Early, Later
  <2>2. relay[e] \in RelayStatus BY <2>1, Types DEF IInv
  <2>3. relay' = [relay EXCEPT ![e] = s] BY <1>4 DEF RelayAnswers
  <2>4. PICK r \in Answers(at, relay[e]) : op' = [op EXCEPT !.reply = r]
    BY <1>4 DEF RelayAnswers
  <2>5. /\ s \in RelayStatus
        /\ relay[e] = "paired" => s = "paired"
        /\ s = "paired" => relay[e] = "paired" \/ at = "provision"
    BY <2>1, <2>2, Execution
  <2>6. /\ r \in RelayStatus \cup {"ok", "notFound", "conflict", "failed"}
        /\ at \in {"read", "refresh"} => r \in RelayStatus \cup {"notFound"}
        /\ r = "paired" => relay[e] = "paired" /\ at \in {"read", "refresh", "reconcile"}
        /\ at = "provision" /\ r = "ok" => s = "paired"
    BY <2>1, <2>2, <2>4, Replies
  <2>7. /\ op'.at = at /\ op'.entry = e /\ op'.kind = op.kind /\ op'.reply = r
    BY <1>1, <2>4 DEF Op
  <2>8. op' \in Op BY <1>1, <2>4, <2>6 DEF Op
  <2> HIDE DEF s
  <2>9. /\ relay' \in Seq(RelayStatus) /\ Len(relay') = Len(relay)
        /\ relay'[e] = s
        /\ \A f \in Made : f # e => relay'[f] = relay[f]
    BY <2>1, <2>3, <2>5, ExceptSeq DEF IInv, TypeInv, Made
  <2>10. Sound(e) BY <2>1 DEF IInv
  <2>11. at \in Early => entries[e].attempts = 0 BY <1>1 DEF OpSound
  <2>12. at \in Later => entries[e].attempts > 0 BY <1>1 DEF OpSound
  <2>13. at = "provision" => entries[e].attempts > 0 BY <2>12 DEF Later
  <2>14. entries[e].attempts \in Nat BY <2>1, Types DEF IInv, Entry
  <2>15. TypeInv' BY <1>1, <2>8, <2>9 DEF IInv, TypeInv, Made
  <2>16. ASSUME NEW f \in Made PROVE Sound(f)'
    <3>1. Sound(f) BY DEF IInv
    <3>2. CASE f = e BY <1>1, <2>5, <2>9, <2>10, <2>13, <3>2 DEF Sound
    <3>3. CASE f # e BY <1>1, <2>9, <3>1, <3>3 DEF Sound
    <3> QED BY <3>2, <3>3
  <2>17. at \in Early => r # "paired"
    BY <2>6, <2>10, <2>11, <2>14 DEF Sound
  <2>18. OpSound'
    <3>1. op'.at \notin {"none", "sign", "store"} BY <2>1, <2>7 DEF Requests
    <3>2. op'.entry \in Made' /\ op'.kind # "none"
      BY <1>1, <2>1, <2>7 DEF OpSound, Made, Requests, Early, Later
    <3>3. op'.at = "reconcile" /\ op'.reply = "paired" => relay'[op'.entry] = "paired"
      BY <2>5, <2>6, <2>7, <2>9
    <3>4. op'.at = "provision" /\ op'.reply = "ok" => relay'[op'.entry] = "paired"
      BY <2>6, <2>7, <2>9
    <3> QED BY <1>1, <2>6, <2>7, <2>11, <2>12, <2>17, <3>1, <3>2, <3>3, <3>4 DEF OpSound
  <2> QED BY <1>1, <2>15, <2>16, <2>18 DEF IInv, Made
<1> QED BY <1>1, <1>2, <1>3, <1>4 DEF Op

-----------------------------------------------------------------------------
(* The answers *)

\* The entry of a call that goes on.
LEMMA Going ==
  ASSUME IInv, op.at \in Early \cup Later
  PROVE  /\ op \in Op /\ op.entry \in Made /\ op.kind \in Calls \cup {"retry"}
         /\ entries[op.entry] \in Entry
         /\ op.at \in Early => entries[op.entry].attempts = 0
         /\ op.at \in Later => entries[op.entry].attempts > 0
<1>1. op \in Op /\ OpSound BY DEF IInv, TypeInv
<1>2. op.entry \in Made /\ op.kind # "none" BY <1>1 DEF OpSound
<1>3. op.kind \in Calls \cup {"retry"} BY <1>1, <1>2 DEF Op
<1>4. entries[op.entry] \in Entry BY <1>2, Types DEF IInv
<1> QED BY <1>1, <1>2, <1>3, <1>4 DEF OpSound

\* create(): a new session and its entry.
LEMMA CreatedKeeps ==
  ASSUME IInv, Created
  PROVE  IInv'
<1>1. op' = Idle /\ UNCHANGED stored BY DEF Created, history
<1>2. CASE op.reply = "ok"
  <2>1. /\ relay' = Append(relay, "pending") /\ entries' = Append(entries, NewEntry)
        /\ session' = Len(entries) + 1
    BY <1>2 DEF Created
  <2>2. NewEntry \in Entry BY DEF NewEntry, Entry, Expirable, Polled
  <2>3. "pending" \in RelayStatus BY DEF RelayStatus, Polled
  <2>4. /\ relay \in Seq(RelayStatus) /\ entries \in Seq(Entry) /\ Len(relay) = Len(entries)
    BY DEF IInv, TypeInv
  <2>5. /\ entries' \in Seq(Entry) /\ Len(entries') = Len(entries) + 1
        /\ \A f \in Made : entries'[f] = entries[f]
        /\ entries'[Len(entries) + 1] = NewEntry
    BY <2>1, <2>2, <2>4, AppendProperties DEF Made
  <2>6. /\ relay' \in Seq(RelayStatus) /\ Len(relay') = Len(entries) + 1
        /\ \A f \in Made : relay'[f] = relay[f]
        /\ relay'[Len(entries) + 1] = "pending"
    BY <2>1, <2>3, <2>4, AppendProperties DEF Made
  <2>7. Len(entries) \in Nat /\ Made' = Made \cup {Len(entries) + 1}
    BY <2>4, <2>5, LenProperties DEF Made
  <2>10. stored' \subseteq Made' BY <1>1, <2>7 DEF IInv, TypeInv
  <2>11. session' \in 0..Len(entries') BY <2>1, <2>5, <2>7
  <2>8. TypeInv' BY <1>1, <2>5, <2>6, <2>10, <2>11, IdleType DEF TypeInv
  <2>9. ASSUME NEW f \in Made' PROVE Sound(f)'
    <3>1. CASE f \in Made
      <4>1. Sound(f) BY <3>1 DEF IInv
      <4> QED BY <1>1, <2>5, <2>6, <3>1, <4>1 DEF Sound
    <3>2. CASE f = Len(entries) + 1
      <4>1. f \notin stored BY <2>7, <3>2 DEF IInv, TypeInv, Made
      <4> QED BY <1>1, <2>5, <2>6, <3>2, <4>1 DEF Sound, NewEntry
    <3> QED BY <2>7, <3>1, <3>2
  <2> QED BY <1>1, <2>8, <2>9, IdleSound DEF IInv
<1>3. CASE op.reply # "ok"
  <2>1. UNCHANGED <<relay, entries, session>> BY <1>3 DEF Created
  <2> QED BY <1>1, <2>1, IdleType, IdleSound, OpChanges
<1> QED BY <1>2, <1>3

\* ApplyRemoteStatus keeps the attempts, and what it ends it does not pair,
\* unless the relay says so.
LEMMA ApplyFine ==
  ASSUME IInv, NEW e \in Made, NEW s \in RelayStatus,
         s = "paired" => entries[e].status \in Intermediate,
         entries[e].attempts = 0 \/ s \in Terminal
  PROVE  LET x == ApplyRemoteStatus(entries[e], s) IN
         x \in Entry /\ Fine(e, x) /\ x.attempts = entries[e].attempts
<1>1. entries[e] \in Entry /\ Fine(e, entries[e]) BY SameFine
<1>2. CASE entries[e].status \in Intermediate /\ s \in {"paired", "confirmed"}
  BY <1>1, <1>2 DEF ApplyRemoteStatus
<1>3. CASE ~(entries[e].status \in Intermediate /\ s \in {"paired", "confirmed"})
           /\ s \in Terminal
  <2>1. s # "paired" BY <1>3
  <2>2. ApplyRemoteStatus(entries[e], s) = Ended(entries[e], s)
    BY <1>3 DEF ApplyRemoteStatus
  <2> QED BY <1>1, <1>3, <2>1, <2>2, EndFine
<1>4. CASE ~(entries[e].status \in Intermediate /\ s \in {"paired", "confirmed"})
           /\ s \notin Terminal
  <2> DEFINE known == entries[e].known \/ s = "awaiting_confirmation"
  <2>1. ApplyRemoteStatus(entries[e], s) = [entries[e] EXCEPT !.status = s, !.known = known]
    BY <1>1, <1>4 DEF ApplyRemoteStatus, Entry
  <2>2. s \in Expirable \cup Terminal /\ s # "paired"
    BY <1>4 DEF RelayStatus, Expirable, Terminal
  <2>3. known \in BOOLEAN BY <1>1 DEF Entry
  <2>4. entries[e].attempts = 0 BY <1>4
  <2> HIDE DEF known
  <2> DEFINE z == [entries[e] EXCEPT !.status = s]
  <2>5. z \in Entry /\ z.status = s /\ z.attempts = 0 BY <1>1, <2>2, <2>4 DEF Entry
  <2>6. ApplyRemoteStatus(entries[e], s) = [z EXCEPT !.known = known] BY <2>1
  <2> HIDE DEF z
  <2>7. /\ [z EXCEPT !.known = known] \in Entry
        /\ [z EXCEPT !.known = known].status = s
        /\ [z EXCEPT !.known = known].attempts = 0
    BY <2>3, <2>5 DEF Entry
  <2> QED BY <2>2, <2>4, <2>6, <2>7 DEF Fine
<1> QED BY <1>2, <1>3, <1>4

\* poll(): the answer.
LEMMA PollAnsweredKeeps ==
  ASSUME IInv, PollAnswered
  PROVE  IInv'
<1> DEFINE e == op.entry
           x == CASE op.reply = "unavailable" -> entries[op.entry]
                  [] op.reply = "notFound" -> Ended(entries[op.entry], "expired")
                  [] OTHER -> ApplyRemoteStatus(entries[op.entry], op.reply)
<1>1. /\ op.at = "read" /\ op.reply # "sent" /\ op' = Idle /\ Become(e, x)
      /\ UNCHANGED <<relay, stored, session>>
  BY DEF PollAnswered, Answered, owned, history
<1>2. e \in Made /\ entries[e].attempts = 0 /\ entries[e] \in Entry
  BY <1>1, Going DEF Early
<1>3. op.reply \in RelayStatus \cup {"unavailable", "notFound"} /\ op.reply # "paired"
  BY <1>1 DEF IInv, OpSound, Early
<1>4. x \in Entry /\ Fine(e, x) /\ x.attempts = entries[e].attempts
  <2>1. CASE op.reply = "unavailable" BY <1>2, <2>1, SameFine
  <2>2. CASE op.reply = "notFound"
    <3>1. "expired" \in Terminal \ {"paired"} BY DEF Terminal
    <3>2. x = Ended(entries[e], "expired") BY <2>2
    <3> QED BY <1>2, <3>1, <3>2, EndFine
  <2>3. CASE op.reply \notin {"unavailable", "notFound"}
    <3>1. x = ApplyRemoteStatus(entries[e], op.reply) BY <2>3
    <3> QED BY <1>2, <1>3, <2>3, <3>1, ApplyFine
  <2> QED BY <2>1, <2>2, <2>3
<1> QED BY <1>1, <1>2, <1>4, BecomeKeeps DEF IInv, TypeInv

\* refreshAfterConflict(): the answer.
LEMMA RefreshedKeeps ==
  ASSUME IInv, Refreshed
  PROVE  IInv'
<1> DEFINE e == op.entry
           x == IF op.reply \in {"unavailable", "notFound"} THEN entries[op.entry]
                ELSE ApplyRemoteStatus(entries[op.entry], op.reply)
<1>1. /\ op.at = "refresh" /\ op.reply # "sent" /\ op' = Idle /\ Become(e, x)
      /\ UNCHANGED <<relay, stored, session>>
  BY DEF Refreshed, Answered, owned, history
<1>2. e \in Made /\ entries[e].attempts = 0 /\ entries[e] \in Entry
  BY <1>1, Going DEF Early
<1>3. op.reply \in RelayStatus \cup {"unavailable", "notFound"} /\ op.reply # "paired"
  BY <1>1 DEF IInv, OpSound, Early
<1>4. x \in Entry /\ Fine(e, x) /\ x.attempts = entries[e].attempts
  <2>1. CASE op.reply \in {"unavailable", "notFound"} BY <1>2, <2>1, SameFine
  <2>3. CASE op.reply \notin {"unavailable", "notFound"}
    BY <1>2, <1>3, <2>3, ApplyFine
  <2> QED BY <2>1, <2>3
<1> QED BY <1>1, <1>2, <1>4, BecomeKeeps DEF IInv, TypeInv

\* cancel(): the answer, whatever it is.
LEMMA CancelAnsweredKeeps ==
  ASSUME IInv, CancelAnswered
  PROVE  IInv'
<1>1. /\ op.at = "cancel" /\ op' = Idle
      /\ Become(op.entry, Ended(entries[op.entry], "cancelled"))
      /\ UNCHANGED <<relay, stored, session>>
  BY DEF CancelAnswered, Answered, owned, history
<1>2. op.entry \in Made /\ entries[op.entry] \in Entry BY <1>1, Going DEF Early
<1>3. "cancelled" \in Terminal \ {"paired"} BY DEF Terminal
<1>4. session' \in 0..Len(entries) BY <1>1 DEF IInv, TypeInv
<1> QED BY <1>1, <1>2, <1>3, <1>4, EndFine, BecomeKeeps

\* refreshAfterConflict
LEMMA RefreshKeeps ==
  ASSUME IInv, op.at \in Early, Refresh(entries[op.entry]),
         UNCHANGED <<relay, stored, session>>
  PROVE  IInv'
<1> DEFINE e == op.entry
           x == entries[e]
<1>1. /\ e \in Made /\ op.kind \in Calls \cup {"retry"} /\ x \in Entry /\ x.attempts = 0
  BY Going
<1>2. Fine(e, x) /\ x.token \in BOOLEAN BY <1>1, SameFine DEF Entry
<1>3. Become(e, x) /\ (Asks(op.kind, "refresh", e, x.token) \/ op' = Idle)
  BY DEF Refresh
<1> HIDE DEF x, e
<1>4. CASE op' = Idle
  <2>1. x.attempts = entries[e].attempts BY DEF x
  <2> QED BY <1>1, <1>2, <1>3, <1>4, <2>1, BecomeKeeps DEF IInv, TypeInv
<1>5. CASE Asks(op.kind, "refresh", e, x.token)
  BY <1>1, <1>2, <1>3, <1>5, AsksEarly DEF Early
<1> QED BY <1>3, <1>4, <1>5

\* reject(): the answer.
LEMMA RejectAnsweredKeeps ==
  ASSUME IInv, RejectAnswered
  PROVE  IInv'
<1>1. op.at = "reject" /\ UNCHANGED <<relay, stored, session>>
  BY DEF RejectAnswered, Answered, owned, history
<1>2. op.entry \in Made /\ entries[op.entry] \in Entry BY <1>1, Going DEF Early
<1>3. CASE op.reply = "ok"
  <2>1. Become(op.entry, Ended(entries[op.entry], "rejected")) /\ op' = Idle
    BY <1>3 DEF RejectAnswered
  <2>2. "rejected" \in Terminal \ {"paired"} BY DEF Terminal
  <2>3. session' \in 0..Len(entries) BY <1>1 DEF IInv, TypeInv
  <2> QED BY <1>1, <1>2, <2>1, <2>2, <2>3, EndFine, BecomeKeeps
<1>4. CASE op.reply \in {"conflict", "expired"}
  <2>1. Refresh(entries[op.entry]) BY <1>4 DEF RejectAnswered
  <2> QED BY <1>1, <2>1, RefreshKeeps DEF Early
<1>5. CASE op.reply \notin {"ok", "conflict", "expired"}
  <2>1. UNCHANGED entries /\ op' = Idle BY <1>5 DEF RejectAnswered
  <2> QED BY <1>1, <2>1, IdleType, IdleSound, OpChanges
<1> QED BY <1>3, <1>4, <1>5

\* confirm(): the signature is there, and is sent.
LEMMA SignedKeeps ==
  ASSUME IInv, Signed
  PROVE  IInv'
<1> DEFINE e == op.entry
           x == [entries[e] EXCEPT !.status = "confirming"]
<1>1. /\ op.at = "sign" /\ UNCHANGED <<relay, stored, session>>
      /\ Become(e, x) /\ Asks("confirm", "confirm", e, entries[e].token)
  BY DEF Signed, remote, owned, history
<1>2. e \in Made /\ entries[e] \in Entry /\ entries[e].attempts = 0 BY <1>1, Going DEF Early
<1>3. x \in Entry /\ x.attempts = 0 /\ x.status = "confirming"
  BY <1>2 DEF Entry, Expirable
<1>4. entries[e].token \in BOOLEAN BY <1>2 DEF Entry
<1> HIDE DEF x
<1>5. Fine(e, x) BY <1>2, <1>3 DEF Fine
<1> QED BY <1>1, <1>2, <1>3, <1>4, <1>5, AsksEarly DEF Early, Calls

\* confirm(): no signature.
LEMMA SignFailsKeeps ==
  ASSUME IInv, SignFails
  PROVE  IInv'
BY IdleType, IdleSound, OpChanges DEF SignFails, remote, owned, history

\* confirm(): the answer; the provisioning follows at once.
LEMMA ConfirmAnsweredKeeps ==
  ASSUME IInv, ConfirmAnswered
  PROVE  IInv'
<1> DEFINE e == op.entry
           x == entries[e]
<1>1. op.at = "confirm" /\ UNCHANGED <<relay, stored, session>>
  BY DEF ConfirmAnswered, Answered, owned, history
<1>2. e \in Made /\ x \in Entry /\ x.attempts = 0 BY <1>1, Going DEF Early
<1>3. CASE op.reply = "ok"
  <2> DEFINE y == [x EXCEPT !.status = "confirmed"]
  <2>1. ProvisionLocked("confirm", e, y) BY <1>3 DEF ConfirmAnswered
  <2>2. y \in Entry /\ y.attempts = entries[e].attempts BY <1>2 DEF Entry, Expirable
  <2> HIDE DEF y
  <2> QED BY <1>1, <1>2, <2>1, <2>2, ProvisionKeeps DEF Calls
<1>4. CASE op.reply \in {"conflict", "expired"}
  <2>1. Refresh(entries[op.entry]) BY <1>4 DEF ConfirmAnswered
  <2> QED BY <1>1, <2>1, RefreshKeeps DEF Early
<1>5. CASE op.reply \notin {"ok", "conflict", "expired"}
  <2> DEFINE y == [x EXCEPT !.status = "awaiting_confirmation"]
  <2>1. Become(e, y) /\ op' = Idle BY <1>5 DEF ConfirmAnswered
  <2>2. /\ y \in Entry /\ y.attempts = 0 /\ y.attempts = entries[e].attempts
        /\ y.status = "awaiting_confirmation"
    BY <1>2 DEF Entry, Expirable, Polled
  <2> HIDE DEF y
  <2>3. Fine(e, y) BY <1>2, <2>2 DEF Fine
  <2>4. session' \in 0..Len(entries) BY <1>1 DEF IInv, TypeInv
  <2> QED BY <1>1, <1>2, <2>1, <2>2, <2>3, <2>4, BecomeKeeps
<1> QED BY <1>3, <1>4, <1>5

\* The provisioning is to be tried again.
LEMMA StaysConfirmedKeeps ==
  ASSUME IInv, op.at \in Later, UNCHANGED <<relay, session, stored>>,
         Become(op.entry, [entries[op.entry] EXCEPT !.status = "confirmed"]), op' = Idle
  PROVE  IInv'
<1> DEFINE e == op.entry
           y == [entries[e] EXCEPT !.status = "confirmed"]
<1>1. e \in Made /\ entries[e] \in Entry /\ entries[e].attempts > 0 BY Going
<1>2. /\ y \in Entry /\ y.attempts = entries[e].attempts /\ y.status = "confirmed"
  BY <1>1 DEF Entry, Expirable
<1>3. Become(e, y) OBVIOUS
<1>4. session' \in 0..Len(entries) BY DEF IInv, TypeInv
<1> HIDE DEF y
<1>5. Fine(e, y) BY <1>1, <1>2 DEF Fine, Past
<1> QED BY <1>1, <1>2, <1>3, <1>4, <1>5, BecomeKeeps

\* A request of the provisioning, of the same entry.
LEMMA AsksMore ==
  ASSUME IInv, op.at \in Later, UNCHANGED <<relay, entries, session, stored>>,
         NEW at \in Later, NEW token \in BOOLEAN, Asks(op.kind, at, op.entry, token),
         at = "store" => relay[op.entry] = "paired"
  PROVE  IInv'
<1> DEFINE e == op.entry
           kind == op.kind
<1>1. e \in Made /\ kind \in Calls \cup {"retry"} /\ entries[e].attempts > 0 BY Going
<1>2. Become(e, entries[e]) BY <1>1, SameBecome
<1>3. entries[e] \in Entry /\ Fine(e, entries[e]) BY <1>1, SameFine
<1>4. Asks(kind, at, e, token) /\ (at = "store" => relay[e] = "paired") OBVIOUS
<1> HIDE DEF e, kind
<1> QED BY <1>1, <1>2, <1>3, <1>4, AsksLater

\* provisionLocked(): the answer.
LEMMA ProvisionAnsweredKeeps ==
  ASSUME IInv, ProvisionAnswered
  PROVE  IInv'
<1>1. op.at = "provision" /\ op.at \in Later /\ UNCHANGED <<relay, stored, session>>
  BY DEF ProvisionAnswered, Answered, owned, history, Later
<1>2. op.entry \in Made /\ entries[op.entry] \in Entry BY <1>1, Going
<1>3. CASE op.reply = "ok"
  <2>1. Asks(op.kind, "store", op.entry, FALSE) /\ UNCHANGED entries
    BY <1>3 DEF ProvisionAnswered
  <2>2. relay[op.entry] = "paired" BY <1>1, <1>3 DEF IInv, OpSound
  <2> QED BY <1>1, <2>1, <2>2, AsksMore DEF Later
<1>4. CASE op.reply = "conflict"
  <2>1. Asks(op.kind, "reconcile", op.entry, entries[op.entry].token) /\ UNCHANGED entries
    BY <1>4 DEF ProvisionAnswered
  <2>2. entries[op.entry].token \in BOOLEAN BY <1>2 DEF Entry
  <2> QED BY <1>1, <2>1, <2>2, AsksMore DEF Later
<1>5. CASE op.reply = "expired"
  <2>1. Become(op.entry, Ended(entries[op.entry], "expired")) /\ op' = Idle
    BY <1>5 DEF ProvisionAnswered
  <2>2. "expired" \in Terminal \ {"paired"} BY DEF Terminal
  <2>3. session' \in 0..Len(entries) BY <1>1 DEF IInv, TypeInv
  <2> QED BY <1>1, <1>2, <2>1, <2>2, <2>3, EndFine, BecomeKeeps
<1>6. CASE op.reply \notin {"ok", "conflict", "expired"}
  BY <1>1, <1>6, StaysConfirmedKeeps DEF ProvisionAnswered, StaysConfirmed
<1> QED BY <1>3, <1>4, <1>5, <1>6

\* reconcileFromStatus(): what the relay has is stored, ended or tried again.
LEMMA ReconciledKeeps ==
  ASSUME IInv, Reconciled
  PROVE  IInv'
<1>1. op.at = "reconcile" /\ op.at \in Later /\ UNCHANGED <<relay, stored, session>>
  BY DEF Reconciled, Answered, owned, history, Later
<1>2. op.entry \in Made /\ entries[op.entry] \in Entry BY <1>1, Going
<1>3. CASE op.reply = "paired"
  <2>1. Asks(op.kind, "store", op.entry, FALSE) /\ UNCHANGED entries
    BY <1>3 DEF Reconciled
  <2>2. relay[op.entry] = "paired" BY <1>1, <1>3 DEF IInv, OpSound
  <2> QED BY <1>1, <2>1, <2>2, AsksMore DEF Later
<1>4. CASE op.reply \in Terminal \ {"paired"}
  <2> DEFINE x == ApplyRemoteStatus(entries[op.entry], op.reply)
  <2>1. Become(op.entry, x) /\ op' = Idle BY <1>4 DEF Reconciled
  <2>2. op.reply \in RelayStatus BY <1>4 DEF RelayStatus
  <2>3. x \in Entry /\ Fine(op.entry, x) /\ x.attempts = entries[op.entry].attempts
    BY <1>2, <1>4, <2>2, ApplyFine
  <2>4. session' \in 0..Len(entries) BY <1>1 DEF IInv, TypeInv
  <2> QED BY <1>1, <1>2, <2>1, <2>3, <2>4, BecomeKeeps
<1>5. CASE op.reply \notin Terminal
  BY <1>1, <1>5, StaysConfirmedKeeps DEF Reconciled, StaysConfirmed, Terminal
<1> QED BY <1>3, <1>4, <1>5

\* finalizePaired: the relay has the session as paired.
LEMMA StoredKeeps ==
  ASSUME IInv, Stored
  PROVE  IInv'
<1> DEFINE e == op.entry
           x == Ended(entries[e], "paired")
<1>1. /\ op.at = "store" /\ UNCHANGED <<relay, session>> /\ op' = Idle
      /\ stored' = stored \cup {e} /\ Become(e, x)
  BY DEF Stored, remote, owned
<1>2. e \in Made /\ entries[e] \in Entry /\ entries[e].attempts > 0
  BY <1>1, Going DEF Later
<1>3. relay[e] = "paired" BY <1>1 DEF IInv, OpSound
<1>4. x \in Entry /\ x.attempts = entries[e].attempts /\ x.status = "paired"
  BY <1>2 DEF Ended, Entry, Terminal
<1> HIDE DEF x
<1>5. /\ entries' \in Seq(Entry) /\ Len(entries') = Len(entries)
      /\ Made' = Made /\ entries'[e] = x
      /\ \A f \in Made : f # e => entries'[f] = entries[f]
  BY <1>1, <1>2, <1>4, BecomeTypes DEF IInv
<1>6. TypeInv' BY <1>1, <1>2, <1>5, IdleType DEF IInv, TypeInv
<1>7. ASSUME NEW f \in Made PROVE Sound(f)'
  <2>1. CASE f = e BY <1>1, <1>2, <1>3, <1>4, <1>5, <2>1 DEF Sound, Past, Terminal
  <2>2. CASE f # e
    <3>1. Sound(f) BY DEF IInv
    <3> QED BY <1>1, <1>5, <2>2, <3>1 DEF Sound
  <2> QED BY <2>1, <2>2
<1> QED BY <1>1, <1>5, <1>6, <1>7, IdleSound DEF IInv

\* finalizePaired(): the identity cannot be written.
LEMMA StoreFailsKeeps ==
  ASSUME IInv, StoreFails
  PROVE  IInv'
BY StaysConfirmedKeeps DEF StoreFails, remote, owned, Later

-----------------------------------------------------------------------------
(* The rest *)

\* sweepAll(): without the lock.
LEMMA SweepKeeps ==
  ASSUME IInv, Sweep
  PROVE  IInv'
<1>1. /\ session # 0 /\ Become(session, SweepEntry(session)) /\ op' = op
      /\ UNCHANGED <<relay, stored, session>>
  BY DEF Sweep, remote, owned, history
<1>2. session \in Made BY <1>1, OwnedSession
<1>3. session' \in 0..Len(entries) BY <1>1 DEF IInv, TypeInv
<1> QED BY <1>1, <1>2, <1>3, SweepFine, BecomeKeeps

\* An entry is forgotten, or its owner signs out: the token goes.
LEMMA ForgetKeeps ==
  ASSUME IInv, Forget \/ SignOut
  PROVE  IInv'
<1> DEFINE x == [entries[session] EXCEPT !.token = FALSE]
<1>1. /\ session # 0 /\ Become(session, x) /\ op' = op /\ session' = 0
      /\ UNCHANGED <<relay, stored>>
  BY DEF Forget, SignOut, remote, owned, history
<1>2. session \in Made BY <1>1, OwnedSession
<1>3. session' \in 0..Len(entries) BY <1>1, Types DEF IInv
<1>4. x \in Entry /\ Fine(session, x) /\ x.attempts = entries[session].attempts
  BY <1>2, TokenFine
<1> QED BY <1>1, <1>2, <1>3, <1>4, BecomeKeeps

\* A restart: every entry without its token, no call.
LEMMA RestartKeeps ==
  ASSUME IInv, Restart
  PROVE  IInv'
<1>1. /\ entries' = [e \in Made |-> [entries[e] EXCEPT !.token = FALSE]]
      /\ session' = 0 /\ op' = Idle /\ UNCHANGED <<relay, stored>>
  BY DEF Restart, remote
<1>2. Len(entries) \in Nat /\ Made = 1..Len(entries) BY Types DEF IInv
<1>3. \A e \in Made : /\ entries'[e] \in Entry
                      /\ entries'[e].attempts = entries[e].attempts
                      /\ entries'[e].status = entries[e].status
  BY <1>1, SameFine DEF Entry
<1>4. entries' \in [1..Len(entries) -> Entry] BY <1>1, <1>2, <1>3
<1>5. entries' \in Seq(Entry) /\ Len(entries') = Len(entries)
  BY <1>2, <1>4, SeqDef, LenProperties
<1>6. Made' = Made BY <1>5 DEF Made
<1>7. TypeInv' BY <1>1, <1>2, <1>5, <1>6, IdleType DEF IInv, TypeInv
<1>8. \A e \in Made : Sound(e)' BY <1>1, <1>3 DEF IInv, Sound
<1> QED BY <1>1, <1>6, <1>7, <1>8, IdleSound DEF IInv

\* An answer is lost.
LEMMA RelayUnavailableKeeps ==
  ASSUME IInv, RelayUnavailable
  PROVE  IInv'
<1>1. /\ op' = [op EXCEPT !.reply = "unavailable"] /\ op.reply # "none"
      /\ UNCHANGED <<relay, entries, session, stored>>
  BY DEF RelayUnavailable, remote, owned, history
<1>2. op \in Op /\ OpSound BY DEF IInv, TypeInv
<1>3. op' \in Op BY <1>1, <1>2 DEF Op
<1>4. op.at \notin {"none", "sign", "store"} BY <1>1, <1>2 DEF OpSound
<1>5. OpSound' BY <1>1, <1>2, <1>4 DEF OpSound, Op, Made
<1> QED BY <1>1, <1>3, <1>5, OpChanges

\* A call is made and waits, or finds no session.
LEMMA UserKeeps ==
  ASSUME IInv, User \/ RetryTimeout \/ NoSession
  PROVE  IInv'
<1>1. CASE PagePolls \/ RetryTimeout \/ NoSession \/ \E kind \in Calls : Call(kind)
  <2>1. UNCHANGED <<relay, entries, session, stored, op>>
    BY <1>1 DEF PagePolls, RetryTimeout, NoSession, Call, Enters, remote, owned, history
  <2> QED BY <2>1, SameKeeps
<1>2. CASE SignOut BY <1>2, ForgetKeeps
<1> QED BY <1>1, <1>2 DEF User

\* The invariant holds at first, and every step keeps it.
LEMMA InitSound == Init => IInv
<1> SUFFICES ASSUME Init PROVE IInv
  OBVIOUS
<1>1. /\ relay = <<>> /\ entries = <<>> /\ session = 0 /\ stored = {} /\ op = Idle
      /\ Len(entries) = 0 /\ Made = {}
  BY DEF Init, Made
<1>2. TypeInv BY <1>1, IdleType DEF TypeInv
<1>3. OpSound BY <1>1 DEF OpSound, Idle, Early, Later
<1> QED BY <1>1, <1>2, <1>3 DEF IInv

LEMMA NextKeeps == IInv /\ [Next]_vars => IInv'
<1> SUFFICES ASSUME IInv, [Next]_vars PROVE IInv'
  OBVIOUS
<1>1. CASE Begin
  BY <1>1, UserKeeps, BeginCreateKeeps, BeginPollKeeps, BeginCancelKeeps,
     BeginRejectKeeps, BeginConfirmKeeps, BeginProvisionKeeps DEF Begin
<1>2. CASE Continue
  BY <1>2, CreatedKeeps, PollAnsweredKeeps, CancelAnsweredKeeps, RejectAnsweredKeeps,
     SignedKeeps, ConfirmAnsweredKeeps, RefreshedKeeps, ProvisionAnsweredKeeps,
     ReconciledKeeps, StoredKeeps
  DEF Continue
<1>3. CASE Faults
  BY <1>3, RelayUnavailableKeeps, SignFailsKeeps, StoreFailsKeeps, RestartKeeps DEF Faults
<1>4. CASE User \/ RetryTimeout BY <1>4, UserKeeps
<1>5. CASE RelayAnswers BY <1>5, RelayAnswersKeeps
<1>6. CASE Sweep \/ Forget BY <1>6, SweepKeeps, ForgetKeeps
<1>7. CASE Outside BY <1>7, OutsideKeeps
<1>8. CASE UNCHANGED vars BY <1>8, SameKeeps DEF vars, remote, owned, history
<1> QED BY <1>1, <1>2, <1>3, <1>4, <1>5, <1>6, <1>7, <1>8 DEF Next

\* PairedIsStored: homeESS shows a phone as paired only when its identity was
\* stored (finalizePaired), and stores it only when the relay has the session
\* as paired, whatever answers are lost and whenever the process is restarted.
THEOREM PairedMeansStored == Spec => []PairedIsStored
<1>1. IInv => PairedIsStored BY DEF IInv, Sound, PairedIsStored
<1> QED BY <1>1, InitSound, NextKeeps, PTL DEF Spec
-----------------------------------------------------------------------------
(* A session that is over *)

\* A call that is under way is about a session that is not over, unless the
\* sweep ended it in the meantime.
Reopens(x) == x.status \notin Terminal \ {"expired"}

OpOpen ==
  /\ op.entry # 0 => op.entry \in Made /\ Reopens(entries[op.entry])
  /\ op.at \in {"none", "create"} => op.entry = 0

\* What a step does to the sessions no call is about.
Over ==
  \A e \in Made \ {op.entry} :
     entries[e].status \in Terminal => entries'[e].status \in Terminal

\* One entry becomes x; the call, if it goes on, is about an open one.
LEMMA BecomeOver ==
  ASSUME IInv, IInv', OpOpen, NEW e \in Made, NEW x, Become(e, x),
         e = op.entry \/ (entries[e].status \in Terminal => x.status \in Terminal),
         \/ op' = Idle
         \/ Asks("create", "create", 0, FALSE)
         \/ op' = op /\ (op.entry = e => Reopens(x))
         \/ /\ op'.entry = e /\ Reopens(x)
            /\ op'.at \notin {"none", "create"}
  PROVE  Over /\ OpOpen'
<1>1. /\ Made = DOMAIN entries /\ Made' = DOMAIN entries'
      /\ entries' = [entries EXCEPT ![e] = x] /\ 0 \notin Made
  BY LenProperties DEF IInv, TypeInv, Made, Become
<1>2. /\ Made' = Made /\ entries'[e] = x
      /\ \A f \in Made : f # e => entries'[f] = entries[f]
  BY <1>1
<1>3. Over BY <1>2 DEF Over
<1>4. OpOpen'
  <2>1. CASE op' = Idle BY <2>1 DEF OpOpen, Idle
  <2>2. CASE Asks("create", "create", 0, FALSE) BY <2>2 DEF Asks, OpOpen
  <2>3. CASE op' = op /\ (op.entry = e => Reopens(x)) BY <1>2, <2>3 DEF OpOpen, Reopens
  <2>4. CASE op'.entry = e /\ Reopens(x) /\ op'.at \notin {"none", "create"}
    BY <1>2, <2>4 DEF OpOpen, Reopens
  <2> QED BY <2>1, <2>2, <2>3, <2>4
<1> QED BY <1>3, <1>4

\* No entry changes; the call goes on about the same entry, or is over.
LEMMA SameOver ==
  ASSUME OpOpen, UNCHANGED entries,
         \/ op' = Idle
         \/ Asks("create", "create", 0, FALSE)
         \/ op'.entry = op.entry /\ (op'.at = op.at \/ op'.at \notin {"none", "create"})
  PROVE  Over /\ OpOpen'
<1>1. Made' = Made BY DEF Made
<1> QED BY <1>1 DEF Over, OpOpen, Idle, Asks, Reopens

\* The sweep ends, and opens nothing again.
LEMMA SweepOver ==
  ASSUME NEW e
  PROVE  /\ entries[e].status \in Terminal => SweepEntry(e) = entries[e]
         /\ \/ SweepEntry(e) = entries[e]
            \/ SweepEntry(e) = Ended(entries[e], "expired")
BY DEF SweepEntry, Expirable, Terminal, Polled

\* An entry that has ended stays the record it is, with another status.
LEMMA EndedStatus ==
  ASSUME NEW e \in Made, IInv, NEW s
  PROVE  /\ Ended(entries[e], s).status = s
         /\ Ended(SweepEntry(e), s).status = s
BY SweepFine, SameFine DEF Ended, Entry

\* What provisionLocked() does to a session that is open.
LEMMA ProvisionOver ==
  ASSUME IInv, IInv', OpOpen, NEW e \in Made, NEW x \in Entry, NEW kind,
         e = op.entry \/ entries[e].status \notin Terminal,
         ProvisionLocked(kind, e, x)
  PROVE  Over /\ OpOpen'
<1>1. CASE e \in late
  <2>1. Become(e, Ended(x, "expired")) /\ op' = Idle BY <1>1 DEF ProvisionLocked
  <2>2. Ended(x, "expired").status = "expired" BY DEF Ended, Entry
  <2> HIDE DEF Ended
  <2> QED BY <2>1, <2>2, BecomeOver DEF Terminal
<1>2. CASE e \notin late
  <2> DEFINE y == [x EXCEPT !.status = "provisioning", !.attempts = @ + 1]
  <2>1. Become(e, y) /\ Asks(kind, "provision", e, x.token) BY <1>2 DEF ProvisionLocked
  <2>2. y.status = "provisioning" BY DEF Entry
  <2>3. op'.entry = e /\ op'.at = "provision" BY <2>1 DEF Asks
  <2> HIDE DEF y
  <2>4. Reopens(y) BY <2>2 DEF Reopens, Terminal
  <2> QED BY <2>1, <2>3, <2>4, BecomeOver
<1> QED BY <1>1, <1>2

\* A call that begins looks at its session after the sweep.
LEMMA BeginOver ==
  ASSUME IInv, IInv', OpOpen, Begin
  PROVE  Over /\ OpOpen'
<1> DEFINE e == session
           x == SweepEntry(session)
<1>1. CASE NoSession \/ (BeginCreate /\ session = 0)
  <2>1. UNCHANGED entries /\ (op' = op \/ Asks("create", "create", 0, FALSE))
    BY <1>1 DEF NoSession, BeginCreate
  <2> QED BY <2>1, SameOver
<1>2. ASSUME session # 0, ~NoSession PROVE Over /\ OpOpen'
  <2>1. op = Idle
    BY <1>2 DEF Begin, BeginCreate, BeginPoll, BeginCancel, BeginReject, BeginConfirm,
                BeginProvision, BeginRetry, Enters
  <2>2. e \in Made BY <1>2, OwnedSession
  <2>3. /\ entries[e].status \in Terminal => x = entries[e]
        /\ x = entries[e] \/ x = Ended(entries[e], "expired")
        /\ Ended(entries[e], "expired").status = "expired"
        /\ Ended(x, "cancelled").status = "cancelled"
    BY <2>2, SweepOver, EndedStatus
  <2>4. x \in Entry BY <2>2, SweepFine
  <2>5. e # op.entry BY <1>2, <2>1 DEF Idle
  <2> HIDE DEF x, e
  <2>6. entries[e].status \in Terminal => x.status \in Terminal BY <2>3
  <2>7. CASE BeginCreate
    <3>1. Become(e, x) /\ (op' = op \/ Asks("create", "create", 0, FALSE))
      BY <1>2, <2>7 DEF BeginCreate, e, x
    <3> QED BY <2>2, <2>5, <2>6, <3>1, BecomeOver
  <2>8. CASE BeginPoll
    <3>1. /\ Become(e, x)
          /\ op' = op \/ (x.status \in Polled /\ op'.entry = e /\ op'.at = "read")
      BY <2>8 DEF BeginPoll, Asks, e, x
    <3>2. x.status \in Polled => Reopens(x) BY DEF Reopens, Polled, Terminal
    <3> QED BY <2>2, <2>5, <2>6, <3>1, <3>2, BecomeOver
  <2>9. CASE BeginCancel
    <3>1. CASE x.status \in Polled /\ x.token
      <4>1. Become(e, x) /\ op'.entry = e /\ op'.at = "cancel"
        BY <2>9, <3>1 DEF BeginCancel, Asks, e, x
      <4>2. Reopens(x) BY <3>1 DEF Reopens, Polled, Terminal
      <4> QED BY <2>2, <2>6, <4>1, <4>2, BecomeOver
    <3>2. CASE ~(x.status \in Polled /\ x.token)
      <4>1. Become(e, Ended(x, "cancelled")) /\ op' = op
        BY <2>9, <3>2 DEF BeginCancel, e, x
      <4>2. Ended(x, "cancelled").status \in Terminal BY <2>3 DEF Terminal
      <4> QED BY <2>2, <2>5, <4>1, <4>2, BecomeOver
    <3> QED BY <3>1, <3>2
  <2>10. CASE BeginReject
    <3>1. /\ Become(e, x)
          /\ \/ op' = op
             \/ /\ x.status = "awaiting_confirmation"
                /\ op'.entry = e /\ op'.at = "reject"
      BY <2>10 DEF BeginReject, Asks, e, x
    <3>2. x.status = "awaiting_confirmation" => Reopens(x) BY DEF Reopens, Terminal
    <3> QED BY <2>2, <2>5, <2>6, <3>1, <3>2, BecomeOver
  <2>11. ASSUME NEW kind, ProvisionLocked(kind, e, x),
                x.status \in {"confirmed", "provisioning"}
         PROVE  Over /\ OpOpen'
    <3>1. entries[e].status \notin Terminal BY <2>6, <2>11 DEF Terminal
    <3> QED BY <2>2, <2>4, <2>11, <3>1, ProvisionOver
  <2>12. CASE BeginConfirm
    <3>1. CASE x.status \in {"confirmed", "provisioning"}
      BY <2>11, <2>12, <3>1 DEF BeginConfirm, e, x
    <3>2. CASE x.status \notin {"confirmed", "provisioning"}
      <4>1. /\ Become(e, x)
            /\ \/ op' = op
               \/ /\ x.status = "awaiting_confirmation"
                  /\ op'.entry = e /\ op'.at = "sign"
        BY <2>12, <3>2 DEF BeginConfirm, Asks, e, x
      <4>2. x.status = "awaiting_confirmation" => Reopens(x) BY DEF Reopens, Terminal
      <4> QED BY <2>2, <2>5, <2>6, <4>1, <4>2, BecomeOver
    <3> QED BY <3>1, <3>2
  <2>13. CASE BeginProvision \/ BeginRetry
    <3>1. \/ x.status \in {"confirmed", "provisioning"} /\ \E kind : ProvisionLocked(kind, e, x)
          \/ Become(e, x) /\ op' = op
      BY <2>13 DEF BeginProvision, BeginRetry, e, x
    <3> QED BY <2>2, <2>5, <2>6, <2>11, <3>1, BecomeOver
  <2> QED BY <1>2, <2>7, <2>8, <2>9, <2>10, <2>12, <2>13 DEF Begin
<1>3. CASE session = 0 /\ ~BeginCreate
  BY <1>1, <1>3 DEF Begin, BeginPoll, BeginCancel, BeginReject, BeginConfirm,
                    BeginProvision, BeginRetry
<1> QED BY <1>1, <1>2, <1>3

\* A call that goes on changes the entry it is about, and no other.
LEMMA ContinueOver ==
  ASSUME IInv, IInv', OpOpen, Continue \/ StoreFails
  PROVE  Over /\ OpOpen'
<1> DEFINE e == op.entry
<1>1. CASE Created
  <2>1. op' = Idle BY <1>1 DEF Created
  <2>2. \A f \in Made : entries'[f] = entries[f]
    <3>1. entries \in Seq(Entry) BY DEF IInv, TypeInv
    <3>2. CASE entries' = entries BY <3>2
    <3>3. CASE entries' = Append(entries, NewEntry)
      <4>1. NewEntry \in Entry BY DEF NewEntry, Entry, Expirable, Polled
      <4>2. \A f \in 1..Len(entries) : Append(entries, NewEntry)[f] = entries[f]
        BY <3>1, <4>1, AppendProperties
      <4> QED BY <3>3, <4>2 DEF Made
    <3> QED BY <1>1, <3>2, <3>3 DEF Created
  <2> QED BY <2>1, <2>2 DEF Over, OpOpen, Idle
<1>2. ASSUME NEW x, Become(e, x), e \in Made, op' = Idle PROVE Over /\ OpOpen'
  BY <1>2, BecomeOver
<1>3. ASSUME UNCHANGED entries, op' = Idle PROVE Over /\ OpOpen'
  BY <1>3, SameOver
<1>4. ASSUME UNCHANGED entries, NEW at \in {"store", "reconcile"}, NEW token,
             Asks(op.kind, at, e, token)
      PROVE  Over /\ OpOpen'
  <2>1. op'.entry = e /\ op'.at = at BY <1>4 DEF Asks
  <2> QED BY <1>4, <2>1, SameOver
<1>5. op.at \in Early \cup Later => e \in Made BY Going
<1>6. ASSUME e \in Made, Refresh(entries[e]) PROVE Over /\ OpOpen'
  <2>1. /\ Become(e, entries[e])
        /\ op' = Idle \/ (op'.entry = e /\ op'.at = "refresh")
    BY <1>6 DEF Refresh, Asks
  <2>2. e # 0 BY <1>6 DEF Made
  <2>3. Reopens(entries[e]) BY <2>2 DEF OpOpen
  <2> QED BY <1>6, <2>1, <2>3, BecomeOver
<1>7. CASE PollAnswered \/ Refreshed
  BY <1>2, <1>5, <1>7 DEF PollAnswered, Refreshed, Answered, Early
<1>8. CASE CancelAnswered BY <1>2, <1>5, <1>8 DEF CancelAnswered, Answered, Early
<1>9. CASE RejectAnswered
  BY <1>2, <1>3, <1>5, <1>6, <1>9 DEF RejectAnswered, Answered, Early
<1>10. CASE Signed
  <2> DEFINE x == [entries[e] EXCEPT !.status = "confirming"]
  <2>1. op.at = "sign" /\ Become(e, x) /\ op'.entry = e /\ op'.at = "confirm"
    BY <1>10 DEF Signed, Asks
  <2>2. e \in Made /\ entries[e] \in Entry BY <2>1, Going DEF Early
  <2>3. x.status = "confirming" BY <2>2 DEF Entry
  <2> HIDE DEF x
  <2>4. Reopens(x) BY <2>3 DEF Reopens, Terminal
  <2> QED BY <2>1, <2>2, <2>4, BecomeOver
<1>11. CASE ConfirmAnswered
  <2>1. e \in Made /\ entries[e] \in Entry BY <1>11, Going DEF ConfirmAnswered, Answered, Early
  <2>2. CASE op.reply = "ok"
    <3> DEFINE y == [entries[e] EXCEPT !.status = "confirmed"]
    <3>1. ProvisionLocked("confirm", e, y) BY <1>11, <2>2 DEF ConfirmAnswered
    <3>2. y \in Entry BY <2>1 DEF Entry, Expirable
    <3> HIDE DEF y
    <3> QED BY <2>1, <3>1, <3>2, ProvisionOver
  <2>3. CASE op.reply \in {"conflict", "expired"}
    BY <1>6, <1>11, <2>1, <2>3 DEF ConfirmAnswered
  <2>4. CASE op.reply \notin {"ok", "conflict", "expired"}
    BY <1>2, <1>11, <2>1, <2>4 DEF ConfirmAnswered
  <2> QED BY <2>2, <2>3, <2>4
<1>12. CASE ProvisionAnswered
  <2>1. e \in Made BY <1>5, <1>12 DEF ProvisionAnswered, Answered, Later
  <2> QED BY <1>2, <1>4, <1>12, <2>1 DEF ProvisionAnswered, StaysConfirmed
<1>13. CASE Reconciled
  <2>1. e \in Made BY <1>5, <1>13 DEF Reconciled, Answered, Later
  <2> QED BY <1>2, <1>4, <1>13, <2>1 DEF Reconciled, StaysConfirmed
<1>14. CASE Stored \/ StoreFails
  BY <1>2, <1>5, <1>14 DEF Stored, StoreFails, Later
<1> QED BY <1>1, <1>7, <1>8, <1>9, <1>10, <1>11, <1>12, <1>13, <1>14 DEF Continue

\* The sweep, the end of an entry, of the login and of the process.
LEMMA RestOver ==
  ASSUME IInv, IInv', OpOpen, Sweep \/ Forget \/ SignOut \/ Restart
  PROVE  Over /\ OpOpen'
<1>1. CASE Restart
  <2>1. /\ entries' = [e \in Made |-> [entries[e] EXCEPT !.token = FALSE]]
        /\ op' = Idle
    BY <1>1 DEF Restart
  <2>2. \A e \in Made : entries'[e].status = entries[e].status
    BY <2>1, SameFine DEF Entry
  <2> QED BY <2>1, <2>2 DEF Over, OpOpen, Idle
<1>2. CASE Sweep
  <2> DEFINE e == session
             x == SweepEntry(session)
  <2>1. e # 0 /\ Become(e, x) /\ op' = op BY <1>2 DEF Sweep
  <2>2. e \in Made BY <2>1, OwnedSession
  <2>3. x.status = entries[e].status \/ x.status = "expired"
    BY <2>2, SweepOver, EndedStatus
  <2> HIDE DEF x
  <2>4. entries[e].status \in Terminal => x.status \in Terminal BY <2>3 DEF Terminal
  <2>5. op.entry = e => Reopens(x) BY <2>1, <2>3 DEF OpOpen, Reopens
  <2> QED BY <2>1, <2>2, <2>4, <2>5, BecomeOver
<1>3. CASE Forget \/ SignOut
  <2> DEFINE e == session
             x == [entries[session] EXCEPT !.token = FALSE]
  <2>1. e # 0 /\ Become(e, x) /\ op' = op BY <1>3 DEF Forget, SignOut
  <2>2. e \in Made BY <2>1, OwnedSession
  <2>3. x.status = entries[e].status BY <2>2, SameFine DEF Entry
  <2> HIDE DEF x
  <2>4. op.entry = e => Reopens(x) BY <2>1, <2>3 DEF OpOpen, Reopens
  <2> QED BY <2>1, <2>2, <2>3, <2>4, BecomeOver
<1> QED BY <1>1, <1>2, <1>3

\* No step takes a session that is over back, but that of the call the sweep
\* came between.
LEMMA NextOver == IInv /\ IInv' /\ OpOpen /\ [Next]_vars => Over /\ OpOpen'
<1> SUFFICES ASSUME IInv, IInv', OpOpen, [Next]_vars PROVE Over /\ OpOpen'
  OBVIOUS
<1>1. CASE Begin BY <1>1, BeginOver
<1>2. CASE Continue \/ StoreFails BY <1>2, ContinueOver
<1>3. CASE Sweep \/ Forget \/ SignOut \/ Restart BY <1>3, RestOver
<1>4. CASE \/ PagePolls \/ RetryTimeout \/ Outside \/ UNCHANGED vars \/ SignFails
           \/ \E kind \in Calls : Call(kind)
  <2>1. UNCHANGED entries /\ (op' = op \/ op' = Idle)
    BY <1>4 DEF PagePolls, RetryTimeout, Outside, PhoneClaims, RelayExpires, TimePasses,
                SignFails, Call, vars
  <2> QED BY <2>1, SameOver
<1>5. CASE RelayAnswers \/ RelayUnavailable
  <2>1. UNCHANGED entries /\ \E r : op' = [op EXCEPT !.reply = r]
    BY <1>5 DEF RelayAnswers, RelayUnavailable
  <2>2. op \in Op BY DEF IInv, TypeInv
  <2>3. op'.entry = op.entry /\ op'.at = op.at BY <2>1, <2>2 DEF Op
  <2> QED BY <2>1, <2>3, SameOver
<1> QED BY <1>1, <1>2, <1>3, <1>4, <1>5 DEF Next, User, Faults

\* OverStaysOver: what was cancelled, rejected, expired or paired is not taken
\* up again by a call that waited for the lock, a retry or a late answer
\* (withLock, sweepEntry, provisionLocked): each looks at the session again
\* when its turn comes.
THEOREM OverIsForGood == Spec => OverStaysOver
<1>1. Init => OpOpen BY DEF Init, OpOpen, Idle
<1>2. Over /\ OpOpen => \A e \in Made :
         entries[e].status \in Terminal /\ ~(entries[e].status = "expired" /\ op.entry = e)
           => entries'[e].status \in Terminal
  <2> SUFFICES ASSUME Over, OpOpen, NEW e \in Made, entries[e].status \in Terminal,
                      ~(entries[e].status = "expired" /\ op.entry = e)
               PROVE  entries'[e].status \in Terminal
    OBVIOUS
  <2>1. e # op.entry BY DEF OpOpen, Reopens, Made
  <2> QED BY <2>1 DEF Over
<1> QED BY <1>1, <1>2, InitSound, NextKeeps, NextOver, PTL DEF Spec, OverStaysOver

HIDE PairingAssumption DEF PairingAssumption

-----------------------------------------------------------------------------
\* The origin tunnel

USE TunnelAssumption DEF TunnelAssumption

Msg == [type : {"start", "body", "end", "cancel"}, seq : Nat]
Ctx == [id : RequestIds, socket : 1..MaxSockets, hasBody : BOOLEAN,
        state : CtxStates, nextRequest : 0..MaxBody, nextResponse : 0..MaxBody,
        idle : BOOLEAN, absolute : BOOLEAN, completed : BOOLEAN, cancelled : BOOLEAN]
Exchanges == {"requested", "answered", "closed"}

TunnelTypeInv ==
  /\ contexts \in [RequestIds -> Nat]
  /\ ctx \in Seq(Ctx) /\ local \in Seq(Exchanges) /\ sent \in Seq(Seq(Msg))
  /\ Len(local) = Len(ctx) /\ Len(sent) = Len(ctx) /\ Len(ctx) <= MaxContexts
  /\ socket \in 0..MaxSockets /\ sockets \in 0..MaxSockets /\ open \in BOOLEAN
  /\ open => socket # 0

Responding == {"response_started", "receiving_response_body"}

\* A request that is not over: its connection is there, and its stream is as
\* far as the local server is with its answer.
Exchange(c) ==
  /\ ctx[c].completed => local[c] = "closed"
  /\ Live(c) =>
       /\ socket # 0 /\ local[c] # "closed"
       /\ local[c] = "requested" =>
            sent[c] = <<>> /\ ctx[c].nextResponse = 0 /\ ctx[c].state \notin Responding
       /\ local[c] = "answered" =>
            sent[c] = Streams!Answer(ctx[c].nextResponse) /\ ctx[c].state \in Responding

TunnelInv == TunnelTypeInv /\ MapIsLive /\ (\A c \in Arrived : Exchange(c))
-----------------------------------------------------------------------------
(* Streams *)

\* The messages of the two modules are the same.
LEMMA Messages ==
  /\ Start \in Msg /\ End \in Msg /\ Cancel \in Msg
  /\ \A n \in Nat : Body(n) \in Msg /\ Streams!Body(n) = Body(n)
  /\ Streams!Start = Start /\ Streams!End = End /\ Streams!Cancel = Cancel
BY DEF Msg, Start, End, Cancel, Body, Streams!Start, Streams!End, Streams!Cancel,
       Streams!Body

\* Two sequences after each other.
LEMMA ConcatParts ==
  ASSUME NEW s \in Seq(Msg), NEW t \in Seq(Msg)
  PROVE  /\ s \o t \in Seq(Msg) /\ Len(s \o t) = Len(s) + Len(t)
         /\ \A i \in 1..Len(s) : (s \o t)[i] = s[i]
         /\ \A i \in 1..Len(t) : (s \o t)[Len(s) + i] = t[i]
<1>1. /\ s \o t \in Seq(Msg) /\ Len(s \o t) = Len(s) + Len(t)
      /\ \A i \in 1..(Len(s) + Len(t)) : (s \o t)[i] = IF i <= Len(s) THEN s[i] ELSE t[i - Len(s)]
  BY ConcatProperties
<1>4. Len(s) \in Nat /\ Len(t) \in Nat BY LenProperties
<1>2. ASSUME NEW i \in 1..Len(s) PROVE (s \o t)[i] = s[i]
  <2>1. i \in 1..(Len(s) + Len(t)) /\ i <= Len(s) BY <1>4
  <2> QED BY <1>1, <2>1
<1>3. ASSUME NEW i \in 1..Len(t) PROVE (s \o t)[Len(s) + i] = t[i]
  <2>1. /\ Len(s) + i \in 1..(Len(s) + Len(t)) /\ ~(Len(s) + i <= Len(s))
        /\ (Len(s) + i) - Len(s) = i
    BY <1>4
  <2> QED BY <1>1, <2>1
<1> QED BY <1>1, <1>2, <1>3

\* An answer with n parts.
LEMMA AnswerParts ==
  ASSUME NEW n \in Nat
  PROVE  /\ Streams!Answer(n) \in Seq(Msg) /\ Len(Streams!Answer(n)) = 1 + n
         /\ Streams!Answer(n)[1] = Start
         /\ \A i \in 1..n : Streams!Answer(n)[1 + i] = Body(i - 1)
<1> DEFINE parts == [i \in 1..n |-> Streams!Body(i - 1)]
           head == <<Start>>
<1>1. \A i \in 1..n : parts[i] \in Msg /\ parts[i] = Body(i - 1) BY Messages
<1>2. parts \in Seq(Msg) /\ Len(parts) = n
  <2>1. parts \in [1..n -> Msg] BY <1>1
  <2> HIDE DEF parts
  <2> QED BY <2>1, SeqDef, LenProperties
<1>3. head \in Seq(Msg) /\ Len(head) = 1 /\ head[1] = Start BY Messages
<1>4. Streams!Answer(n) = head \o parts BY Messages DEF Streams!Answer
<1> HIDE DEF parts, head
<1>5. /\ head \o parts \in Seq(Msg) /\ Len(head \o parts) = Len(head) + Len(parts)
      /\ \A i \in 1..Len(head) : (head \o parts)[i] = head[i]
      /\ \A i \in 1..Len(parts) : (head \o parts)[Len(head) + i] = parts[i]
  BY <1>2, <1>3, ConcatParts
<1>6. (head \o parts)[1] = Start BY <1>3, <1>5
<1>7. \A i \in 1..n : (head \o parts)[1 + i] = parts[i] BY <1>2, <1>3, <1>5
<1>8. Len(head \o parts) = 1 + n BY <1>2, <1>3, <1>5
<1> QED BY <1>1, <1>4, <1>5, <1>6, <1>7, <1>8

\* Chunks of a data event, and the first of them.
LEMMA ChunkParts ==
  ASSUME NEW c, ctx[c].nextResponse \in Nat, NEW k \in Nat
  PROVE  /\ Chunks(c, k) \in Seq(Msg) /\ Len(Chunks(c, k)) = k
         /\ \A i \in 0..k : SubSeq(Chunks(c, k), 1, i) = Chunks(c, i)
<1>1. ASSUME NEW m \in Nat
      PROVE  /\ Chunks(c, m) \in Seq(Msg) /\ Len(Chunks(c, m)) = m
             /\ \A i \in 1..m : Chunks(c, m)[i] = Body(ctx[c].nextResponse + i - 1)
  <2>1. \A i \in 1..m : ctx[c].nextResponse + i - 1 \in Nat OBVIOUS
  <2>2. Chunks(c, m) \in [1..m -> Msg] BY <2>1, Messages DEF Chunks
  <2> QED BY <2>2, SeqDef, LenProperties DEF Chunks
<1>2. ASSUME NEW i \in 0..k PROVE SubSeq(Chunks(c, k), 1, i) = Chunks(c, i)
  <2> DEFINE a == SubSeq(Chunks(c, k), 1, i)
             b == Chunks(c, i)
  <2>1. /\ a \in Seq(Msg) /\ Len(a) = i
        /\ \A j \in 1..i : a[j] = Chunks(c, k)[j]
    BY <1>1, SubSeqProperties
  <2>6. i \in Nat OBVIOUS
  <2>2. /\ b \in Seq(Msg) /\ Len(b) = i
        /\ \A j \in 1..i : b[j] = Body(ctx[c].nextResponse + j - 1)
    <3> HIDE DEF a
    <3> QED BY <1>1, <2>6
  <2>4. \A j \in 1..i : j \in 1..k OBVIOUS
  <2>5. \A j \in 1..i : Chunks(c, k)[j] = Body(ctx[c].nextResponse + j - 1)
    BY <1>1, <2>4
  <2> HIDE DEF a, b
  <2>3. a = b BY <2>1, <2>2, <2>5, SeqEqual
  <2> QED BY <2>3 DEF a, b
<1> QED BY <1>1, <1>2

\* The parts are numbered on: what follows an answer makes a longer one.
LEMMA AnswerGoesOn ==
  ASSUME NEW c, ctx[c].nextResponse \in Nat, NEW k \in Nat
  PROVE  Streams!Answer(ctx[c].nextResponse) \o Chunks(c, k)
           = Streams!Answer(ctx[c].nextResponse + k)
<1> DEFINE n == ctx[c].nextResponse
           a == Streams!Answer(n)
           b == Chunks(c, k)
           d == Streams!Answer(n + k)
<1>1. n \in Nat /\ n + k \in Nat OBVIOUS
<1>2. /\ a \in Seq(Msg) /\ Len(a) = 1 + n /\ a[1] = Start
      /\ \A i \in 1..n : a[1 + i] = Body(i - 1)
  BY AnswerParts
<1>3. /\ d \in Seq(Msg) /\ Len(d) = 1 + (n + k) /\ d[1] = Start
      /\ \A i \in 1..(n + k) : d[1 + i] = Body(i - 1)
  BY <1>1, AnswerParts
<1>4. b \in Seq(Msg) /\ Len(b) = k /\ \A i \in 1..k : b[i] = Body(n + i - 1)
  BY ChunkParts DEF Chunks
<1> HIDE DEF n, a, b, d
<1>5. /\ a \o b \in Seq(Msg) /\ Len(a \o b) = Len(a) + Len(b)
      /\ \A i \in 1..Len(a) : (a \o b)[i] = a[i]
      /\ \A i \in 1..Len(b) : (a \o b)[Len(a) + i] = b[i]
  BY <1>2, <1>4, ConcatParts
<1>6. ASSUME NEW i \in 1..(1 + (n + k)) PROVE (a \o b)[i] = d[i]
  <2>1. CASE i = 1
    <3>1. i \in 1..Len(a) BY <1>1, <1>2, <2>1
    <3> QED BY <1>2, <1>3, <1>5, <2>1, <3>1
  <2>2. CASE i > 1 /\ i <= 1 + n
    <3> DEFINE j == i - 1
    <3>1. j \in 1..n /\ j \in 1..(n + k) /\ i = 1 + j /\ i \in 1..Len(a) BY <1>1, <1>2, <2>2
    <3> HIDE DEF j
    <3>2. a[1 + j] = Body(j - 1) BY <1>2, <3>1
    <3>3. d[1 + j] = Body(j - 1) BY <1>3, <3>1
    <3> QED BY <1>5, <3>1, <3>2, <3>3
  <2>3. CASE i > 1 + n
    <3> DEFINE j == i - (1 + n)
               m == n + j
    <3>1. /\ j \in 1..k /\ j \in 1..Len(b) /\ m \in 1..(n + k) /\ i = 1 + m
          /\ i = Len(a) + j /\ n + j - 1 = m - 1
      BY <1>1, <1>2, <1>4, <2>3
    <3> HIDE DEF j
    <3>2. b[j] = Body(n + j - 1) BY <1>4, <3>1
    <3> HIDE DEF m
    <3>4. d[1 + m] = Body(m - 1) BY <1>3, <3>1
    <3>3. (a \o b)[Len(a) + j] = b[j] BY <1>5, <3>1
    <3> QED BY <3>1, <3>2, <3>3, <3>4
  <2>4. i = 1 \/ (i > 1 /\ i <= 1 + n) \/ i > 1 + n BY <1>1
  <2> QED BY <2>1, <2>2, <2>3, <2>4
<1>7. Len(a \o b) = Len(d) /\ Len(a \o b) = 1 + (n + k) BY <1>1, <1>2, <1>3, <1>4, <1>5
<1>8. a \o b = d BY <1>3, <1>5, <1>6, <1>7, SeqEqual
<1> QED BY <1>8 DEF n, a, b, d

\* A message after a sequence of messages.
LEMMA ConcatAppend ==
  ASSUME NEW s \in Seq(Msg), NEW t \in Seq(Msg), NEW e \in Msg
  PROVE  s \o Append(t, e) = Append(s \o t, e)
<1>1. <<e>> \in Seq(Msg) /\ s \o t \in Seq(Msg) BY ConcatProperties
<1>2. Append(t, e) = t \o <<e>> /\ Append(s \o t, e) = (s \o t) \o <<e>>
  BY <1>1, AppendIsConcat
<1> QED BY <1>1, <1>2, ConcatAssociative

\* The empty stream and the messages of one or two.
LEMMA ShortStreams ==
  /\ \A s \in Seq(Msg) : /\ s \o <<>> = s
                         /\ s \o <<Cancel>> = Append(s, Cancel)
                         /\ s \o <<End>> = Append(s, End)
  /\ <<>> \o <<Start>> = Streams!Answer(0)
  /\ <<>> \in Seq(Msg)
<1>1. <<>> \in Seq(Msg) /\ \A s \in Seq(Msg) : s \o <<>> = s BY EmptySeq, ConcatEmptySeq
<1>2. Append(<<>>, Cancel) = <<Cancel>> /\ Append(<<>>, End) = <<End>> OBVIOUS
<1>3. \A s \in Seq(Msg), e \in Msg : s \o Append(<<>>, e) = Append(s, e)
  BY <1>1, ConcatAppend
<1>4. <<>> \o <<Start>> = Streams!Answer(0)
  <2>1. /\ Streams!Answer(0) \in Seq(Msg) /\ Len(Streams!Answer(0)) = 1 + 0
        /\ Streams!Answer(0)[1] = Start
    BY ONLY AnswerParts
  <2> DEFINE a == Streams!Answer(0)
             b == <<Start>>
  <2>2. <<>> \o b = b /\ b \in Seq(Msg) /\ Len(b) = 1 /\ b[1] = Start
    BY Messages, ConcatEmptySeq
  <2> HIDE DEF a, b
  <2>3. a = b BY <2>1, <2>2, SeqEqual DEF a
  <2> QED BY <2>2, <2>3 DEF a, b
<1> QED BY <1>1, <1>2, <1>3, <1>4, Messages
-----------------------------------------------------------------------------
(* What the steps have in common *)

\* What the relay sees of the state.
StreamOf == [c \in Ids |-> IF c \in Arrived THEN sent[c] ELSE <<>>]
LiveOnes == {c \in Arrived : Live(c)}

\* What the type invariant says of one context.
LEMMA TunnelTypes ==
  ASSUME TunnelTypeInv
  PROVE  /\ Len(ctx) \in Nat /\ Arrived \subseteq Ids /\ 0 \notin Arrived
         /\ Arrived = DOMAIN ctx /\ Arrived = DOMAIN local /\ Arrived = DOMAIN sent
         /\ \A c \in Arrived : ctx[c] \in Ctx /\ local[c] \in Exchanges /\ sent[c] \in Seq(Msg)
BY LenProperties, ElementOfSeq DEF TunnelTypeInv, Arrived, Ids

\* cleanupContext and the flags that say why.
CleanedUp(x, completed, cancelled) ==
  [x EXCEPT !.completed = completed, !.cancelled = cancelled, !.idle = FALSE,
            !.absolute = FALSE]

LEMMA Fields ==
  ASSUME NEW x \in Ctx, NEW b1 \in BOOLEAN, NEW b2 \in BOOLEAN
  PROVE  LET y == CleanedUp(x, b1, b2)
         IN  y \in Ctx /\ y.id = x.id /\ y.completed = b1 /\ y.cancelled = b2
             /\ ~y.idle /\ ~y.absolute
<1> DEFINE y1 == [x EXCEPT !.completed = b1]
           y2 == [y1 EXCEPT !.cancelled = b2]
           y3 == [y2 EXCEPT !.idle = FALSE]
           y4 == [y3 EXCEPT !.absolute = FALSE]
<1>1. y1 \in Ctx /\ y1.id = x.id /\ y1.completed = b1 BY DEF Ctx
<1> HIDE DEF y1
<1>2. y2 \in Ctx /\ y2.id = x.id /\ y2.completed = b1 /\ y2.cancelled = b2 BY <1>1 DEF Ctx
<1> HIDE DEF y2
<1>3. y3 \in Ctx /\ y3.id = x.id /\ y3.completed = b1 /\ y3.cancelled = b2 /\ ~y3.idle
  BY <1>2 DEF Ctx
<1> HIDE DEF y3
<1>4. /\ y4 \in Ctx /\ y4.id = x.id /\ y4.completed = b1 /\ y4.cancelled = b2 /\ ~y4.idle
      /\ ~y4.absolute
  BY <1>3 DEF Ctx
<1>5. y4 = CleanedUp(x, b1, b2) BY DEF CleanedUp, y1, y2, y3
<1> HIDE DEF y4
<1> QED BY <1>4, <1>5

\* How the actions write it.
LEMMA Cleanup ==
  ASSUME TunnelTypeInv, NEW c \in Arrived, NEW b1 \in BOOLEAN, NEW b2 \in BOOLEAN
  PROVE  /\ [ctx EXCEPT ![c].completed = b1, ![c].cancelled = b2, ![c].idle = FALSE,
                        ![c].absolute = FALSE]
              = [ctx EXCEPT ![c] = CleanedUp(ctx[c], b1, b2)]
         /\ [ctx EXCEPT ![c].cancelled = b2, ![c].idle = FALSE, ![c].absolute = FALSE]
              = [ctx EXCEPT ![c] = CleanedUp(ctx[c], ctx[c].completed, b2)]
<1>1. ctx \in [Arrived -> Ctx] BY LenProperties DEF TunnelTypeInv, Arrived
<1> QED BY <1>1 DEF Ctx, CleanedUp

\* The context c, its stream and its exchange become x, s and l.
Becomes(c, x, s, l) ==
  /\ ctx' = [ctx EXCEPT ![c] = x]
  /\ sent' = [sent EXCEPT ![c] = s]
  /\ local' = [local EXCEPT ![c] = l]
  /\ UNCHANGED connection

LEMMA OneContext ==
  ASSUME TunnelTypeInv, NEW c \in Arrived, NEW x \in Ctx, NEW s \in Seq(Msg), NEW l \in Exchanges,
         Becomes(c, x, s, l), contexts' \in [RequestIds -> Nat]
  PROVE  /\ TunnelTypeInv' /\ Arrived' = Arrived
         /\ ctx'[c] = x /\ sent'[c] = s /\ local'[c] = l
         /\ \A d \in Arrived : d # c =>
              ctx'[d] = ctx[d] /\ sent'[d] = sent[d] /\ local'[d] = local[d]
         /\ \A d \in Arrived : d # c => (Live(d)' <=> Live(d))
         /\ Live(c)' <=> ~x.completed /\ ~x.cancelled
         /\ StreamOf' = [StreamOf EXCEPT ![c] = s]
<1>1. /\ ctx \in Seq(Ctx) /\ sent \in Seq(Seq(Msg)) /\ local \in Seq(Exchanges)
      /\ c \in 1..Len(ctx) /\ c \in 1..Len(sent) /\ c \in 1..Len(local)
  BY DEF TunnelTypeInv, Arrived
<1>2. /\ ctx' \in Seq(Ctx) /\ Len(ctx') = Len(ctx)
      /\ \A d \in 1..Len(ctx) : ctx'[d] = IF d = c THEN x ELSE ctx[d]
  BY <1>1, ExceptSeq DEF Becomes
<1>3. /\ sent' \in Seq(Seq(Msg)) /\ Len(sent') = Len(sent)
      /\ \A d \in 1..Len(sent) : sent'[d] = IF d = c THEN s ELSE sent[d]
  BY <1>1, ExceptSeq DEF Becomes
<1>4. /\ local' \in Seq(Exchanges) /\ Len(local') = Len(local)
      /\ \A d \in 1..Len(local) : local'[d] = IF d = c THEN l ELSE local[d]
  BY <1>1, ExceptSeq DEF Becomes
<1>5. TunnelTypeInv' /\ Arrived' = Arrived
  BY <1>2, <1>3, <1>4 DEF TunnelTypeInv, Arrived, Becomes, connection
<1>6. /\ ctx'[c] = x /\ sent'[c] = s /\ local'[c] = l
      /\ \A d \in Arrived : d # c =>
           ctx'[d] = ctx[d] /\ sent'[d] = sent[d] /\ local'[d] = local[d]
  BY <1>1, <1>2, <1>3, <1>4 DEF TunnelTypeInv, Arrived
<1>7. /\ \A d \in Arrived : d # c => (Live(d)' <=> Live(d))
      /\ Live(c)' <=> ~x.completed /\ ~x.cancelled
  BY <1>5, <1>6 DEF Live
<1>8. StreamOf' = [StreamOf EXCEPT ![c] = s]
  <2>1. c \in Ids BY TunnelTypes
  <2>2. Ids' = Ids BY DEF Ids
  <2> QED BY <1>5, <1>6, <2>1, <2>2 DEF StreamOf
<1> QED BY <1>5, <1>6, <1>7, <1>8

\* What the Map says of two requests that are not over.
LEMMA OwnId ==
  ASSUME MapIsLive, NEW c \in Arrived, NEW d \in Arrived, Live(c), Live(d), ctx[c].id = ctx[d].id
  PROVE  c = d
BY DEF MapIsLive

\* A request is over, with the messages m: cancelled or completed.
LEMMA Ends ==
  ASSUME TunnelInv, NEW c \in Arrived, Live(c), NEW x \in Ctx, NEW m \in Seq(Msg),
         NEW l \in Exchanges, Becomes(c, x, sent[c] \o m, l),
         x.id = ctx[c].id, x.completed \/ x.cancelled, ~x.idle, ~x.absolute,
         x.completed => l = "closed",
         contexts' = [contexts EXCEPT ![ctx[c].id] = 0],
         NEW a \in Streams!Continues(sent[c]), sent[c] \o m \in Streams!Stops(a)
  PROVE  TunnelInv' /\ Streams!Stop(c)
<1>1. TunnelTypeInv /\ MapIsLive /\ (\A d \in Arrived : Exchange(d)) BY DEF TunnelInv
<1>2. sent[c] \o m \in Seq(Msg) BY <1>1, TunnelTypes, ConcatProperties
<1>3. contexts' \in [RequestIds -> Nat] BY <1>1 DEF TunnelTypeInv
<1>4. /\ TunnelTypeInv' /\ Arrived' = Arrived
      /\ ctx'[c] = x /\ sent'[c] = sent[c] \o m /\ local'[c] = l
      /\ \A d \in Arrived : d # c =>
           ctx'[d] = ctx[d] /\ sent'[d] = sent[d] /\ local'[d] = local[d]
      /\ \A d \in Arrived : d # c => (Live(d)' <=> Live(d))
      /\ Live(c)' <=> ~x.completed /\ ~x.cancelled
      /\ StreamOf' = [StreamOf EXCEPT ![c] = sent[c] \o m]
  BY <1>1, <1>2, <1>3, OneContext
<1>5. ~Live(c)' BY <1>4
<1>6. ctx[c].id \in RequestIds BY <1>1, TunnelTypes DEF Ctx
<1>7. \A r \in RequestIds : contexts'[r] = IF r = ctx[c].id THEN 0 ELSE contexts[r]
  BY <1>1, <1>6 DEF TunnelTypeInv
<1>8. MapIsLive'
  <2>1. ASSUME NEW r \in RequestIds, NEW d, d = contexts'[r], d # 0
        PROVE  d \in Arrived /\ Live(d)' /\ ctx'[d].id = r
    <3>1. r # ctx[c].id /\ d = contexts[r] BY <1>7, <2>1
    <3>2. Live(d) /\ ctx[d].id = r BY <1>1, <2>1, <3>1 DEF MapIsLive
    <3>3. d \in Arrived /\ d # c BY <3>1, <3>2 DEF Live
    <3> QED BY <1>4, <3>2, <3>3
  <2>2. ASSUME NEW d \in Arrived
        PROVE  /\ Live(d)' => contexts'[ctx'[d].id] = d
               /\ Live(d)' <=> ctx'[d].idle
               /\ ctx'[d].absolute => Live(d)'
    <3>1. CASE d = c BY <1>4, <1>5, <3>1
    <3>2. CASE d # c
      <4>1. /\ Live(d) => contexts[ctx[d].id] = d
            /\ Live(d) <=> ctx[d].idle
            /\ ctx[d].absolute => Live(d)
        BY <1>1 DEF MapIsLive
      <4>2. ctx[d].id \in RequestIds BY <1>1, TunnelTypes DEF Ctx
      <4>3. Live(d) => ctx[d].id # ctx[c].id BY <1>1, <3>2, OwnId
      <4> QED BY <1>4, <1>7, <3>2, <4>1, <4>2, <4>3
    <3> QED BY <3>1, <3>2
  <2> QED BY <1>4, <2>1, <2>2 DEF MapIsLive, Live
<1>9. \A d \in Arrived : Exchange(d)'
  <2>1. Exchange(c)' BY <1>4, <1>5 DEF Exchange
  <2>2. ASSUME NEW d \in Arrived, d # c PROVE Exchange(d)'
    BY <1>1, <1>4, <2>2 DEF Exchange, Becomes, connection
  <2> QED BY <2>1, <2>2
<1>10. TunnelInv' BY <1>4, <1>8, <1>9 DEF TunnelInv
<1>11. Streams!Stop(c)
  <2>1. c \in LiveOnes /\ LiveOnes' = LiveOnes \ {c} BY <1>4, <1>5 DEF LiveOnes
  <2>2. StreamOf[c] = sent[c] BY <1>1, TunnelTypes DEF StreamOf
  <2>3. UNCHANGED <<socket # 0, Arrived>> BY <1>4 DEF Becomes, connection
  <2> QED BY <1>4, <2>1, <2>2, <2>3 DEF Streams!Stop, LiveOnes, StreamOf
<1> QED BY <1>10, <1>11

\* A request goes on, its idle timer running, with the stream s.
LEMMA Goes ==
  ASSUME TunnelInv, NEW c \in Arrived, Live(c), NEW x \in Ctx,
         NEW s \in Streams!Continues(sent[c]), s \in Seq(Msg), NEW l \in Exchanges,
         Becomes(c, x, s, l),
         x.id = ctx[c].id, ~x.completed, ~x.cancelled, x.idle, UNCHANGED contexts,
         l # "closed",
         l = "requested" => s = <<>> /\ x.nextResponse = 0 /\ x.state \notin Responding,
         l = "answered" => s = Streams!Answer(x.nextResponse) /\ x.state \in Responding
  PROVE  TunnelInv' /\ Streams!Send(c)
<1>1. TunnelTypeInv /\ MapIsLive /\ (\A d \in Arrived : Exchange(d)) BY DEF TunnelInv
<1>2. contexts' \in [RequestIds -> Nat] BY <1>1 DEF TunnelTypeInv
<1>3. /\ TunnelTypeInv' /\ Arrived' = Arrived
      /\ ctx'[c] = x /\ sent'[c] = s /\ local'[c] = l
      /\ \A d \in Arrived : d # c =>
           ctx'[d] = ctx[d] /\ sent'[d] = sent[d] /\ local'[d] = local[d]
      /\ \A d \in Arrived : d # c => (Live(d)' <=> Live(d))
      /\ Live(c)' <=> ~x.completed /\ ~x.cancelled
      /\ StreamOf' = [StreamOf EXCEPT ![c] = s]
  BY <1>1, <1>2, OneContext
<1>4. \A d \in Arrived : Live(d)' <=> Live(d) BY <1>3
<1>5. \A d \in Arrived : ctx'[d].id = ctx[d].id BY <1>3
<1>6. MapIsLive'
  <2>1. ASSUME NEW r \in RequestIds, NEW d, d = contexts'[r], d # 0
        PROVE  d \in Arrived /\ Live(d)' /\ ctx'[d].id = r
    <3>1. Live(d) /\ ctx[d].id = r BY <1>1, <2>1 DEF MapIsLive
    <3>2. d \in Arrived BY <3>1 DEF Live
    <3> QED BY <1>4, <1>5, <3>1, <3>2
  <2>2. ASSUME NEW d \in Arrived
        PROVE  /\ Live(d)' => contexts'[ctx'[d].id] = d
               /\ Live(d)' <=> ctx'[d].idle
               /\ ctx'[d].absolute => Live(d)'
    <3>1. /\ Live(d) => contexts[ctx[d].id] = d
          /\ Live(d) <=> ctx[d].idle
          /\ ctx[d].absolute => Live(d)
      BY <1>1 DEF MapIsLive
    <3>2. CASE d = c BY <1>3, <1>4, <1>5, <3>1, <3>2
    <3>3. CASE d # c BY <1>3, <1>4, <1>5, <3>1, <3>3
    <3> QED BY <3>2, <3>3
  <2> QED BY <1>3, <2>1, <2>2 DEF MapIsLive, Live
<1>7. \A d \in Arrived : Exchange(d)'
  <2>1. Exchange(c)'
    <3>1. socket' # 0 BY <1>1 DEF Exchange, Becomes, connection
    <3> QED BY <1>3, <3>1 DEF Exchange
  <2>2. ASSUME NEW d \in Arrived, d # c PROVE Exchange(d)'
    BY <1>1, <1>3, <2>2 DEF Exchange, Becomes, connection
  <2> QED BY <2>1, <2>2
<1>8. TunnelInv' BY <1>3, <1>6, <1>7 DEF TunnelInv
<1>9. Streams!Send(c)
  <2>1. c \in LiveOnes /\ LiveOnes' = LiveOnes BY <1>3, <1>4 DEF LiveOnes
  <2>2. StreamOf[c] = sent[c] BY <1>1, TunnelTypes DEF StreamOf
  <2>3. UNCHANGED <<socket # 0, Arrived>> BY <1>3 DEF Becomes, connection
  <2> QED BY <1>3, <2>1, <2>2, <2>3 DEF Streams!Send, LiveOnes, StreamOf
<1> QED BY <1>8, <1>9
\* The exchange of a request that is over goes on, and nothing is sent.
LEMMA Quiet ==
  ASSUME TunnelInv, NEW c \in Arrived, NEW l \in Exchanges, local' = [local EXCEPT ![c] = l],
         ~Live(c), ctx[c].completed => l = "closed",
         UNCHANGED <<contexts, ctx, sent, connection>>
  PROVE  TunnelInv' /\ UNCHANGED Streams!vars
<1>1. TunnelTypeInv /\ MapIsLive /\ (\A d \in Arrived : Exchange(d)) BY DEF TunnelInv
<1>2. Arrived' = Arrived /\ \A d \in Arrived : Live(d)' <=> Live(d) BY DEF Arrived, Live
<1>3. local \in Seq(Exchanges) /\ c \in 1..Len(local) BY <1>1 DEF TunnelTypeInv, Arrived
<1>4. /\ local' \in Seq(Exchanges) /\ Len(local') = Len(local)
      /\ \A d \in Arrived : local'[d] = IF d = c THEN l ELSE local[d]
  BY <1>1, <1>3, ExceptSeq DEF TunnelTypeInv, Arrived
<1>5. TunnelTypeInv' BY <1>1, <1>4 DEF TunnelTypeInv, connection
<1>6. MapIsLive' BY <1>1, <1>2 DEF MapIsLive, Arrived, Live
<1>7. \A d \in Arrived : Exchange(d)' BY <1>1, <1>2, <1>4 DEF Exchange, connection
<1>8. UNCHANGED Streams!vars
  BY <1>2 DEF Streams!vars, connection, Live, Arrived, Ids
<1> QED BY <1>2, <1>5, <1>6, <1>7, <1>8 DEF TunnelInv

\* What was sent for a request that is not over is an answer so far.
LEMMA SoFar ==
  ASSUME TunnelInv, NEW c \in Arrived, Live(c)
  PROVE  /\ sent[c] \in Streams!Answers /\ sent[c] \in Seq(Msg)
         /\ sent[c] \in Streams!Continues(sent[c])
         /\ ctx[c] \in Ctx /\ ctx[c].nextResponse \in 0..MaxBody
         /\ local[c] = "requested" \/ local[c] = "answered"
         /\ contexts[ctx[c].id] = c /\ c # 0 /\ ctx[c].idle
<1>1. TunnelTypeInv /\ MapIsLive /\ Exchange(c) BY DEF TunnelInv
<1>2. ctx[c] \in Ctx /\ local[c] \in Exchanges /\ sent[c] \in Seq(Msg) /\ c # 0
  BY <1>1, TunnelTypes
<1>3. ctx[c].nextResponse \in 0..MaxBody BY <1>2 DEF Ctx
<1>4. local[c] = "requested" \/ local[c] = "answered" BY <1>1, <1>2 DEF Exchange, Exchanges
<1>5. sent[c] \in Streams!Answers BY <1>1, <1>3, <1>4 DEF Exchange, Streams!Answers
<1>6. sent[c] \in Streams!Continues(sent[c])
  BY <1>2, <1>5, LenProperties DEF Streams!Continues
<1>7. contexts[ctx[c].id] = c /\ ctx[c].idle BY <1>1 DEF MapIsLive
<1> QED BY <1>2, <1>3, <1>4, <1>5, <1>6, <1>7

\* An answer may always stop, with or without a notice.
LEMMA MayStop ==
  ASSUME NEW a \in Seq(Msg), NEW m \in {<<>>, <<Cancel>>}
  PROVE  m \in Seq(Msg) /\ a \o m \in Streams!Stops(a)
<1>1. <<Cancel>> \in Seq(Msg) /\ <<>> \in Seq(Msg) BY Messages
<1>2. a \o m = a \/ a \o m = Append(a, Cancel) BY ShortStreams
<1> QED BY <1>1, <1>2, Messages DEF Streams!Stops

LEMMA Exchanging ==
  ASSUME TunnelTypeInv, NEW c \in Arrived, UNCHANGED local
  PROVE  local' = [local EXCEPT ![c] = local[c]]
<1>1. local \in [1..Len(local) -> Exchanges] BY LenProperties DEF TunnelTypeInv
<1> QED BY <1>1

\* cancelContext() of a request that is not over.
LEMMA CancelSound ==
  ASSUME TunnelInv, NEW c \in Arrived, Live(c), NEW m \in Seq(Msg), CancelContext(c, m),
         NEW l \in Exchanges, local' = [local EXCEPT ![c] = l], UNCHANGED connection,
         NEW a \in Streams!Continues(sent[c]), sent[c] \o m \in Streams!Stops(a)
  PROVE  TunnelInv' /\ Streams!Stop(c)
<1> DEFINE x == CleanedUp(ctx[c], ctx[c].completed, TRUE)
<1>1. TunnelTypeInv BY DEF TunnelInv
<1>2. /\ ctx[c] \in Ctx /\ contexts[ctx[c].id] # 0 /\ sent[c] \in Seq(Msg)
      /\ ctx[c].completed \in BOOLEAN /\ ~ctx[c].completed
  BY SoFar DEF Ctx, Live
<1>3. /\ contexts' = [contexts EXCEPT ![ctx[c].id] = 0]
      /\ ctx' = [ctx EXCEPT ![c].cancelled = TRUE, ![c].idle = FALSE, ![c].absolute = FALSE]
      /\ sent' = [sent EXCEPT ![c] = @ \o m]
  BY <1>2 DEF CancelContext
<1>4. /\ x \in Ctx /\ x.id = ctx[c].id /\ x.completed = ctx[c].completed /\ x.cancelled = TRUE
      /\ ~x.idle /\ ~x.absolute
  BY <1>2, Fields
<1>5. ctx' = [ctx EXCEPT ![c] = x] BY <1>1, <1>2, <1>3, Cleanup
<1>6. sent' = [sent EXCEPT ![c] = sent[c] \o m]
  <2>1. sent \in [1..Len(sent) -> Seq(Msg)] BY <1>1, LenProperties DEF TunnelTypeInv
  <2> QED BY <1>3, <2>1
<1> HIDE DEF x
<1>7. Becomes(c, x, sent[c] \o m, l) BY <1>5, <1>6 DEF Becomes
<1> QED BY <1>2, <1>3, <1>4, <1>7, Ends

\* cancelContext() with the notice, when the socket is open.
LEMMA NotifySound ==
  ASSUME TunnelInv, NEW c \in Arrived, Live(c), CancelAndNotify(c),
         NEW l \in Exchanges, local' = [local EXCEPT ![c] = l], UNCHANGED connection
  PROVE  TunnelInv' /\ Streams!Stop(c)
<1>1. CancelContext(c, Notice) /\ Notice \in {<<>>, <<Cancel>>}
  BY DEF CancelAndNotify, Notice
<1>2. sent[c] \in Seq(Msg) /\ sent[c] \in Streams!Continues(sent[c]) BY SoFar
<1>3. Notice \in Seq(Msg) /\ sent[c] \o Notice \in Streams!Stops(sent[c])
  BY <1>1, <1>2, MayStop
<1> HIDE DEF Notice
<1> QED BY <1>1, <1>2, <1>3, CancelSound

\* The same of a request whose exchange stays as it is.
LEMMA NotifySame ==
  ASSUME TunnelInv, NEW c \in Arrived, Live(c), CancelAndNotify(c), UNCHANGED <<local, connection>>
  PROVE  TunnelInv' /\ Streams!Stop(c)
<1>1. TunnelTypeInv BY DEF TunnelInv
<1>2. local[c] \in Exchanges /\ local' = [local EXCEPT ![c] = local[c]]
  BY <1>1, TunnelTypes, Exchanging
<1> QED BY <1>2, NotifySound

\* The outcomes of sending one message.
LEMMA OneMessage ==
  ASSUME NEW e \in Msg, NEW out \in SendOutcomes(<<e>>)
  PROVE  /\ out.ok \in BOOLEAN
         /\ out.msgs \in {<<>>, <<e>>, <<Cancel>>, Append(<<e>>, Cancel)}
         /\ out.ok => out.msgs = <<e>>
         /\ ~out.ok => out.msgs \in {<<>>, <<Cancel>>, Append(<<e>>, Cancel)}
<1> DEFINE s == <<e>>
<1>1. Len(s) = 1 /\ s \in Seq(Msg) OBVIOUS
<1>2. SubSeq(s, 1, 0) = <<>> BY SubSeqEmpty
<1>3. SubSeq(s, 1, 1) = s BY <1>1, SubSeqFull
<1>4. Append(<<>>, Cancel) = <<Cancel>> OBVIOUS
<1> HIDE DEF s
<1>5. \/ out = [ok |-> FALSE, msgs |-> <<>>]
      \/ out = [ok |-> TRUE, msgs |-> s]
      \/ \E i \in 0..1 : out = [ok |-> FALSE, msgs |-> Append(SubSeq(s, 1, i), Cancel)]
  BY <1>1 DEF SendOutcomes, s
<1>6. \A i \in 0..1 : i = 0 \/ i = 1 OBVIOUS
<1>7. \/ out = [ok |-> FALSE, msgs |-> <<>>]
      \/ out = [ok |-> TRUE, msgs |-> s]
      \/ out = [ok |-> FALSE, msgs |-> <<Cancel>>]
      \/ out = [ok |-> FALSE, msgs |-> Append(s, Cancel)]
  BY <1>2, <1>3, <1>4, <1>5, <1>6
<1> DEFINE t == Append(s, Cancel)
           r == <<Cancel>>
<1>8. /\ out.ok \in BOOLEAN
      /\ \/ out.ok = TRUE /\ out.msgs = s
         \/ out.ok = FALSE /\ out.msgs \in {<<>>, r, t}
  <2> HIDE DEF t, r
  <2>1. \/ out = [ok |-> FALSE, msgs |-> <<>>]
        \/ out = [ok |-> TRUE, msgs |-> s]
        \/ out = [ok |-> FALSE, msgs |-> r]
        \/ out = [ok |-> FALSE, msgs |-> t]
    BY <1>7 DEF t, r
  <2>2. ASSUME NEW b \in BOOLEAN, NEW m, out = [ok |-> b, msgs |-> m]
        PROVE  out.ok = b /\ out.msgs = m
    BY <2>2
  <2>3. ASSUME NEW m, out = [ok |-> FALSE, msgs |-> m], m \in {<<>>, r, t}
        PROVE  out.ok = FALSE /\ out.msgs \in {<<>>, r, t}
    BY <2>2, <2>3
  <2>4. CASE out = [ok |-> TRUE, msgs |-> s] BY <2>2, <2>4
  <2>5. CASE out = [ok |-> FALSE, msgs |-> <<>>] BY <2>3, <2>5
  <2>6. CASE out = [ok |-> FALSE, msgs |-> r] BY <2>3, <2>6
  <2>7. CASE out = [ok |-> FALSE, msgs |-> t] BY <2>3, <2>7
  <2> QED BY <2>1, <2>4, <2>5, <2>6, <2>7
<1> QED BY <1>8 DEF s

\* The end and a notice after an answer.
LEMMA EndNotice ==
  ASSUME NEW a \in Seq(Msg)
  PROVE  a \o Append(<<End>>, Cancel) = a \o <<End, Cancel>>
<1> DEFINE t == Append(<<End>>, Cancel)
           u == <<End, Cancel>>
<1>1. <<End>> \in Seq(Msg) /\ Cancel \in Msg /\ Len(<<End>>) = 1 /\ <<End>>[1] = End
  BY Messages
<1>2. /\ t \in Seq(Msg) /\ Len(t) = Len(<<End>>) + 1 /\ t[Len(<<End>>) + 1] = Cancel
      /\ \A i \in 1..Len(<<End>>) : t[i] = <<End>>[i]
  BY <1>1, AppendProperties
<1>3. u \in Seq(Msg) /\ Len(u) = 2 /\ u[1] = End /\ u[2] = Cancel BY Messages
<1> HIDE DEF t, u
<1>4. Len(t) = 2 /\ t[1] = End /\ t[2] = Cancel BY <1>1, <1>2
<1>5. \A i \in 1..2 : i = 1 \/ i = 2 OBVIOUS
<1>6. t = u BY <1>2, <1>3, <1>4, <1>5, SeqEqual
<1> QED BY <1>6 DEF t, u
-----------------------------------------------------------------------------
(* Messages of the relay *)

\* A request that goes on without a message for it.
LEMMA SameStream ==
  ASSUME TunnelInv, NEW c \in Arrived, Live(c), NEW x \in Ctx,
         x.id = ctx[c].id, ~x.completed, ~x.cancelled, x.idle,
         x.nextResponse = ctx[c].nextResponse,
         x.state \in Responding <=> ctx[c].state \in Responding,
         ctx' = [ctx EXCEPT ![c] = x], UNCHANGED <<contexts, sent, local, connection>>
  PROVE  TunnelInv' /\ Streams!Send(c)
<1>1. TunnelTypeInv /\ Exchange(c) BY DEF TunnelInv
<1>2. local[c] \in Exchanges /\ local' = [local EXCEPT ![c] = local[c]]
  BY <1>1, TunnelTypes, Exchanging
<1>3. sent' = [sent EXCEPT ![c] = sent[c]]
  <2>1. sent \in [1..Len(sent) -> Seq(Msg)] BY <1>1, LenProperties DEF TunnelTypeInv
  <2> QED BY <2>1
<1>4. Becomes(c, x, sent[c], local[c]) BY <1>2, <1>3 DEF Becomes
<1>5. sent[c] \in Seq(Msg) /\ sent[c] \in Streams!Continues(sent[c]) BY SoFar
<1>6. /\ local[c] # "closed"
      /\ local[c] = "requested" =>
           sent[c] = <<>> /\ x.nextResponse = 0 /\ x.state \notin Responding
      /\ local[c] = "answered" =>
           sent[c] = Streams!Answer(x.nextResponse) /\ x.state \in Responding
  BY <1>1 DEF Exchange
<1> QED BY <1>2, <1>4, <1>5, <1>6, Goes

\* onStart(): a new context.
LEMMA OnStartSound ==
  ASSUME TunnelInv, NEW r \in RequestIds, NEW hasBody \in BOOLEAN, OnStart(r, hasBody)
  PROVE  TunnelInv' /\ Streams!Accept(Len(ctx) + 1)
<1> SUFFICES ASSUME NEW n, n = Len(ctx) + 1
             PROVE  TunnelInv' /\ Streams!Accept(n)
  OBVIOUS
<1> DEFINE x == [id |-> r, socket |-> socket, hasBody |-> hasBody,
                 state |-> IF hasBody THEN "receiving_request_body" ELSE "request_started",
                 nextRequest |-> 0, nextResponse |-> 0, idle |-> TRUE, absolute |-> TRUE,
                 completed |-> FALSE, cancelled |-> FALSE]
<1>1. TunnelTypeInv /\ MapIsLive /\ (\A d \in Arrived : Exchange(d)) BY DEF TunnelInv
<1>2. /\ socket # 0 /\ Len(ctx) < MaxContexts /\ contexts[r] = 0
      /\ ctx' = Append(ctx, x) /\ contexts' = [contexts EXCEPT ![r] = n]
      /\ local' = Append(local, "requested") /\ sent' = Append(sent, <<>>)
      /\ UNCHANGED connection
  BY DEF OnStart, Listening
<1>3. x \in Ctx
  <2>1. socket \in 1..MaxSockets BY <1>1, <1>2 DEF TunnelTypeInv
  <2>2. 0 \in 0..MaxBody OBVIOUS
  <2> QED BY <2>1, <2>2 DEF Ctx, CtxStates
<1>4. /\ x.id = r /\ ~x.completed /\ ~x.cancelled /\ x.idle /\ x.nextResponse = 0
      /\ x.state \notin Responding
  BY DEF Responding
<1>5. /\ ctx \in Seq(Ctx) /\ local \in Seq(Exchanges) /\ sent \in Seq(Seq(Msg))
      /\ Len(local) = Len(ctx) /\ Len(sent) = Len(ctx) /\ Len(ctx) \in Nat
      /\ "requested" \in Exchanges /\ <<>> \in Seq(Msg) /\ 0 \notin Arrived
  BY <1>1, TunnelTypes, ShortStreams DEF TunnelTypeInv, Exchanges
<1> HIDE DEF x
<1>6. /\ ctx' \in Seq(Ctx) /\ Len(ctx') = n /\ ctx'[n] = x
      /\ \A d \in Arrived : ctx'[d] = ctx[d]
  BY <1>2, <1>3, <1>5, AppendProperties DEF Arrived
<1>7. /\ local' \in Seq(Exchanges) /\ Len(local') = n /\ local'[n] = "requested"
      /\ \A d \in Arrived : local'[d] = local[d]
  BY <1>2, <1>5, AppendProperties DEF Arrived
<1>8. /\ sent' \in Seq(Seq(Msg)) /\ Len(sent') = n /\ sent'[n] = <<>>
      /\ \A d \in Arrived : sent'[d] = sent[d]
  BY <1>2, <1>5, AppendProperties DEF Arrived
<1>9. /\ Arrived' = Arrived \cup {n} /\ n \notin Arrived /\ n \in Nat /\ n # 0 /\ n \in Ids
      /\ n <= MaxContexts
  BY <1>2, <1>5, <1>6 DEF Arrived, Ids
<1>10. contexts' \in [RequestIds -> Nat] /\ contexts'[r] = n
       /\ \A q \in RequestIds : q # r => contexts'[q] = contexts[q]
  BY <1>1, <1>2, <1>9 DEF TunnelTypeInv
<1>11. TunnelTypeInv'
  BY <1>1, <1>2, <1>6, <1>7, <1>8, <1>9, <1>10 DEF TunnelTypeInv, connection
<1>12. Live(n)' /\ \A d \in Arrived : Live(d)' <=> Live(d)
  BY <1>4, <1>6, <1>9 DEF Live
<1>13. MapIsLive'
  <2>1. ASSUME NEW q \in RequestIds, NEW d, d = contexts'[q], d # 0
        PROVE  d \in Arrived' /\ Live(d)' /\ ctx'[d].id = q
    <3>1. CASE q = r BY <1>4, <1>6, <1>9, <1>10, <1>12, <2>1, <3>1
    <3>2. CASE q # r
      <4>1. d = contexts[q] BY <1>10, <2>1, <3>2
      <4>2. Live(d) /\ ctx[d].id = q BY <1>1, <2>1, <4>1 DEF MapIsLive
      <4>3. d \in Arrived BY <4>2 DEF Live
      <4> QED BY <1>6, <1>9, <1>12, <4>2, <4>3
    <3> QED BY <3>1, <3>2
  <2>2. ASSUME NEW d \in Arrived'
        PROVE  /\ Live(d)' => contexts'[ctx'[d].id] = d
               /\ Live(d)' <=> ctx'[d].idle
               /\ ctx'[d].absolute => Live(d)'
    <3>1. CASE d = n BY <1>4, <1>6, <1>10, <1>12, <3>1
    <3>2. CASE d \in Arrived
      <4>1. /\ Live(d) => contexts[ctx[d].id] = d
            /\ Live(d) <=> ctx[d].idle
            /\ ctx[d].absolute => Live(d)
        BY <1>1, <3>2 DEF MapIsLive
      <4>2. ctx[d].id \in RequestIds BY <1>1, <3>2, TunnelTypes DEF Ctx
      <4>3. Live(d) => ctx[d].id # r BY <1>2, <1>5, <3>2, <4>1
      <4> QED BY <1>6, <1>10, <1>12, <3>2, <4>1, <4>2, <4>3
    <3> QED BY <1>9, <3>1, <3>2
  <2> QED BY <2>1, <2>2 DEF MapIsLive, Live
<1>14. \A d \in Arrived' : Exchange(d)'
  <2>1. Exchange(n)' BY <1>2, <1>4, <1>6, <1>7, <1>8 DEF Exchange, connection
  <2>2. ASSUME NEW d \in Arrived PROVE Exchange(d)'
    <3>1. ctx'[d] = ctx[d] /\ local'[d] = local[d] /\ sent'[d] = sent[d]
      BY <1>6, <1>7, <1>8
    <3>2. (Live(d)' <=> Live(d)) /\ Exchange(d) /\ socket' = socket
      BY <1>1, <1>2, <1>12 DEF connection
    <3> QED BY <3>1, <3>2 DEF Exchange
  <2> QED BY <1>9, <2>1, <2>2
<1>15. Streams!Accept(n)
  <2>1. LiveOnes' = LiveOnes \cup {n} BY <1>9, <1>12 DEF LiveOnes
  <2>2. StreamOf' = StreamOf
    <3>1. \A d \in Ids : (d \in Arrived') <=> (d \in Arrived \/ d = n) BY <1>9
    <3>2. \A d \in Ids : (IF d \in Arrived' THEN sent'[d] ELSE <<>>)
                           = (IF d \in Arrived THEN sent[d] ELSE <<>>)
      BY <1>8, <1>9, <3>1
    <3> QED BY <3>2 DEF StreamOf, Ids
  <2>3. socket # 0 /\ UNCHANGED (socket # 0) BY <1>2 DEF connection
  <2> QED BY <1>9, <2>1, <2>2, <2>3 DEF Streams!Accept, LiveOnes, StreamOf
<1> QED BY <1>11, <1>13, <1>14, <1>15 DEF TunnelInv

\* onBody(): the next chunk, or the end of the request.
LEMMA OnBodySound ==
  ASSUME TunnelInv, NEW c \in Arrived, NEW n, OnBody(c, n)
  PROVE  TunnelInv' /\ \E d \in Ids : Streams!Send(d) \/ Streams!Stop(d)
<1>1. Live(c) /\ UNCHANGED <<local, connection>> BY DEF OnBody
<1>2. c \in Ids BY TunnelTypes DEF TunnelInv
<1>3. CASE CancelAndNotify(c) BY <1>1, <1>2, <1>3, NotifySame
<1>4. CASE ~CancelAndNotify(c)
  <2> DEFINE x == [ctx[c] EXCEPT !.nextRequest = ctx[c].nextRequest + 1, !.idle = TRUE]
  <2>1. /\ ctx[c].nextRequest < MaxBody
        /\ ctx' = [ctx EXCEPT ![c].nextRequest = @ + 1, ![c].idle = TRUE]
        /\ UNCHANGED <<contexts, sent>>
    BY <1>4 DEF OnBody
  <2>2. ctx[c] \in Ctx /\ ~ctx[c].completed /\ ~ctx[c].cancelled BY <1>1, SoFar DEF Live
  <2>3. ctx' = [ctx EXCEPT ![c] = x]
    <3>1. ctx \in [Arrived -> Ctx] BY LenProperties DEF TunnelInv, TunnelTypeInv, Arrived
    <3> QED BY <2>1, <3>1 DEF Ctx
  <2>4. /\ x \in Ctx /\ x.id = ctx[c].id /\ x.completed = ctx[c].completed
        /\ x.cancelled = ctx[c].cancelled /\ x.idle
        /\ x.nextResponse = ctx[c].nextResponse /\ x.state = ctx[c].state
    <3> DEFINE y == [ctx[c] EXCEPT !.nextRequest = ctx[c].nextRequest + 1]
    <3>1. ctx[c].nextRequest + 1 \in 0..MaxBody BY <2>1, <2>2 DEF Ctx
    <3>2. /\ y \in Ctx /\ y.id = ctx[c].id /\ y.completed = ctx[c].completed
          /\ y.cancelled = ctx[c].cancelled /\ y.nextResponse = ctx[c].nextResponse
          /\ y.state = ctx[c].state
      BY <2>2, <3>1 DEF Ctx
    <3>3. x = [y EXCEPT !.idle = TRUE] OBVIOUS
    <3> HIDE DEF y, x
    <3> QED BY <3>2, <3>3 DEF Ctx
  <2> HIDE DEF x
  <2> QED BY <1>1, <1>2, <2>1, <2>2, <2>3, <2>4, SameStream
<1> QED BY <1>3, <1>4

\* onEnd(): the request is complete, or it was before.
LEMMA OnEndSound ==
  ASSUME TunnelInv, NEW c \in Arrived, OnEnd(c)
  PROVE  TunnelInv' /\ \E d \in Ids : Streams!Send(d) \/ Streams!Stop(d)
<1>1. Live(c) /\ UNCHANGED <<local, connection>> BY DEF OnEnd
<1>2. c \in Ids BY TunnelTypes DEF TunnelInv
<1>3. CASE CancelAndNotify(c) BY <1>1, <1>2, <1>3, NotifySame
<1>4. CASE ~CancelAndNotify(c)
  <2> DEFINE x == [ctx[c] EXCEPT !.state = "request_complete", !.absolute = FALSE,
                                 !.idle = TRUE]
  <2>1. /\ ctx[c].state \in {"request_started", "receiving_request_body"}
        /\ ctx' = [ctx EXCEPT ![c].state = "request_complete",
                              ![c].absolute = FALSE, ![c].idle = TRUE]
        /\ UNCHANGED <<contexts, sent>>
    BY <1>4 DEF OnEnd
  <2>2. ctx[c] \in Ctx /\ ~ctx[c].completed /\ ~ctx[c].cancelled BY <1>1, SoFar DEF Live
  <2>3. ctx' = [ctx EXCEPT ![c] = x]
    <3>1. ctx \in [Arrived -> Ctx] BY LenProperties DEF TunnelInv, TunnelTypeInv, Arrived
    <3> QED BY <2>1, <3>1 DEF Ctx
  <2>4. /\ x \in Ctx /\ x.id = ctx[c].id /\ x.completed = ctx[c].completed
        /\ x.cancelled = ctx[c].cancelled /\ x.idle
        /\ x.nextResponse = ctx[c].nextResponse /\ x.state = "request_complete"
    <3> DEFINE y == [ctx[c] EXCEPT !.state = "request_complete"]
               z == [y EXCEPT !.absolute = FALSE]
    <3>1. /\ y \in Ctx /\ y.id = ctx[c].id /\ y.completed = ctx[c].completed
          /\ y.cancelled = ctx[c].cancelled /\ y.nextResponse = ctx[c].nextResponse
          /\ y.state = "request_complete"
      BY <2>2 DEF Ctx, CtxStates
    <3>2. x = [z EXCEPT !.idle = TRUE] OBVIOUS
    <3> HIDE DEF y, x
    <3>3. /\ z \in Ctx /\ z.id = ctx[c].id /\ z.completed = ctx[c].completed
          /\ z.cancelled = ctx[c].cancelled /\ z.nextResponse = ctx[c].nextResponse
          /\ z.state = "request_complete"
      BY <3>1 DEF Ctx
    <3> HIDE DEF z
    <3> QED BY <3>2, <3>3 DEF Ctx
  <2> HIDE DEF x
  <2>5. x.state \notin Responding /\ ctx[c].state \notin Responding
    BY <2>1, <2>4 DEF Responding
  <2> QED BY <1>1, <1>2, <2>1, <2>2, <2>3, <2>4, <2>5, SameStream
<1> QED BY <1>3, <1>4

\* onCancel(), and a message that cannot be understood.
LEMMA OnCancelSound ==
  ASSUME TunnelInv, NEW c \in Arrived, OnCancel(c) \/ Invalid(c)
  PROVE  TunnelInv' /\ Streams!Stop(c)
<1>1. CASE OnCancel(c)
  <2>1. Live(c) /\ CancelContext(c, <<>>) /\ UNCHANGED <<local, connection>>
    BY <1>1 DEF OnCancel
  <2>2. sent[c] \in Seq(Msg) /\ sent[c] \in Streams!Continues(sent[c]) BY <2>1, SoFar
  <2>3. <<>> \in Seq(Msg) /\ sent[c] \o <<>> \in Streams!Stops(sent[c]) BY <2>2, MayStop
  <2>4. local[c] \in Exchanges /\ local' = [local EXCEPT ![c] = local[c]]
    BY <2>1, TunnelTypes, Exchanging DEF TunnelInv
  <2> QED BY <2>1, <2>2, <2>3, <2>4, CancelSound
<1>2. CASE Invalid(c) BY <1>2, NotifySame DEF Invalid
<1> QED BY <1>1, <1>2
-----------------------------------------------------------------------------
(* The local server *)

\* The stream after a message that was sent whole.
LEMMA SentSeq ==
  ASSUME TunnelTypeInv, NEW c \in Arrived, NEW m, sent' = [sent EXCEPT ![c] = @ \o m]
  PROVE  sent' = [sent EXCEPT ![c] = sent[c] \o m]
<1>1. sent \in [1..Len(sent) -> Seq(Msg)] BY LenProperties DEF TunnelTypeInv
<1> QED BY <1>1

\* The head of a response, as far as it was sent.
LEMMA HeadStops ==
  ASSUME NEW m \in {<<>>, <<Cancel>>, Append(<<Start>>, Cancel)}
  PROVE  /\ m \in Seq(Msg)
         /\ \E a \in Streams!Continues(<<>>) : <<>> \o m \in Streams!Stops(a)
<1>1. /\ <<>> \in Seq(Msg) /\ <<Start>> \in Seq(Msg) /\ <<Cancel>> \in Seq(Msg)
      /\ Start \in Msg /\ Cancel \in Msg
  BY Messages
<1>2. <<>> \in Streams!Continues(<<>>) /\ Streams!Answer(0) \in Streams!Continues(<<>>)
  <2>1. 0 \in 0..MaxBody /\ 0 \in Nat OBVIOUS
  <2>2. Len(Streams!Answer(0)) \in Nat /\ Len(<<>>) = 0 BY <2>1, AnswerParts, LenProperties
  <2>3. <<>> \in Streams!Answers /\ Streams!Answer(0) \in Streams!Answers
    BY <2>1 DEF Streams!Answers
  <2> QED BY <2>2, <2>3 DEF Streams!Continues
<1>3. CASE m \in {<<>>, <<Cancel>>} BY <1>1, <1>2, <1>3, MayStop
<1>4. CASE m = Append(<<Start>>, Cancel)
  <2>1. m \in Seq(Msg) BY <1>1, <1>4, AppendProperties
  <2>2. <<>> \o m = Append(Streams!Answer(0), Cancel)
    <3>1. <<>> \o Append(<<Start>>, Cancel) = Append(<<>> \o <<Start>>, Cancel)
      BY ONLY <1>1, ConcatAppend
    <3>2. <<>> \o <<Start>> = Streams!Answer(0) BY ShortStreams
    <3> QED BY <1>4, <3>1, <3>2
  <2> QED BY <1>2, <2>1, <2>2, Messages DEF Streams!Stops
<1> QED BY <1>3, <1>4

\* A request whose context is gone from the Map, or flagged, is over.
LEMMA Gone ==
  ASSUME TunnelInv, NEW c \in Arrived, contexts[ctx[c].id] = 0 \/ ctx[c].cancelled
  PROVE  ~Live(c)
BY SoFar DEF Live

\* The response of the local server: its head, or the end of the request.
LEMMA LocalResponseSound ==
  ASSUME TunnelInv, NEW c \in Arrived, NEW usable \in BOOLEAN, NEW hasBody \in BOOLEAN,
         LocalResponse(c, usable, hasBody)
  PROVE  TunnelInv' /\ (UNCHANGED Streams!vars \/ \E d \in Ids : Streams!Send(d) \/ Streams!Stop(d))
<1>1. /\ local[c] = "requested" /\ local' = [local EXCEPT ![c] = "answered"]
      /\ UNCHANGED connection /\ "answered" \in Exchanges
  BY DEF LocalResponse, Exchanges
<1>2. TunnelTypeInv /\ Exchange(c) /\ c \in Ids BY TunnelTypes DEF TunnelInv
<1>3. ~ctx[c].completed BY <1>1, <1>2 DEF Exchange
<1>4. CASE contexts[ctx[c].id] = 0 \/ ctx[c].cancelled
  <2>1. ~Live(c) BY <1>4, Gone
  <2>2. UNCHANGED <<contexts, ctx, sent>> BY <1>4 DEF LocalResponse
  <2> QED BY <1>1, <1>3, <2>1, <2>2, Quiet
<1>5. CASE ~(contexts[ctx[c].id] = 0 \/ ctx[c].cancelled) /\ ~usable
  <2>1. Live(c) BY <1>3, <1>5 DEF Live
  <2>2. CancelAndNotify(c) BY <1>5 DEF LocalResponse
  <2> QED BY <1>1, <1>2, <2>1, <2>2, NotifySound
<1>6. CASE ~(contexts[ctx[c].id] = 0 \/ ctx[c].cancelled) /\ usable
  <2>1. Live(c) BY <1>3, <1>6 DEF Live
  <2>2. PICK out \in SendOutcomes(<<Start>>) :
          /\ sent' = [sent EXCEPT ![c] = @ \o out.msgs]
          /\ IF out.ok
             THEN /\ ctx' = [ctx EXCEPT ![c].state =
                               IF hasBody THEN "receiving_response_body"
                               ELSE "response_started"]
                  /\ UNCHANGED contexts
             ELSE /\ contexts' = [contexts EXCEPT ![ctx[c].id] = 0]
                  /\ ctx' = [ctx EXCEPT ![c].cancelled = TRUE, ![c].idle = FALSE,
                                        ![c].absolute = FALSE]
    BY <1>6 DEF LocalResponse
  <2>3. /\ out.ok => out.msgs = <<Start>>
        /\ ~out.ok => out.msgs \in {<<>>, <<Cancel>>, Append(<<Start>>, Cancel)}
    BY Messages, OneMessage
  <2>4. sent[c] = <<>> /\ ctx[c].nextResponse = 0 BY <1>1, <1>2, <2>1 DEF Exchange
  <2>5. CASE out.ok
    <3> DEFINE st == IF hasBody THEN "receiving_response_body" ELSE "response_started"
               x == [ctx[c] EXCEPT !.state = st]
    <3>1. st \in Responding /\ st \in CtxStates BY DEF Responding, CtxStates
    <3>2. ctx' = [ctx EXCEPT ![c].state = st] /\ UNCHANGED contexts BY <2>2, <2>5
    <3>3. ctx[c] \in Ctx /\ ctx[c].idle /\ ~ctx[c].completed /\ ~ctx[c].cancelled
      BY <2>1, SoFar DEF Live
    <3> HIDE DEF st
    <3>4. ctx' = [ctx EXCEPT ![c] = x]
      <4>1. ctx \in [Arrived -> Ctx] BY <1>2, LenProperties DEF TunnelTypeInv, Arrived
      <4> QED BY <3>2, <4>1
    <3>5. /\ x \in Ctx /\ x.id = ctx[c].id /\ ~x.completed /\ ~x.cancelled /\ x.idle
          /\ x.nextResponse = 0 /\ x.state \in Responding
      BY <2>4, <3>1, <3>3 DEF Ctx
    <3> HIDE DEF x
    <3>6. sent[c] \o out.msgs = Streams!Answer(0) BY <2>3, <2>4, <2>5, ShortStreams
    <3>7. sent' = [sent EXCEPT ![c] = Streams!Answer(0)]
      BY <1>2, <2>2, <3>6, SentSeq
    <3>8. Streams!Answer(0) \in Seq(Msg) /\ Len(Streams!Answer(0)) \in Nat /\ Len(<<>>) = 0
      <4>1. 0 \in Nat OBVIOUS
      <4> QED BY <4>1, AnswerParts, LenProperties
    <3>9. Streams!Answer(0) \in Streams!Continues(sent[c])
      <4>1. 0 \in 0..MaxBody OBVIOUS
      <4>2. Streams!Answer(0) \in Streams!Answers BY <4>1 DEF Streams!Answers
      <4> QED BY <2>4, <3>8, <4>2 DEF Streams!Continues
    <3>10. Becomes(c, x, Streams!Answer(0), "answered") BY <1>1, <3>4, <3>7 DEF Becomes
    <3>11. Streams!Answer(0) = Streams!Answer(x.nextResponse) BY <3>5
    <3> QED BY <1>1, <1>2, <2>1, <3>2, <3>5, <3>8, <3>9, <3>10, <3>11, Goes
  <2>6. CASE ~out.ok
    <3> DEFINE m == out.msgs
    <3>1. CancelContext(c, m)
      <4>1. contexts[ctx[c].id] # 0 BY <1>6
      <4> QED BY <2>2, <2>6, <4>1 DEF CancelContext
    <3>2. m \in {<<>>, <<Cancel>>, Append(<<Start>>, Cancel)} BY <2>3, <2>6
    <3> HIDE DEF m
    <3>3. m \in Seq(Msg) /\ \E a \in Streams!Continues(<<>>) : <<>> \o m \in Streams!Stops(a)
      BY <3>2, HeadStops
    <3>4. PICK a \in Streams!Continues(sent[c]) : sent[c] \o m \in Streams!Stops(a)
      BY <2>4, <3>3
    <3> QED BY <1>1, <1>2, <2>1, <3>1, <3>3, <3>4, CancelSound
  <2> QED BY <2>5, <2>6
<1> QED BY <1>4, <1>5, <1>6

\* The chunks of a data event, as far as they were sent.
LEMMA ChunkOutcomes ==
  ASSUME NEW c, ctx[c].nextResponse \in Nat, NEW k \in Nat,
         NEW out \in SendOutcomes(Chunks(c, k))
  PROVE  /\ out.ok => out.msgs = Chunks(c, k) /\ open
         /\ ~out.ok => out.msgs = <<>>
                       \/ \E i \in 0..k : out.msgs = Append(Chunks(c, i), Cancel)
<1> DEFINE s == Chunks(c, k)
<1>1. Len(s) = k /\ \A i \in 0..k : SubSeq(s, 1, i) = Chunks(c, i) BY ChunkParts
<1> HIDE DEF s
<1>2. \/ out = [ok |-> FALSE, msgs |-> <<>>]
      \/ out = [ok |-> TRUE, msgs |-> s] /\ open
      \/ \E i \in 0..k : out = [ok |-> FALSE, msgs |-> Append(SubSeq(s, 1, i), Cancel)]
  BY <1>1 DEF SendOutcomes, s
<1>3. CASE out = [ok |-> FALSE, msgs |-> <<>>] BY <1>3
<1>4. CASE out = [ok |-> TRUE, msgs |-> s] /\ open BY <1>4 DEF s
<1>5. ASSUME NEW i \in 0..k, out = [ok |-> FALSE, msgs |-> Append(SubSeq(s, 1, i), Cancel)]
      PROVE  out.ok = FALSE /\ out.msgs = Append(Chunks(c, i), Cancel)
  <2> DEFINE m == Append(SubSeq(s, 1, i), Cancel)
  <2>1. out = [ok |-> FALSE, msgs |-> m] BY <1>5
  <2>2. m = Append(Chunks(c, i), Cancel) BY <1>1
  <2> HIDE DEF m
  <2> QED BY <2>1, <2>2
<1> QED BY <1>2, <1>3, <1>4, <1>5

\* A longer answer continues a shorter one.
LEMMA Longer ==
  ASSUME NEW n \in Nat, NEW m \in 0..MaxBody, n <= m
  PROVE  /\ Streams!Answer(m) \in Streams!Continues(Streams!Answer(n))
         /\ Streams!Answer(n) \in Seq(Msg) /\ Streams!Answer(m) \in Seq(Msg)
<1>1. m \in Nat OBVIOUS
<1>2. /\ Streams!Answer(n) \in Seq(Msg) /\ Len(Streams!Answer(n)) = 1 + n
      /\ Streams!Answer(m) \in Seq(Msg) /\ Len(Streams!Answer(m)) = 1 + m
  BY <1>1, AnswerParts
<1>3. Streams!Answer(m) \in Streams!Answers BY DEF Streams!Answers
<1> QED BY <1>1, <1>2, <1>3 DEF Streams!Continues

\* Data of the local server: the next parts, or the end at the limit or when
\* they cannot be sent.
LEMMA LocalDataSound ==
  ASSUME TunnelInv, NEW c \in Arrived, NEW k \in 1..MaxParts, LocalData(c, k)
  PROVE  TunnelInv' /\ \E d \in Ids : Streams!Send(d) \/ Streams!Stop(d)
<1> DEFINE n == ctx[c].nextResponse
<1>1. /\ local[c] = "answered" /\ Live(c) /\ UNCHANGED <<local, connection>>
      /\ ctx[c].state = "receiving_response_body"
  BY DEF LocalData
<1>2. TunnelTypeInv /\ Exchange(c) /\ c \in Ids BY TunnelTypes DEF TunnelInv
<1>3. /\ ctx[c] \in Ctx /\ ctx[c].idle /\ ~ctx[c].completed /\ ~ctx[c].cancelled
      /\ n \in 0..MaxBody /\ n \in Nat /\ Room(c) = MaxBody - n /\ Room(c) \in Nat
  BY <1>1, SoFar DEF Live, Room
<1>4. sent[c] = Streams!Answer(n) BY <1>1, <1>2 DEF Exchange
<1>5. local[c] \in Exchanges /\ local' = [local EXCEPT ![c] = local[c]]
  BY <1>1, <1>2, TunnelTypes, Exchanging
<1>6. ASSUME NEW i \in Nat, n + i <= MaxBody
      PROVE  /\ Streams!Answer(n + i) \in Streams!Continues(sent[c])
             /\ Streams!Answer(n) \o Chunks(c, i) = Streams!Answer(n + i)
             /\ Streams!Answer(n) \in Seq(Msg) /\ Streams!Answer(n + i) \in Seq(Msg)
             /\ Chunks(c, i) \in Seq(Msg)
  <2>1. n + i \in 0..MaxBody /\ n <= n + i BY <1>3, <1>6
  <2> QED BY <1>3, <1>4, <2>1, Longer, AnswerGoesOn, ChunkParts
<1>7. ASSUME NEW m \in Seq(Msg), CancelContext(c, m),
             NEW a \in Streams!Continues(sent[c]), sent[c] \o m \in Streams!Stops(a)
      PROVE  TunnelInv' /\ \E d \in Ids : Streams!Send(d) \/ Streams!Stop(d)
  BY <1>1, <1>2, <1>5, <1>7, CancelSound
<1>8. ASSUME NEW i \in Nat, n + i <= MaxBody, CancelContext(c, Append(Chunks(c, i), Cancel))
      PROVE  TunnelInv' /\ \E d \in Ids : Streams!Send(d) \/ Streams!Stop(d)
  <2> DEFINE a == Streams!Answer(n + i)
             t == Chunks(c, i)
             m == Append(t, Cancel)
  <2>1. /\ a \in Streams!Continues(sent[c]) /\ sent[c] \o t = a /\ t \in Seq(Msg)
        /\ sent[c] \in Seq(Msg)
    BY <1>4, <1>6, <1>8
  <2>2. CancelContext(c, m) BY <1>8
  <2> HIDE DEF a, t
  <2>3. m \in Seq(Msg) /\ sent[c] \o m = Append(a, Cancel)
    BY <2>1, Messages, AppendProperties, ConcatAppend
  <2>4. sent[c] \o m \in Streams!Stops(a) BY <2>3, Messages DEF Streams!Stops
  <2> HIDE DEF m
  <2> QED BY <1>7, <2>1, <2>2, <2>3, <2>4
<1>9. ASSUME CancelContext(c, <<>>)
      PROVE  TunnelInv' /\ \E d \in Ids : Streams!Send(d) \/ Streams!Stop(d)
  <2>1. sent[c] \in Seq(Msg) /\ sent[c] \in Streams!Continues(sent[c]) BY <1>1, SoFar
  <2>2. <<>> \in Seq(Msg) /\ sent[c] \o <<>> \in Streams!Stops(sent[c]) BY <2>1, MayStop
  <2> QED BY <1>7, <1>9, <2>1, <2>2
<1>10. CASE k > Room(c)
  <2> DEFINE room == Room(c)
  <2>1. PICK out \in SendOutcomes(Chunks(c, room)) :
          CancelContext(c, IF out.ok THEN out.msgs \o Notice ELSE out.msgs)
    BY <1>10 DEF LocalData
  <2>2. room \in Nat /\ n + room <= MaxBody BY <1>3
  <2> HIDE DEF room
  <2>3. /\ out.ok => out.msgs = Chunks(c, room) /\ open
        /\ ~out.ok => out.msgs = <<>>
                      \/ \E i \in 0..room : out.msgs = Append(Chunks(c, i), Cancel)
    BY <1>3, <2>2, ChunkOutcomes
  <2>4. CASE out.ok
    <3>1. Chunks(c, room) \in Seq(Msg) BY <1>6, <2>2
    <3>2. out.msgs \o Notice = Append(Chunks(c, room), Cancel)
      BY <2>3, <2>4, <3>1, ShortStreams DEF Notice
    <3> QED BY <1>8, <2>1, <2>2, <2>4, <3>2
  <2>5. CASE ~out.ok
    <3>1. CASE out.msgs = <<>> BY <1>9, <2>1, <2>5, <3>1
    <3>2. ASSUME NEW i \in 0..room, out.msgs = Append(Chunks(c, i), Cancel)
          PROVE  TunnelInv' /\ \E d \in Ids : Streams!Send(d) \/ Streams!Stop(d)
      <4>1. i \in Nat /\ n + i <= MaxBody BY <1>3, <2>2
      <4> QED BY <1>8, <2>1, <2>5, <3>2, <4>1
    <3> QED BY <2>3, <2>5, <3>1, <3>2
  <2> QED BY <2>4, <2>5
<1>11. CASE ~(k > Room(c))
  <2>1. PICK out \in SendOutcomes(Chunks(c, k)) :
          IF out.ok
          THEN /\ sent' = [sent EXCEPT ![c] = @ \o out.msgs]
               /\ ctx' = [ctx EXCEPT ![c].nextResponse = @ + k, ![c].idle = TRUE]
               /\ UNCHANGED contexts
          ELSE CancelContext(c, out.msgs)
    BY <1>11 DEF LocalData
  <2>2. k \in Nat /\ n + k <= MaxBody BY <1>3, <1>11
  <2>3. /\ out.ok => out.msgs = Chunks(c, k) /\ open
        /\ ~out.ok => out.msgs = <<>>
                      \/ \E i \in 0..k : out.msgs = Append(Chunks(c, i), Cancel)
    BY <1>3, <2>2, ChunkOutcomes
  <2>4. CASE out.ok
    <3> DEFINE x == [ctx[c] EXCEPT !.nextResponse = n + k, !.idle = TRUE]
    <3>1. /\ sent' = [sent EXCEPT ![c] = @ \o Chunks(c, k)] /\ UNCHANGED contexts
          /\ ctx' = [ctx EXCEPT ![c].nextResponse = @ + k, ![c].idle = TRUE]
      BY <2>1, <2>3, <2>4
    <3>2. ctx' = [ctx EXCEPT ![c] = x]
      <4>1. ctx \in [Arrived -> Ctx] BY <1>2, LenProperties DEF TunnelTypeInv, Arrived
      <4> QED BY <3>1, <4>1 DEF Ctx
    <3>3. /\ x \in Ctx /\ x.id = ctx[c].id /\ ~x.completed /\ ~x.cancelled /\ x.idle
          /\ x.nextResponse = n + k /\ x.state = ctx[c].state
      <4> DEFINE y == [ctx[c] EXCEPT !.nextResponse = n + k]
      <4>1. n + k \in 0..MaxBody BY <1>3, <2>2
      <4> HIDE DEF n
      <4>2. /\ y \in Ctx /\ y.id = ctx[c].id /\ ~y.completed /\ ~y.cancelled
            /\ y.nextResponse = n + k /\ y.state = ctx[c].state
        BY <1>3, <4>1 DEF Ctx
      <4>3. x = [y EXCEPT !.idle = TRUE] OBVIOUS
      <4> HIDE DEF x, y
      <4> QED BY <4>2, <4>3 DEF Ctx
    <3> HIDE DEF x
    <3>4. sent' = [sent EXCEPT ![c] = Streams!Answer(n + k)]
      BY <1>2, <1>4, <1>6, <2>2, <3>1, SentSeq
    <3>5. /\ Streams!Answer(n + k) \in Streams!Continues(sent[c])
          /\ Streams!Answer(n + k) \in Seq(Msg)
      BY <1>6, <2>2
    <3>6. Becomes(c, x, Streams!Answer(n + k), "answered")
      BY <1>1, <1>5, <3>2, <3>4 DEF Becomes
    <3>7. x.state \in Responding /\ "answered" \in Exchanges
      BY <1>1, <3>3 DEF Responding, Exchanges
    <3>8. Streams!Answer(n + k) = Streams!Answer(x.nextResponse) BY <3>3
    <3> QED BY <1>1, <1>2, <3>1, <3>3, <3>5, <3>6, <3>7, <3>8, Goes
  <2>5. CASE ~out.ok
    <3>1. CASE out.msgs = <<>> BY <1>9, <2>1, <2>5, <3>1
    <3>2. ASSUME NEW i \in 0..k, out.msgs = Append(Chunks(c, i), Cancel)
          PROVE  TunnelInv' /\ \E d \in Ids : Streams!Send(d) \/ Streams!Stop(d)
      <4>1. i \in Nat /\ n + i <= MaxBody BY <1>3, <2>2
      <4> QED BY <1>8, <2>1, <2>5, <3>2, <4>1
    <3> QED BY <2>3, <2>5, <3>1, <3>2
  <2> QED BY <2>4, <2>5
<1> QED BY <1>10, <1>11
\* finishContext: the end of a response, also when it could not be sent.
LEMMA LocalEndSound ==
  ASSUME TunnelInv, NEW c \in Arrived, LocalEnd(c)
  PROVE  TunnelInv' /\ (UNCHANGED Streams!vars \/ \E d \in Ids : Streams!Send(d) \/ Streams!Stop(d))
<1>1. /\ local[c] = "answered" /\ local' = [local EXCEPT ![c] = "closed"]
      /\ UNCHANGED connection /\ "closed" \in Exchanges
  BY DEF LocalEnd, Exchanges
<1>2. TunnelTypeInv /\ Exchange(c) /\ c \in Ids BY TunnelTypes DEF TunnelInv
<1>3. CASE ~Live(c)
  <2>1. UNCHANGED <<contexts, ctx, sent>> BY <1>3 DEF LocalEnd, FinishContext
  <2> QED BY <1>1, <1>3, <2>1, Quiet
<1>4. CASE Live(c)
  <2>1. PICK out \in SendOutcomes(<<End>>) :
          /\ sent' = [sent EXCEPT ![c] = @ \o out.msgs]
          /\ contexts' = [contexts EXCEPT ![ctx[c].id] = 0]
          /\ ctx' = [ctx EXCEPT ![c].completed = TRUE, ![c].cancelled = ~out.ok,
                                ![c].idle = FALSE, ![c].absolute = FALSE]
    BY <1>4 DEF LocalEnd, FinishContext
  <2> DEFINE m == out.msgs
             x == CleanedUp(ctx[c], TRUE, ~out.ok)
             a == sent[c]
  <2>2. out.ok \in BOOLEAN /\ m \in {<<>>, <<End>>, <<Cancel>>, Append(<<End>>, Cancel)}
    BY Messages, OneMessage
  <2>3. ctx[c] \in Ctx /\ a \in Streams!Continues(a) /\ a \in Seq(Msg) BY <1>4, SoFar
  <2>4. ctx' = [ctx EXCEPT ![c] = x] BY <1>2, <2>1, <2>2, Cleanup
  <2>5. x \in Ctx /\ x.id = ctx[c].id /\ x.completed /\ ~x.idle /\ ~x.absolute
    BY <2>2, <2>3, Fields
  <2>6. sent' = [sent EXCEPT ![c] = a \o m] BY <1>2, <2>1, SentSeq
  <2>7. a # <<>>
    <3>1. a = Streams!Answer(ctx[c].nextResponse) /\ ctx[c].nextResponse \in Nat
      BY <1>1, <1>2, <1>4, SoFar DEF Exchange
    <3>2. Len(a) = 1 + ctx[c].nextResponse BY <3>1, AnswerParts
    <3>3. Len(<<>>) = 0 OBVIOUS
    <3> HIDE DEF a
    <3> QED BY <3>1, <3>2, <3>3
  <2> HIDE DEF x, m, a
  <2>8. m \in Seq(Msg) /\ a \o m \in Streams!Stops(a)
    <3>1. CASE m \in {<<>>, <<Cancel>>} BY <2>3, <3>1, MayStop
    <3>2. CASE m = <<End>>
      <4>1. m \in Seq(Msg) /\ a \o m = Append(a, End) BY <2>3, <3>2, Messages, ShortStreams
      <4> QED BY <2>7, <4>1, Messages DEF Streams!Stops
    <3>3. CASE m = Append(<<End>>, Cancel)
      <4>1. <<End>> \in Seq(Msg) /\ Cancel \in Msg BY Messages
      <4>2. m \in Seq(Msg) /\ a \o m = a \o <<End, Cancel>>
        BY <2>3, <3>3, <4>1, AppendProperties, EndNotice
      <4> QED BY <2>7, <4>2, Messages DEF Streams!Stops
    <3> QED BY <2>2, <3>1, <3>2, <3>3
  <2>9. Becomes(c, x, a \o m, "closed") BY <1>1, <2>4, <2>6 DEF Becomes
  <2> QED BY <1>1, <1>2, <1>4, <2>1, <2>3, <2>5, <2>8, <2>9, Ends DEF a
<1> QED BY <1>3, <1>4

\* An error of the local server.
LEMMA LocalErrorSound ==
  ASSUME TunnelInv, NEW c \in Arrived, LocalError(c)
  PROVE  TunnelInv' /\ (UNCHANGED Streams!vars \/ \E d \in Ids : Streams!Send(d) \/ Streams!Stop(d))
<1>1. /\ local' = [local EXCEPT ![c] = "closed"] /\ UNCHANGED connection
      /\ "closed" \in Exchanges
  BY DEF LocalError, Exchanges
<1>2. c \in Ids BY TunnelTypes DEF TunnelInv
<1>3. CASE Live(c) BY <1>1, <1>2, <1>3, NotifySound DEF LocalError
<1>4. CASE ~Live(c) BY <1>1, <1>4, Quiet DEF LocalError
<1> QED BY <1>3, <1>4

\* A timer runs only for a request that is not over.
LEMMA TimeoutSound ==
  ASSUME TunnelInv, NEW c \in Arrived, IdleTimeout(c) \/ RequestTimeout(c)
  PROVE  TunnelInv' /\ Streams!Stop(c)
<1>1. Live(c) BY DEF TunnelInv, MapIsLive, IdleTimeout, RequestTimeout
<1>2. CancelAndNotify(c) /\ UNCHANGED <<local, connection>>
  BY DEF IdleTimeout, RequestTimeout
<1> QED BY <1>1, <1>2, NotifySame

-----------------------------------------------------------------------------
(* The connection *)

\* Nothing changes but the connection, and a live request has one.
LEMMA ConnectionOnly ==
  ASSUME TunnelInv, UNCHANGED <<contexts, ctx, local, sent>>,
         socket' \in 0..MaxSockets, sockets' \in 0..MaxSockets, open' \in BOOLEAN,
         open' => socket' # 0, socket # 0 => socket' # 0
  PROVE  TunnelInv' /\ UNCHANGED <<LiveOnes, StreamOf, Arrived>>
<1>1. Arrived' = Arrived /\ \A d \in Arrived : Live(d)' <=> Live(d) BY DEF Arrived, Live
<1>2. TunnelTypeInv' BY DEF TunnelInv, TunnelTypeInv
<1>3. MapIsLive' BY <1>1 DEF TunnelInv, MapIsLive, Arrived, Live
<1>4. \A d \in Arrived : Exchange(d)' BY <1>1 DEF TunnelInv, Exchange
<1>5. UNCHANGED <<LiveOnes, StreamOf, Arrived>> BY <1>1 DEF LiveOnes, StreamOf, Ids
<1> QED BY <1>1, <1>2, <1>3, <1>4, <1>5 DEF TunnelInv

\* The relay has accepted the homeESS.
LEMMA AuthenticatedSound ==
  ASSUME TunnelInv, Authenticated
  PROVE  TunnelInv' /\ Streams!Connect
<1>1. /\ socket = 0 /\ sockets < MaxSockets /\ sockets \in Nat
      /\ socket' = sockets + 1 /\ sockets' = sockets + 1 /\ open' = TRUE
      /\ UNCHANGED <<contexts, ctx, local, sent>>
  BY DEF Authenticated, TunnelInv, TunnelTypeInv
<1>2. socket' \in 0..MaxSockets /\ sockets' \in 0..MaxSockets /\ socket' # 0
  BY <1>1
<1>3. TunnelInv' /\ UNCHANGED <<LiveOnes, StreamOf, Arrived>> BY <1>1, <1>2, ConnectionOnly
<1>4. Streams!Connect BY <1>1, <1>2, <1>3 DEF Streams!Connect, LiveOnes, StreamOf
<1> QED BY <1>3, <1>4

\* The socket closes and its event is still to come.
LEMMA ClosingSound ==
  ASSUME TunnelInv, Closing
  PROVE  TunnelInv' /\ UNCHANGED Streams!vars
<1>1. open' = FALSE /\ UNCHANGED <<contexts, ctx, local, socket, sockets, sent>>
  BY DEF Closing
<1>2. socket \in 0..MaxSockets /\ sockets \in 0..MaxSockets BY DEF TunnelInv, TunnelTypeInv
<1>3. TunnelInv' /\ UNCHANGED <<LiveOnes, StreamOf, Arrived>> BY <1>1, <1>2, ConnectionOnly
<1>4. UNCHANGED Streams!vars BY <1>1, <1>3 DEF Streams!vars, LiveOnes, StreamOf
<1> QED BY <1>3, <1>4

\* abortAll(): every request is over, and some exchanges with the local server.
LEMMA AbortSound ==
  ASSUME TunnelInv, AbortAll, socket # 0, socket' = 0, open' = FALSE,
         UNCHANGED <<sockets, sent>>, local' \in Seq(Exchanges), Len(local') = Len(local),
         \A d \in Arrived : local'[d] = local[d] \/ local'[d] = "closed"
  PROVE  TunnelInv' /\ Streams!Disconnect
<1>1. /\ socket # 0 /\ socket' = 0 /\ open' = FALSE /\ UNCHANGED <<sockets, sent>>
      /\ contexts' = [r \in RequestIds |-> 0]
      /\ ctx' = [c \in Arrived |->
                   IF Live(c) THEN [ctx[c] EXCEPT !.cancelled = TRUE, !.idle = FALSE,
                                                  !.absolute = FALSE]
                   ELSE ctx[c]]
  BY DEF AbortAll
<1>2. TunnelTypeInv /\ MapIsLive /\ (\A d \in Arrived : Exchange(d)) BY DEF TunnelInv
<1>3. /\ Len(ctx) \in Nat /\ Arrived = 1..Len(ctx) /\ \A d \in Arrived : ctx[d] \in Ctx
  BY <1>2, TunnelTypes DEF Arrived
<1>4. ASSUME NEW d \in Arrived
      PROVE  /\ ctx'[d] \in Ctx /\ ctx'[d].completed = ctx[d].completed
             /\ ctx'[d].completed \/ ctx'[d].cancelled
             /\ ~ctx'[d].idle /\ ~ctx'[d].absolute
  <2>1. CASE Live(d)
    <3> DEFINE y == [ctx[d] EXCEPT !.cancelled = TRUE]
               z == [y EXCEPT !.idle = FALSE]
    <3>1. ctx'[d] = [z EXCEPT !.absolute = FALSE] BY <1>1, <2>1
    <3>2. y \in Ctx /\ y.completed = ctx[d].completed /\ y.cancelled BY <1>3 DEF Ctx
    <3> HIDE DEF y
    <3>3. z \in Ctx /\ z.completed = ctx[d].completed /\ z.cancelled /\ ~z.idle
      BY <3>2 DEF Ctx
    <3> HIDE DEF z
    <3> QED BY <3>1, <3>3 DEF Ctx
  <2>2. CASE ~Live(d)
    <3>1. ctx'[d] = ctx[d] BY <1>1, <2>2
    <3>2. ~ctx[d].idle /\ ~ctx[d].absolute BY <1>2, <2>2 DEF MapIsLive
    <3> QED BY <1>3, <2>2, <3>1, <3>2 DEF Live
  <2> QED BY <2>1, <2>2
<1>5. ctx' \in [1..Len(ctx) -> Ctx]
  <2>1. DOMAIN ctx' = 1..Len(ctx) /\ ctx' = [d \in 1..Len(ctx) |-> ctx'[d]] BY <1>1, <1>3
  <2> QED BY <1>3, <1>4, <2>1
<1>6. ctx' \in Seq(Ctx) /\ Len(ctx') = Len(ctx) BY <1>3, <1>5, SeqDef, LenProperties
<1>7. Arrived' = Arrived /\ \A d \in Arrived : ~Live(d)' BY <1>4, <1>6 DEF Arrived, Live
<1>8. TunnelTypeInv'
  <2>1. contexts' \in [RequestIds -> Nat] BY <1>1
  <2>5. 0 \in 0..MaxSockets OBVIOUS
  <2>6. socket' = 0 /\ open' = FALSE BY <1>1
  <2>2. socket' \in 0..MaxSockets /\ open' \in BOOLEAN BY <2>5, <2>6
  <2>3. UNCHANGED <<sockets, sent>> BY <1>1
  <2>4. ~open' BY <1>1
  <2> QED BY <1>2, <1>6, <2>1, <2>2, <2>3, <2>4 DEF TunnelTypeInv
<1>9. MapIsLive' BY <1>1, <1>4, <1>7 DEF MapIsLive
<1>10. \A d \in Arrived : Exchange(d)' BY <1>1, <1>2, <1>4, <1>7 DEF Exchange
<1>11. Streams!Disconnect
  <2>1. LiveOnes' = {} /\ StreamOf' = StreamOf BY <1>1, <1>7 DEF LiveOnes, StreamOf, Ids
  <2> QED BY <1>1, <1>7, <2>1 DEF Streams!Disconnect, LiveOnes, StreamOf
<1> QED BY <1>7, <1>8, <1>9, <1>10, <1>11 DEF TunnelInv

LEMMA ConnectionLostSound ==
  ASSUME TunnelInv, ConnectionLost
  PROVE  TunnelInv' /\ Streams!Disconnect
<1>1. local \in Seq(Exchanges) BY DEF TunnelInv, TunnelTypeInv
<1> QED BY <1>1, AbortSound DEF ConnectionLost

\* The process ends for the headers of an answer: a request whose answer is
\* looked at has a connection.
LEMMA HeadersRefusedSound ==
  ASSUME TunnelInv, NEW c \in Arrived, HeadersRefused(c)
  PROVE  TunnelInv' /\ Streams!Disconnect
<1>1. /\ local[c] = "requested" /\ ~ctx[c].cancelled
      /\ AbortAll /\ socket' = 0 /\ open' = FALSE /\ UNCHANGED <<sockets, sent>>
      /\ local' = [d \in Arrived |-> "closed"]
  BY DEF HeadersRefused
<1>2. socket # 0
  <2>1. Exchange(c) BY DEF TunnelInv
  <2>2. Live(c) BY <1>1, <2>1 DEF Exchange, Live
  <2> QED BY <2>1, <2>2 DEF Exchange
<1>3. Len(local) \in Nat /\ Arrived = 1..Len(local)
  BY LenProperties DEF TunnelInv, TunnelTypeInv, Arrived
<1>4. local' \in [1..Len(local) -> Exchanges] BY <1>1, <1>3 DEF Exchanges
<1>5. local' \in Seq(Exchanges) /\ Len(local') = Len(local)
  BY <1>3, <1>4, SeqDef, LenProperties
<1>6. \A d \in Arrived : local'[d] = "closed" BY <1>1
<1> QED BY <1>1, <1>2, <1>5, <1>6, AbortSound

-----------------------------------------------------------------------------
(* The specification *)

\* Nothing of the tunnel's changes.
LEMMA SameSound ==
  ASSUME TunnelInv, UNCHANGED tunnelVars
  PROVE  TunnelInv' /\ UNCHANGED Streams!vars
<1>1. UNCHANGED <<contexts, ctx, local, socket, sockets, open, sent>>
  BY DEF tunnelVars
<1>2. socket \in 0..MaxSockets /\ sockets \in 0..MaxSockets /\ open \in BOOLEAN /\ (open => socket # 0)
  BY DEF TunnelInv, TunnelTypeInv
<1>3. TunnelInv' /\ UNCHANGED <<LiveOnes, StreamOf, Arrived>> BY <1>1, <1>2, ConnectionOnly
<1>4. UNCHANGED Streams!vars BY <1>1, <1>3 DEF Streams!vars, LiveOnes, StreamOf
<1> QED BY <1>3, <1>4

\* The tunnel starts as the promise does, without a connection or a request.
LEMMA TunnelInitSound == TunnelInit => TunnelInv /\ Streams!Init
<1> SUFFICES ASSUME TunnelInit PROVE TunnelInv /\ Streams!Init
  OBVIOUS
<1>1. /\ contexts = [r \in RequestIds |-> 0] /\ ctx = <<>> /\ local = <<>> /\ sent = <<>>
      /\ socket = 0 /\ open = FALSE /\ sockets = 0 /\ Len(ctx) = 0 /\ Arrived = {}
  BY DEF TunnelInit, Arrived
<1>2. MaxContexts \in Nat /\ 0 \in 0..MaxSockets OBVIOUS
<1>3. TunnelTypeInv
  <2>1. contexts \in [RequestIds -> Nat] BY <1>1
  <2>2. ctx \in Seq(Ctx) /\ local \in Seq(Exchanges) /\ sent \in Seq(Seq(Msg))
        /\ Len(local) = Len(ctx) /\ Len(sent) = Len(ctx) /\ Len(ctx) <= MaxContexts
    BY <1>1, <1>2
  <2> QED BY <1>1, <1>2, <2>1, <2>2 DEF TunnelTypeInv
<1>4. MapIsLive BY <1>1 DEF MapIsLive
<1>5. Streams!Init BY <1>1 DEF Streams!Init
<1> QED BY <1>1, <1>3, <1>4, <1>5 DEF TunnelInv

\* Every step keeps the invariant and is one the promise allows, or none.
LEMMA NextSound == TunnelInv /\ [TunnelNext]_tunnelVars => TunnelInv' /\ [Streams!Next]_Streams!vars
<1> SUFFICES ASSUME TunnelInv, [TunnelNext]_tunnelVars
             PROVE  TunnelInv' /\ (UNCHANGED Streams!vars \/ Streams!Next)
  OBVIOUS
<1>1. /\ Arrived \subseteq Ids
      /\ \A c \in Ids : Streams!Send(c) \/ Streams!Stop(c) \/ Streams!Accept(c) => Streams!Next
      /\ Streams!Connect \/ Streams!Disconnect => Streams!Next
  BY TunnelTypes DEF Streams!Next, TunnelInv
<1>2. CASE Relay
  <2>1. ASSUME NEW r \in RequestIds, NEW b \in BOOLEAN, OnStart(r, b)
        PROVE  TunnelInv' /\ Streams!Next
    <3>1. Len(ctx) + 1 \in Ids BY <2>1, TunnelTypes DEF OnStart, TunnelInv, Ids
    <3> QED BY <1>1, <2>1, <3>1, OnStartSound
  <2> QED BY <1>1, <1>2, <2>1, OnEndSound, OnCancelSound, OnBodySound DEF Relay
<1>3. CASE Local
  BY <1>1, <1>3, LocalResponseSound, LocalDataSound, LocalEndSound, LocalErrorSound,
     HeadersRefusedSound
  DEF Local
<1>4. CASE Timer BY <1>1, <1>4, TimeoutSound DEF Timer
<1>5. CASE Connection
  BY <1>1, <1>5, AuthenticatedSound, ClosingSound, ConnectionLostSound DEF Connection
<1>6. CASE UNCHANGED tunnelVars BY <1>6, SameSound
<1> QED BY <1>2, <1>3, <1>4, <1>5, <1>6 DEF TunnelNext

\* MapIsLive: the Map of origin-tunnel.js holds exactly the requests that are
\* not over, each under its own id, and exactly those have a running idle
\* timer: finishContext, cancelContext and abortAll each undo all of it, and
\* what comes late for a request that is over touches nothing.
THEOREM MapHoldsTheLive == TunnelSpec => []MapIsLive
<1>1. TunnelInv => MapIsLive BY DEF TunnelInv
<1>2. TunnelInit => TunnelInv BY TunnelInitSound
<1>3. TunnelInv /\ [TunnelNext]_tunnelVars => TunnelInv' BY NextSound
<1> QED BY <1>1, <1>2, <1>3, PTL DEF TunnelSpec

\* KeepsPromise: the tunnel implements RequestStreams.  For any number of
\* requests, connections and chunks the relay sees, for each request, a head,
\* parts without a gap and one end, perhaps cut off; nothing after a request is
\* over; and no request that outlives its connection.
THEOREM TunnelKeepsPromise == TunnelSpec => KeepsPromise
<1>1. TunnelInit => TunnelInv /\ Streams!Init BY TunnelInitSound
<1>2. TunnelInv /\ [TunnelNext]_tunnelVars => TunnelInv' /\ [Streams!Next]_Streams!vars BY NextSound
<1> QED BY <1>1, <1>2, PTL DEF TunnelSpec, KeepsPromise, Streams!Spec
=============================================================================
