-------------------------- MODULE NotificationLease --------------------------
(***************************************************************************)
(* NotificationDO with realtime admission: the leases it stores, its       *)
(* sockets and its one alarm.                                              *)
(*                                                                         *)
(* Between two awaits of D1 the handlers await only storage, and the input *)
(* gate lets no other event in: what runs there is one action.  The        *)
(* revalidation of live sockets in D1 opens the gate; so a close callback  *)
(* and an alarm are split where they fan out to any.  Authorization before *)
(* an upgrade decides nothing about leases, and its answer may be old: any *)
(* request that carries a claim may install it.                            *)
(*                                                                         *)
(* Typing and presence have counters of their own below that of frames,    *)
(* debited the same way; frames stand for them.  A lease pays for one       *)
(* close, and is closed once; who pays (markCleanup) is left out, and so    *)
(* are the receipts of canonical broadcasts.                               *)
(*                                                                         *)
(* Time is relative: what is kept is how long a claim and the alarm have    *)
(* still to run, so time has no end.  Nor has the stream of claims: the     *)
(* number of a claim that is over and forgotten serves a later one.         *)
(***************************************************************************)
EXTENDS Integers, FiniteSets, FiniteSetsExt

CONSTANTS
  NumLeases,     \* bound on the claims that are signed and not yet forgotten
  MaxSockets,    \* MAX_NOTIFICATION_CONNECTIONS
  MaxReceipts,   \* MAX_REALTIME_LEASE_RECEIPTS
  Frames,        \* MAX_REALTIME_EVENTS_PER_LEASE
  LeaseTime,     \* MAX_REALTIME_LEASE_MS
  AlarmEvery,    \* period of the alarm
  MaxFaults      \* bound on failed fanouts and restarts of the object

ASSUME BoundsAssumption ==
  /\ NumLeases \in Nat
  /\ {Frames, MaxFaults} \subseteq Nat
  /\ {MaxSockets, MaxReceipts, LeaseTime, AlarmEvery} \subseteq Nat \ {0}

VARIABLES
  remaining,  \* how long the claim of a lease has still to run
  row,        \* LeaseRecord, by lease; the index names those that are present
  receipts,   \* leases in the receipt index
  sock,       \* the socket of a lease in the registry
  cleaning,   \* leases whose close callback awaits its fanout
  alarm,      \* how long the alarm set in storage has still to run
  alarmPc,    \* where the alarm handler is
  sweep,      \* leases recoverPendingCleanup has still to visit
  used,       \* frames of a claim that runs, served or given up with its row
  faults

vars == <<remaining, row, receipts, sock, cleaning, alarm, alarmPc, sweep,
          used, faults>>

Leases == 1 .. NumLeases
Never == AlarmEvery + 1
Row == [state : {"absent", "active", "pending", "settled"}, frames : 0 .. Frames,
        alarms : 0 .. 1]
Absent == [state |-> "absent", frames |-> 0, alarms |-> 0]
NewRow == [state |-> "active", frames |-> Frames, alarms |-> 1]

\* beginCleanup, settleCleanup: nothing reads the counters of a closed lease.
Closed(state) == [Absent EXCEPT !.state = state]

TypeOK ==
  /\ remaining \in [Leases -> 0 .. LeaseTime]
  /\ row \in [Leases -> Row]
  /\ receipts \subseteq Leases
  /\ sock \in [Leases -> {"gone", "open", "closing"}]
  /\ cleaning \subseteq Leases
  /\ alarm \in 0 .. Never
  /\ alarmPc \in {"idle", "revalidating", "sweeping"}
  /\ sweep \subseteq Leases
  /\ used \in [Leases -> Nat]
  /\ faults \in 0 .. MaxFaults

Init ==
  /\ remaining = [l \in Leases |-> 0]
  /\ row = [l \in Leases |-> Absent]
  /\ receipts = {}
  /\ sock = [l \in Leases |-> "gone"]
  /\ cleaning = {}
  /\ alarm = Never /\ alarmPc = "idle" /\ sweep = {}
  /\ used = [l \in Leases |-> 0]
  /\ faults = 0

Index == {l \in Leases : row[l].state # "absent"}
Registry == {l \in Leases : sock[l] # "gone"}
Current(l) == remaining[l] > 0

\* Sockets activeStaff revalidates in D1.
Live(socks) == {l \in Leases : socks[l] = "open" /\ Current(l)}

\* Mutant: receipts are dropped an instant early.
RememberedEarly == {l \in receipts : remaining[l] > 1}

\* leaseReceipts drops what a claim could no longer be presented for.
Remembered == {l \in receipts : Current(l)}

\* Mutant: the counter is not checked.
DebitableUnpaid(l, left) == row[l].state = "active" /\ Current(l)

\* debit, of a counter of the row with so much left.
Debitable(l, left) == row[l].state = "active" /\ Current(l) /\ left > 0

\* settleCleanup and removeLease.
Settled(r) == IF r.state = "pending" THEN Absent ELSE r

\* Mutant: only sockets keep the alarm.
ScheduledForSockets(rows, socks) ==
  IF Live(socks) = {} THEN Never
  ELSE Min({AlarmEvery} \cup {remaining[l] : l \in Live(socks)})

\* scheduleAlarm, for the rows and the sockets a handler leaves behind: whatever
\* the alarm had still to run, it is set anew.  A socket whose lease is over is
\* not waited for.
Scheduled(rows, socks) ==
  IF Live(socks) = {} /\ \A l \in Leases : rows[l].state # "pending" THEN Never
  ELSE Min({AlarmEvery} \cup {remaining[l] : l \in Live(socks)})

-----------------------------------------------------------------------------
(* Time, and the Worker that signs claims.                                 *)

\* Nothing is kept of a claim that is over: leaseReceipts drops its receipt
\* before it reads the others.
Tick ==
  /\ remaining' = [l \in Leases |-> IF Current(l) THEN remaining[l] - 1 ELSE 0]
  /\ alarm' = IF alarm \in {0, Never} THEN alarm ELSE alarm - 1
  /\ receipts' = {l \in receipts : remaining[l] > 1}
  /\ used' = [l \in Leases |-> IF remaining[l] > 1 THEN used[l] ELSE 0]
  /\ UNCHANGED <<row, sock, cleaning, alarmPc, sweep, faults>>

\* Nothing is left of the claim a number stood for.
Forgotten(l) == ~Current(l) /\ l \notin Index \cup Registry \cup cleaning \cup sweep

\* A claim ends with the trusted authority or the session, a lease time from
\* now at the latest.
Sign(l) ==
  /\ Forgotten(l) /\ \A k \in 1 .. l - 1 : ~Forgotten(k)
  /\ \E e \in 1 .. LeaseTime : remaining' = [remaining EXCEPT ![l] = e]
  /\ UNCHANGED <<row, receipts, sock, cleaning, alarm, alarmPc, sweep, used, faults>>

-----------------------------------------------------------------------------
(* The upgrade.                                                            *)

\* installLease: a claim is installed once, also when two requests carry it.
Installable(l) ==
  /\ Current(l)
  /\ l \notin Index \cup Remembered
  /\ Cardinality(Index) < MaxSockets
  /\ Cardinality(Remembered) < MaxReceipts

\* Mutant: the index stands for the registry.
RoomInIndex == Cardinality(Index) < MaxSockets

Room == Cardinality(Registry) < MaxSockets

Install(l) ==
  /\ Installable(l)
  /\ row' = [row EXCEPT ![l] = NewRow]
  /\ receipts' = Remembered \cup {l}
  /\ UNCHANGED <<remaining, cleaning, alarmPc, sweep, used, faults>>

Accept(l) ==
  /\ Install(l)
  /\ Room
  /\ sock' = [sock EXCEPT ![l] = "open"]
  /\ alarm' = Scheduled(row', sock')

\* The registry is checked after the lease is stored.
TurnAway(l) ==
  /\ Install(l)
  /\ ~Room
  /\ UNCHANGED <<sock, alarm>>

-----------------------------------------------------------------------------
(* Frames, closes and their callbacks.                                     *)

\* webSocketMessage debits before anything else happens.
Frame(l) ==
  /\ sock[l] = "open"
  /\ Debitable(l, row[l].frames)
  /\ row' = [row EXCEPT ![l].frames = @ - 1]
  /\ used' = [used EXCEPT ![l] = @ + 1]
  /\ UNCHANGED <<remaining, receipts, sock, cleaning, alarm, alarmPc, sweep, faults>>

\* A client leaves, a send fails, a frame cannot be paid, or a revalidation on
\* behalf of any event finds the session revoked or the lease over (closeInvalid).
Close(l) ==
  /\ sock[l] = "open"
  /\ sock' = [sock EXCEPT ![l] = "closing"]
  /\ UNCHANGED <<remaining, row, receipts, cleaning, alarm, alarmPc, sweep, used, faults>>

\* What is left in a row that is closed is not served to anybody.
GivenUp(l) == IF Current(l) THEN [used EXCEPT ![l] = @ + row[l].frames] ELSE used

\* webSocketClose, up to its fanout (beginCleanup), or to its end where nobody
\* is to be told.
BeginClose(l) ==
  /\ sock[l] = "closing"
  /\ row[l].state = "active"
  /\ IF Live(sock) # {}
     THEN /\ row' = [row EXCEPT ![l] = Closed("pending")]
          /\ cleaning' = cleaning \cup {l}
          /\ UNCHANGED alarm
     ELSE /\ row' = [row EXCEPT ![l] = Absent]
          /\ alarm' = Scheduled(row', sock)
          /\ UNCHANGED cleaning
  /\ used' = GivenUp(l)
  /\ UNCHANGED <<remaining, receipts, sock, alarmPc, sweep, faults>>

\* The callback may come again, after an error.
CloseAgain(l) ==
  /\ sock[l] = "closing"
  /\ row[l].state # "active"
  /\ alarm' = Scheduled(row, sock)
  /\ UNCHANGED <<remaining, row, receipts, sock, cleaning, alarmPc, sweep, used, faults>>

\* A fanout fails: the cleanup stays pending.
Undelivered == faults < MaxFaults /\ faults' = faults + 1

FinishClose(l) ==
  /\ l \in cleaning
  /\ cleaning' = cleaning \ {l}
  /\ \/ row' = [row EXCEPT ![l] = Settled(@)] /\ UNCHANGED faults
     \/ UNCHANGED row /\ Undelivered
  /\ alarm' = Scheduled(row', sock)
  /\ UNCHANGED <<remaining, receipts, sock, alarmPc, sweep, used>>

\* The runtime takes a closed socket out of the registry in its own time.
Release(l) ==
  /\ sock[l] = "closing"
  /\ row[l].state # "active"
  /\ sock' = [sock EXCEPT ![l] = "gone"]
  /\ UNCHANGED <<remaining, row, receipts, cleaning, alarm, alarmPc, sweep, used, faults>>

-----------------------------------------------------------------------------
(* The alarm: debit every socket, close what cannot pay, revalidate, then   *)
(* recover what is pending.                                                *)

\* recoverPendingCleanup goes on, from these rows to the leases of the index it
\* has left, until it awaits a fanout or is through; then the handler ends.
Sweep(rows, left, was) ==
  LET pending == {l \in left : rows[l].state = "pending"}
  IN IF pending # {} /\ Live(sock') # {}
     THEN row' = rows /\ alarmPc' = "sweeping" /\ sweep' = left /\ alarm' = was
     ELSE /\ row' = [l \in Leases |-> IF l \in pending THEN Absent ELSE rows[l]]
          /\ alarmPc' = "idle" /\ sweep' = {} /\ alarm' = Scheduled(row', sock')

FireAlarm ==
  LET broke == {l \in Registry : ~Debitable(l, row[l].alarms)}
      rows == [l \in Leases |->
                IF l \in Registry \ broke THEN [row[l] EXCEPT !.alarms = @ - 1]
                ELSE row[l]]
  IN /\ alarmPc = "idle"
     /\ alarm = 0
     /\ sock' = [l \in Leases |-> IF l \in broke THEN "closing" ELSE sock[l]]
     /\ IF Live(sock') # {}
        THEN row' = rows /\ alarmPc' = "revalidating" /\ sweep' = {} /\ alarm' = Never
        ELSE Sweep(rows, Index, Never)
     /\ UNCHANGED <<remaining, receipts, cleaning, used, faults>>

\* The sockets have been revalidated.
StartSweep ==
  /\ alarmPc = "revalidating"
  /\ UNCHANGED <<remaining, receipts, sock, cleaning, used, faults>>
  /\ Sweep(row, Index, alarm)

\* The fanout for one lease of the index has ended.
Recover(l) ==
  /\ l \in sweep
  /\ UNCHANGED <<remaining, receipts, sock, cleaning, used>>
  /\ \/ Sweep([row EXCEPT ![l] = Settled(@)], sweep \ {l}, alarm) /\ UNCHANGED faults
     \/ row[l].state = "pending" /\ Undelivered /\ Sweep(row, sweep \ {l}, alarm)

\* The object stops: its handlers and its sockets are gone, storage is not, and
\* an alarm that was running runs again.
Stopped ==
  /\ faults < MaxFaults
  /\ faults' = faults + 1
  /\ sock' = [l \in Leases |-> "gone"]
  /\ cleaning' = {} /\ sweep' = {}
  /\ alarmPc' = "idle"
  /\ alarm' = IF alarmPc = "idle" THEN alarm ELSE 0
  /\ UNCHANGED <<remaining, receipts>>

Restart == Stopped /\ UNCHANGED <<row, used>>

\* It stops within a close or a recovery: after beginCleanup, or inside
\* settleCleanup, between the record and the index.
RestartWithin(l) ==
  LET active == sock[l] = "closing" /\ row[l].state = "active"
      pending == /\ row[l].state = "pending"
                 /\ l \in cleaning \/ alarmPc # "idle" \/ alarm = 0
  IN /\ Stopped
     /\ used' = GivenUp(l)
     /\ \/ active /\ row' = [row EXCEPT ![l] = Closed("pending")]
        \/ (active \/ pending) /\ row' = [row EXCEPT ![l] = Closed("settled")]

Next ==
  \/ Tick \/ FireAlarm \/ StartSweep \/ Restart
  \/ \E l \in Leases : Sign(l)
  \/ \E l \in Leases : Accept(l)
  \/ \E l \in Leases : TurnAway(l)
  \/ \E l \in Leases : Frame(l)
  \/ \E l \in Leases : Close(l)
  \/ \E l \in Leases : BeginClose(l)
  \/ \E l \in Leases : CloseAgain(l)
  \/ \E l \in Leases : FinishClose(l)
  \/ \E l \in Leases : Release(l)
  \/ \E l \in Leases : Recover(l)
  \/ \E l \in Leases : RestartWithin(l)

LeaseSpec == Init /\ [][Next]_vars

\* Time goes on, the runtime delivers due alarms and close callbacks, answers
\* come, and closed sockets are released.
FairLeaseSpec ==
  /\ LeaseSpec
  /\ WF_vars(Tick) /\ WF_vars(FireAlarm)
  /\ WF_vars(StartSweep \/ \E l \in Leases : Recover(l))
  /\ WF_vars(\E l \in Leases : BeginClose(l) \/ FinishClose(l) \/ Release(l))

-----------------------------------------------------------------------------
(* Properties.                                                             *)

\* A claim pays for so many frames while it runs and for none after, though it
\* is presented again, before or after its socket closed, and the object restarts
\* ("a closed lease may not be replayed into a freed socket slot").
FramesPrepaid == \A l \in Leases : used[l] <= IF Current(l) THEN Frames ELSE 0

\* Requests that were all authorized before any was accepted do not overfill the
\* registry or the index, and every socket still open is paid for by a lease.
RegistryBounded ==
  /\ Cardinality(Registry) <= MaxSockets
  /\ Cardinality(Index) <= MaxSockets
  /\ \A l \in Leases : sock[l] = "open" => row[l].state = "active"

\* Sockets are accepted for ever, each of them setting the alarm anew.
Endless == []<><<\E l \in Leases : Accept(l)>>_vars

\* A failed cleanup, while an alarm is set for it or running.
AwaitsAlarm(l) == row[l].state = "pending" /\ (alarm # Never \/ alarmPc # "idle")

\* A cleanup that failed is recovered, though closes, replays and restarts move
\* the alarm meanwhile: it stays pending only where sockets never stop to come,
\* each before the alarm the last one set is due.
PendingSettles ==
  Endless \/ \A l \in Leases : AwaitsAlarm(l) ~> row[l].state # "pending"

\* A socket whose lease is over is closed, though no event concerns it and no
\* socket comes ("expires idle connections with durable alarms").
ExpiredSocketsClose ==
  Endless \/ \A l \in Leases : sock[l] = "open" /\ ~Current(l) ~> sock[l] # "open"

=============================================================================
