------------------------- MODULE NotificationProofs -------------------------
(***************************************************************************)
(* What the lease ledger of NotificationDO keeps, for any number of claims  *)
(* and sockets and any bounds.                                             *)
(***************************************************************************)
EXTENDS NotificationLease, FiniteSetTheorems, WellFoundedInduction, TLAPS

-----------------------------------------------------------------------------
(* The alarm is a time.                                                    *)

LEMMA Least ==
  ASSUME NEW S \in SUBSET Nat, S # {}
  PROVE  Min(S) \in S /\ \A u \in S : Min(S) <= u
<1> DEFINE T == {0 .. t : t \in S}
           R == StrictSubsetOrdering(Nat)
<1>1. T \subseteq FiniteSubsetsOf(Nat) /\ T # {}
  <2>1. ASSUME NEW t \in S
        PROVE  0 .. t \in FiniteSubsetsOf(Nat)
    <3>1. t \in Int /\ 0 \in Int /\ 0 .. t \subseteq Nat
      OBVIOUS
    <3> QED BY <3>1, FS_Interval DEF FiniteSubsetsOf
  <2> QED BY <2>1
<1>2. PICK I \in T : \A J \in T : <<J, I>> \notin R
  <2>1. IsWellFoundedOn(R, FiniteSubsetsOf(Nat))
    BY FS_StrictSubsetOrderingWellFounded
  <2> HIDE DEF T, R
  <2> QED BY <1>1, <2>1, WFMin
<1>3. PICK t \in S : I = 0 .. t
  OBVIOUS
<1>4. \A u \in S : t <= u
  <2> SUFFICES ASSUME NEW u \in S, u < t PROVE FALSE
    OBVIOUS
  <2>1. 0 .. u \in T /\ 0 .. u \subseteq 0 .. t /\ 0 .. u # 0 .. t
    OBVIOUS
  <2>2. <<0 .. u, 0 .. t>> \in R
    BY <2>1 DEF StrictSubsetOrdering
  <2> QED BY <1>2, <1>3, <2>1, <2>2
<1> QED BY <1>4 DEF Min

LEMMA Constants ==
  /\ NumLeases \in Nat /\ Frames \in Nat /\ MaxFaults \in Nat
  /\ MaxSockets \in Nat /\ MaxSockets > 0
  /\ AlarmEvery \in Nat /\ LeaseTime \in Nat
BY BoundsAssumption

\* scheduleAlarm never waits longer than the period.
LEMMA ScheduledTyped ==
  ASSUME TypeOK, NEW rows, NEW socks
  PROVE  Scheduled(rows, socks) \in 0 .. Never
<1> DEFINE times == {AlarmEvery} \cup {remaining[l] : l \in Live(socks)}
<1>1. times \in SUBSET Nat /\ times # {} /\ AlarmEvery \in times
  BY Constants DEF TypeOK, Live
<1>2. Min(times) \in Nat /\ Min(times) <= AlarmEvery
  <2> HIDE DEF times
  <2> QED BY <1>1, Least
<1>3. Scheduled(rows, socks) \in {Never, Min(times)}
  BY DEF Scheduled
<1> HIDE DEF times
<1> QED BY <1>2, <1>3, Constants DEF Never

-----------------------------------------------------------------------------
(* Types.                                                                  *)

LEMMA RowTyped ==
  ASSUME NEW r \in Row
  PROVE  /\ r.frames \in 0 .. Frames /\ r.alarms \in 0 .. 1
         /\ Settled(r) \in Row
         /\ Closed("pending") \in Row /\ Closed("settled") \in Row
         /\ NewRow \in Row /\ Absent \in Row
         /\ r.frames > 0 => [r EXCEPT !.frames = @ - 1] \in Row
         /\ r.alarms > 0 => [r EXCEPT !.alarms = @ - 1] \in Row
BY Constants DEF Row, Settled, Absent, NewRow, Closed

\* What recoverPendingCleanup leaves behind: rows it was given, or settled ones.
LEMMA SweepTyped ==
  ASSUME TypeOK, NEW rows \in [Leases -> Row], NEW left \in SUBSET Leases,
         NEW was \in 0 .. Never, Sweep(rows, left, was)
  PROVE  /\ row' \in [Leases -> Row]
         /\ alarm' \in 0 .. Never
         /\ alarmPc' \in {"idle", "revalidating", "sweeping"}
         /\ sweep' \subseteq Leases
         /\ \A k \in Leases :
              row'[k] = rows[k] \/ (rows[k].state = "pending" /\ row'[k] = Absent)
<1> DEFINE pending == {l \in left : rows[l].state = "pending"}
<1>1. CASE pending # {} /\ Live(sock') # {}
  <2>1. row' = rows /\ alarmPc' = "sweeping" /\ sweep' = left /\ alarm' = was
    BY <1>1 DEF Sweep
  <2> QED BY <2>1
<1>2. CASE ~(pending # {} /\ Live(sock') # {})
  <2>1. /\ row' = [l \in Leases |-> IF l \in pending THEN Absent ELSE rows[l]]
        /\ alarmPc' = "idle" /\ sweep' = {} /\ alarm' = Scheduled(row', sock')
    BY <1>2 DEF Sweep
  <2>2. Absent \in Row
    BY Constants DEF Absent, Row
  <2> QED BY <2>1, <2>2, ScheduledTyped
<1> QED BY <1>1, <1>2

\* The rows an alarm sweeps: debited, or as they were once a fanout has ended.
Debited ==
  LET broke == {l \in Registry : ~Debitable(l, row[l].alarms)}
  IN [l \in Leases |-> IF l \in Registry \ broke THEN [row[l] EXCEPT !.alarms = @ - 1]
                        ELSE row[l]]

LEMMA DebitedTyped ==
  ASSUME TypeOK
  PROVE  /\ Debited \in [Leases -> Row]
         /\ \A k \in Leases : /\ Debited[k].state = row[k].state
                              /\ Debited[k].frames = row[k].frames
<1>1. ASSUME NEW k \in Leases
      PROVE  /\ Debited[k] \in Row /\ Debited[k].state = row[k].state
             /\ Debited[k].frames = row[k].frames
  BY Constants, RowTyped DEF Debited, Debitable, TypeOK, Row
<1> QED BY <1>1 DEF Debited

LEMMA FireAlarmRows ==
  ASSUME TypeOK, FireAlarm
  PROVE  /\ row' \in [Leases -> Row] /\ alarm' \in 0 .. Never
         /\ alarmPc' \in {"idle", "revalidating", "sweeping"} /\ sweep' \subseteq Leases
         /\ \A k \in Leases :
              row'[k] = Debited[k] \/ (row[k].state = "pending" /\ row'[k] = Absent)
<1>1. CASE row' = Debited /\ alarmPc' = "revalidating" /\ sweep' = {} /\ alarm' = Never
  BY <1>1, DebitedTyped, Constants DEF Never
<1>2. CASE Sweep(Debited, Index, Never)
  <2>1. Never \in 0 .. Never /\ Index \in SUBSET Leases
    BY Constants DEF Never, Index
  <2> QED BY <1>2, <2>1, DebitedTyped, SweepTyped
<1> QED BY <1>1, <1>2 DEF FireAlarm, Debited

LEMMA SweepRows ==
  ASSUME TypeOK, StartSweep \/ \E l \in Leases : Recover(l)
  PROVE  /\ row' \in [Leases -> Row] /\ alarm' \in 0 .. Never
         /\ alarmPc' \in {"idle", "revalidating", "sweeping"} /\ sweep' \subseteq Leases
         /\ \A k \in Leases :
              row'[k] = row[k] \/ (row[k].state = "pending" /\ row'[k] = Absent)
         /\ faults' \in 0 .. MaxFaults
         /\ UNCHANGED <<remaining, receipts, sock, cleaning, used>>
<1>1. CASE StartSweep
  <2>1. Sweep(row, Index, alarm) /\ Index \in SUBSET Leases
    BY <1>1 DEF StartSweep, Index
  <2> QED BY <1>1, <2>1, SweepTyped DEF StartSweep, TypeOK
<1>2. ASSUME NEW l \in Leases, Recover(l),
             NEW rows \in {row, [row EXCEPT ![l] = Settled(@)]}, Sweep(rows, sweep \ {l}, alarm)
      PROVE  /\ row' \in [Leases -> Row] /\ alarm' \in 0 .. Never
             /\ alarmPc' \in {"idle", "revalidating", "sweeping"} /\ sweep' \subseteq Leases
             /\ \A k \in Leases :
                  row'[k] = row[k] \/ (row[k].state = "pending" /\ row'[k] = Absent)
  <2>1. rows \in [Leases -> Row]
    <3>1. Settled(row[l]) \in Row
      BY RowTyped DEF TypeOK
    <3> QED BY <3>1 DEF TypeOK
  <2>2. \A k \in Leases :
          rows[k] = row[k] \/ (row[k].state = "pending" /\ rows[k] = Absent)
    BY DEF Settled, TypeOK
  <2>3. sweep \ {l} \in SUBSET Leases /\ alarm \in 0 .. Never
    BY DEF TypeOK
  <2>4. /\ row' \in [Leases -> Row] /\ alarm' \in 0 .. Never
        /\ alarmPc' \in {"idle", "revalidating", "sweeping"} /\ sweep' \subseteq Leases
        /\ \A k \in Leases :
             row'[k] = rows[k] \/ (rows[k].state = "pending" /\ row'[k] = Absent)
    BY <1>2, <2>1, <2>3, SweepTyped
  <2> QED BY <2>2, <2>4 DEF Absent
<1>3. ASSUME NEW l \in Leases, Recover(l)
      PROVE  /\ faults' \in 0 .. MaxFaults
             /\ UNCHANGED <<remaining, receipts, sock, cleaning, used>>
             /\ \E rows \in {row, [row EXCEPT ![l] = Settled(@)]} : Sweep(rows, sweep \ {l}, alarm)
  BY <1>3, Constants DEF Recover, Undelivered, TypeOK
<1> QED BY <1>1, <1>2, <1>3

LEMMA GivenUpTyped ==
  ASSUME TypeOK, NEW l \in Leases
  PROVE  /\ GivenUp(l) \in [Leases -> Nat]
         /\ \A k \in Leases \ {l} : GivenUp(l)[k] = used[k]
         /\ GivenUp(l)[l] = IF Current(l) THEN used[l] + row[l].frames ELSE used[l]
<1> DEFINE left == row[l].frames
<1>1. used \in [Leases -> Nat] /\ left \in Nat
  <2>1. row[l].frames \in 0 .. Frames
    BY RowTyped DEF TypeOK
  <2> QED BY <2>1, Constants DEF TypeOK
<1> HIDE DEF left
<1>2. GivenUp(l) = IF Current(l) THEN [used EXCEPT ![l] = used[l] + left] ELSE used
  BY DEF GivenUp, left
<1>3. GivenUp(l)[l] = IF Current(l) THEN used[l] + left ELSE used[l]
  BY <1>1, <1>2
<1>4. GivenUp(l) \in [Leases -> Nat] /\ \A k \in Leases \ {l} : GivenUp(l)[k] = used[k]
  BY <1>1, <1>2
<1> QED BY <1>3, <1>4 DEF left

LEMMA TypeInit == Init => TypeOK
BY Constants DEF Init, TypeOK, Never, Row, Absent

LEMMA TypeNext ==
  ASSUME TypeOK, [Next]_vars
  PROVE  TypeOK'
<1> USE Constants, RowTyped
<1>1. CASE Tick
  <2>1. remaining' \in [Leases -> 0 .. LeaseTime]
    BY <1>1 DEF Tick, TypeOK, Current
  <2>2. alarm' \in 0 .. Never
    BY <1>1 DEF Tick, TypeOK, Never
  <2> QED BY <1>1, <2>1, <2>2 DEF Tick, TypeOK
<1>2. CASE FireAlarm
  <2>1. sock' \in [Leases -> {"gone", "open", "closing"}]
    BY <1>2 DEF FireAlarm, TypeOK
  <2> QED BY <1>2, <2>1, FireAlarmRows DEF FireAlarm, TypeOK, Never
<1>3. CASE StartSweep \/ \E l \in Leases : Recover(l)
  BY <1>3, SweepRows DEF TypeOK, Never
<1>4. CASE Restart
  BY <1>4 DEF Restart, Stopped, TypeOK, Never
<1>5. ASSUME NEW l \in Leases, RestartWithin(l) PROVE TypeOK'
  <2>1. row' \in [Leases -> Row]
    BY <1>5 DEF RestartWithin, TypeOK
  <2>2. used' \in [Leases -> Nat]
    BY <1>5, GivenUpTyped DEF RestartWithin
  <2> QED BY <1>5, <2>1, <2>2 DEF RestartWithin, Stopped, TypeOK, Never
<1>6. ASSUME NEW l \in Leases, Sign(l) PROVE TypeOK'
  BY <1>6 DEF Sign, TypeOK, Never
<1>7. ASSUME NEW l \in Leases, Accept(l) PROVE TypeOK'
  <2>1. alarm' \in 0 .. Never
    BY <1>7, ScheduledTyped DEF Accept
  <2> QED BY <1>7, <2>1 DEF Accept, Install, Remembered, TypeOK, Never
<1>8. ASSUME NEW l \in Leases, TurnAway(l) PROVE TypeOK'
  BY <1>8 DEF TurnAway, Install, Remembered, TypeOK, Never
<1>9. ASSUME NEW l \in Leases, Frame(l) PROVE TypeOK'
  <2>1. [row[l] EXCEPT !.frames = @ - 1] \in Row
    BY <1>9 DEF Frame, Debitable, TypeOK
  <2> QED BY <1>9, <2>1 DEF Frame, TypeOK, Never
<1>10. ASSUME NEW l \in Leases, Close(l) PROVE TypeOK'
  BY <1>10 DEF Close, TypeOK, Never
<1>11. ASSUME NEW l \in Leases, BeginClose(l) PROVE TypeOK'
  <2>1. alarm' \in 0 .. Never
    BY <1>11, ScheduledTyped DEF BeginClose, TypeOK
  <2>2. row' \in [Leases -> Row] /\ cleaning' \subseteq Leases
    BY <1>11 DEF BeginClose, TypeOK
  <2>3. used' \in [Leases -> Nat]
    BY <1>11, GivenUpTyped DEF BeginClose
  <2> QED BY <1>11, <2>1, <2>2, <2>3 DEF BeginClose, TypeOK, Never
<1>12. ASSUME NEW l \in Leases, CloseAgain(l) PROVE TypeOK'
  <2>1. alarm' \in 0 .. Never
    BY <1>12, ScheduledTyped DEF CloseAgain
  <2> QED BY <1>12, <2>1 DEF CloseAgain, TypeOK, Never
<1>13. ASSUME NEW l \in Leases, FinishClose(l) PROVE TypeOK'
  <2>1. alarm' \in 0 .. Never
    BY <1>13, ScheduledTyped DEF FinishClose
  <2>2. row' \in [Leases -> Row] /\ faults' \in 0 .. MaxFaults
    <3>1. Settled(row[l]) \in Row
      BY DEF TypeOK
    <3> QED BY <1>13, <3>1 DEF FinishClose, Undelivered, TypeOK
  <2> QED BY <1>13, <2>1, <2>2 DEF FinishClose, TypeOK, Never
<1>14. ASSUME NEW l \in Leases, Release(l) PROVE TypeOK'
  BY <1>14 DEF Release, TypeOK, Never
<1>16. CASE UNCHANGED vars
  BY <1>16 DEF vars, TypeOK, Never
<1> QED BY <1>1, <1>2, <1>3, <1>4, <1>5, <1>6, <1>7, <1>8, <1>9, <1>10, <1>11, <1>12, <1>13,
           <1>14, <1>16 DEF Next

-----------------------------------------------------------------------------
(* The invariant, lease by lease.                                          *)

Spent(l) == used[l] + row[l].frames <= Frames

\* What was installed once has a receipt until its claim is over.
Traced(l) ==
  (row[l].state # "absent" \/ used[l] > 0) /\ Current(l) => l \in receipts

\* A claim that is over is not served.
Running(l) == used[l] > 0 => Current(l)

Leased(l) == sock[l] = "open" => row[l].state = "active"

LeaseOK(l) == Spent(l) /\ Traced(l) /\ Running(l) /\ Leased(l)

Bounded == Cardinality(Registry) <= MaxSockets /\ Cardinality(Index) <= MaxSockets

Inv == TypeOK /\ (\A l \in Leases : LeaseOK(l)) /\ Bounded

LEMMA InvInit == Init => Inv
<1> SUFFICES ASSUME Init PROVE Inv
  OBVIOUS
<1>1. TypeOK
  BY TypeInit
<1>2. \A l \in Leases : LeaseOK(l)
  BY Constants DEF Init, LeaseOK, Spent, Traced, Running, Leased, Absent
<1>3. Registry = {} /\ Index = {}
  BY DEF Init, Registry, Index, Absent
<1> QED BY <1>1, <1>2, <1>3, FS_EmptySet, Constants DEF Inv, Bounded

\* Closing a lease gives up what it has left.
LEMMA Closing ==
  ASSUME TypeOK, NEW l \in Leases, NEW k \in Leases, LeaseOK(k),
         UNCHANGED <<remaining, receipts>>, used' = GivenUp(l),
         k = l => row[k].state # "absent" /\ row'[k].frames = 0 /\ sock'[k] # "open",
         k # l => row'[k] = row[k] /\ sock'[k] \in {sock[k], "gone"}
  PROVE  LeaseOK(k)'
<1>1. used[k] \in Nat /\ row[k].frames \in 0 .. Frames /\ remaining'[k] = remaining[k]
  BY RowTyped DEF TypeOK
<1>2. CASE k = l
  <2>1. used'[k] = IF Current(k) THEN used[k] + row[k].frames ELSE used[k]
    BY <1>2, GivenUpTyped
  <2> QED BY <1>1, <1>2, <2>1, Constants DEF LeaseOK, Spent, Traced, Running, Leased, Current
<1>3. CASE k # l
  <2>1. used'[k] = used[k]
    BY <1>3, GivenUpTyped
  <2> QED BY <1>1, <1>3, <2>1 DEF LeaseOK, Spent, Traced, Running, Leased, Current
<1> QED BY <1>2, <1>3

LEMMA LeasesNext ==
  ASSUME TypeOK, TypeOK', \A l \in Leases : LeaseOK(l), [Next]_vars, NEW k \in Leases
  PROVE  LeaseOK(k)'
<1> USE Constants DEF TypeOK, LeaseOK, Spent, Traced, Running, Leased, Current
<1>0. row[k] \in Row /\ row[k].frames \in 0 .. Frames /\ row[k].alarms \in 0 .. 1
  BY RowTyped
<1>1. CASE Tick
  <2>1. row'[k] = row[k] /\ sock'[k] = sock[k] /\ remaining[k] \in Nat /\ used[k] \in Nat
    BY <1>1 DEF Tick
  <2>2. CASE remaining[k] > 1
    <3>1. /\ remaining'[k] = remaining[k] - 1 /\ used'[k] = used[k]
          /\ k \in receipts => k \in receipts'
      BY <1>1, <2>1, <2>2 DEF Tick
    <3> QED BY <2>1, <2>2, <3>1
  <2>3. CASE ~(remaining[k] > 1)
    <3>1. remaining'[k] = 0 /\ used'[k] = 0
      BY <1>1, <2>1, <2>3 DEF Tick
    <3> QED BY <1>0, <2>1, <3>1
  <2> QED BY <2>2, <2>3
<1>2. CASE FireAlarm
  <2>1. \/ row'[k].state = row[k].state /\ row'[k].frames = row[k].frames
        \/ row[k].state = "pending" /\ row'[k] = Absent
    BY <1>2, FireAlarmRows, DebitedTyped
  <2>2. sock'[k] \in {sock[k], "closing"}
    BY <1>2 DEF FireAlarm
  <2> QED BY <1>0, <1>2, <2>1, <2>2 DEF FireAlarm, Absent
<1>3. CASE StartSweep \/ \E l \in Leases : Recover(l)
  <2>1. row'[k] = row[k] \/ (row[k].state = "pending" /\ row'[k] = Absent)
    BY <1>3, SweepRows
  <2>2. UNCHANGED <<remaining, receipts, sock, used>>
    BY <1>3, SweepRows
  <2> QED BY <1>0, <2>1, <2>2 DEF Absent
<1>4. CASE Restart
  BY <1>4 DEF Restart, Stopped
<1>5. ASSUME NEW l \in Leases, RestartWithin(l) PROVE LeaseOK(k)'
  <2>1. UNCHANGED <<remaining, receipts>> /\ sock'[k] = "gone" /\ used' = GivenUp(l)
    BY <1>5 DEF RestartWithin, Stopped
  <2>2. k = l => row[k].state # "absent" /\ row'[k].frames = 0
    BY <1>5 DEF RestartWithin, Closed, Absent
  <2>3. k # l => row'[k] = row[k]
    BY <1>5 DEF RestartWithin
  <2> QED BY <2>1, <2>2, <2>3, Closing
<1>6. ASSUME NEW l \in Leases, Sign(l) PROVE LeaseOK(k)'
  <2>1. CASE k = l
    <3>1. row[l].state = "absent" /\ sock[l] = "gone" /\ used[l] = 0
      BY <1>6 DEF Sign, Forgotten, Index, Registry
    <3> QED BY <1>0, <1>6, <2>1, <3>1 DEF Sign
  <2>2. CASE k # l
    BY <1>6, <2>2 DEF Sign
  <2> QED BY <2>1, <2>2
<1>7. ASSUME NEW l \in Leases, Install(l), sock' = sock \/ sock' = [sock EXCEPT ![l] = "open"]
      PROVE  LeaseOK(k)'
  <2>1. CASE k = l
    <3>1. used[l] = 0 /\ row'[l] = NewRow /\ l \in receipts'
      BY <1>7 DEF Install, Installable, Index, Remembered
    <3>2. sock'[l] = "open" => row'[l].state = "active"
      BY <3>1 DEF NewRow
    <3> QED BY <1>7, <2>1, <3>1, <3>2 DEF Install, Installable, NewRow
  <2>2. CASE k # l
    <3>1. row'[k] = row[k] /\ sock'[k] = sock[k]
      BY <1>7, <2>2 DEF Install
    <3>2. k \in receipts' => k \in receipts
      BY <1>7, <2>2 DEF Install, Remembered
    <3>3. k \in receipts /\ Current(k) => k \in receipts'
      BY <1>7, <2>2 DEF Install, Remembered
    <3> QED BY <1>7, <3>1, <3>2, <3>3 DEF Install
  <2> QED BY <2>1, <2>2
<1>8. ASSUME NEW l \in Leases, Frame(l) PROVE LeaseOK(k)'
  <2>1. CASE k = l
    BY <1>8, <1>0, <2>1 DEF Frame, Debitable, Row
  <2>2. CASE k # l
    BY <1>8, <2>2 DEF Frame
  <2> QED BY <2>1, <2>2
<1>9. ASSUME NEW l \in Leases, Close(l) PROVE LeaseOK(k)'
  BY <1>9 DEF Close
<1>10. ASSUME NEW l \in Leases, BeginClose(l) PROVE LeaseOK(k)'
  <2>1. UNCHANGED <<remaining, receipts, sock>> /\ used' = GivenUp(l) /\ sock[l] = "closing"
    BY <1>10 DEF BeginClose
  <2>2. k = l => row[k].state # "absent" /\ row'[k].frames = 0
    BY <1>10 DEF BeginClose, Closed, Absent
  <2>3. k # l => row'[k] = row[k]
    BY <1>10 DEF BeginClose
  <2> QED BY <2>1, <2>2, <2>3, Closing
<1>11. ASSUME NEW l \in Leases, CloseAgain(l) PROVE LeaseOK(k)'
  BY <1>11 DEF CloseAgain
<1>12. ASSUME NEW l \in Leases, FinishClose(l) PROVE LeaseOK(k)'
  <2>1. row'[k] = row[k] \/ (row[k].state = "pending" /\ row'[k] = Absent)
    BY <1>12 DEF FinishClose, Settled
  <2> QED BY <1>0, <1>12, <2>1 DEF FinishClose, Absent
<1>13. ASSUME NEW l \in Leases, Release(l) PROVE LeaseOK(k)'
  BY <1>13 DEF Release
<1>14. CASE UNCHANGED vars
  BY <1>14 DEF vars
<1>15. ASSUME NEW l \in Leases, Accept(l) \/ TurnAway(l)
       PROVE  LeaseOK(k)'
  BY <1>7, <1>15 DEF Accept, TurnAway
<1> QED BY <1>1, <1>2, <1>3, <1>4, <1>5, <1>6, <1>8, <1>9, <1>10, <1>11, <1>12, <1>13, <1>14, <1>15
        DEF Next

-----------------------------------------------------------------------------
(* The registry and the index.                                             *)

LEMMA Finite ==
  ASSUME NEW S \in SUBSET Leases
  PROVE  IsFiniteSet(S)
<1>1. IsFiniteSet(Leases)
  <2>1. 1 \in Int /\ NumLeases \in Int
    BY Constants
  <2> QED BY <2>1, FS_Interval DEF Leases
<1> QED BY <1>1, FS_Subset

\* A step that adds nothing keeps the bounds.
LEMMA Shrinks ==
  ASSUME Bounded, Registry' \subseteq Registry, Index' \subseteq Index
  PROVE  Bounded'
<1>1. IsFiniteSet(Registry) /\ IsFiniteSet(Index)
  BY Finite DEF Registry, Index
<1>2. Cardinality(Registry') <= Cardinality(Registry) /\ Cardinality(Index') <= Cardinality(Index)
  BY <1>1, FS_Subset
<1>3. {Cardinality(Registry), Cardinality(Registry'), Cardinality(Index), Cardinality(Index')} \subseteq Nat
  BY Finite, FS_CardinalityType DEF Registry, Index
<1> QED BY <1>2, <1>3, Constants DEF Bounded

\* One more stays within a bound that was not reached.
LEMMA OneMore ==
  ASSUME NEW S \in SUBSET Leases, NEW T \in SUBSET Leases, NEW l \in Leases,
         T \subseteq S \cup {l}, Cardinality(S) < MaxSockets
  PROVE  Cardinality(T) <= MaxSockets
<1>1. IsFiniteSet(S) /\ Cardinality(S) \in Nat
  BY Finite, FS_CardinalityType
<1>2. IsFiniteSet(S \cup {l}) /\ Cardinality(S \cup {l}) <= Cardinality(S) + 1
  <2>1. IsFiniteSet(S \cup {l})
    BY Finite
  <2>2. Cardinality(S \cup {l}) \in {Cardinality(S), Cardinality(S) + 1}
    BY <1>1, FS_AddElement
  <2> QED BY <1>1, <2>1, <2>2
<1>3. Cardinality(T) <= Cardinality(S \cup {l}) /\ Cardinality(T) \in Nat /\ Cardinality(S \cup {l}) \in Nat
  BY <1>2, Finite, FS_Subset, FS_CardinalityType
<1> QED BY <1>1, <1>2, <1>3, Constants

LEMMA BoundedNext ==
  ASSUME TypeOK, Bounded, [Next]_vars
  PROVE  Bounded'
<1> USE DEF TypeOK
<1>1. ASSUME NEW l \in Leases, Install(l)
      PROVE  Cardinality(Index') <= MaxSockets
  <2>1. Index' \subseteq Index \cup {l}
    BY <1>1 DEF Install, Index
  <2> QED BY <1>1, <2>1, OneMore DEF Install, Installable, Index
<1>2. ASSUME NEW l \in Leases, Accept(l) PROVE Bounded'
  <2>1. Registry' \subseteq Registry \cup {l}
    BY <1>2 DEF Accept, Registry
  <2>2. Cardinality(Registry') <= MaxSockets
    BY <1>2, <2>1, OneMore DEF Accept, Room, Registry
  <2> QED BY <1>1, <1>2, <2>2 DEF Accept, Bounded
<1>3. ASSUME NEW l \in Leases, TurnAway(l) PROVE Bounded'
  BY <1>1, <1>3 DEF TurnAway, Bounded, Registry
<1>4. ASSUME Registry' \subseteq Registry, Index' \subseteq Index PROVE Bounded'
  BY <1>4, Shrinks
<1>5. ASSUME \A k \in Leases : row'[k].state # "absent" => row[k].state # "absent",
             \A k \in Leases : sock'[k] # "gone" => sock[k] # "gone"
      PROVE  Bounded'
  BY <1>4, <1>5 DEF Registry, Index
<1>6. CASE StartSweep \/ \E l \in Leases : Recover(l)
  <2>1. \A k \in Leases :
          row'[k] = row[k] \/ (row[k].state = "pending" /\ row'[k] = Absent)
    BY <1>6, SweepRows
  <2> QED BY <1>5, <1>6, <2>1, SweepRows DEF Absent
<1>7. ASSUME Tick \/ (\E l \in Leases : Sign(l) \/ CloseAgain(l)) \/ UNCHANGED vars
      PROVE  Bounded'
  BY <1>5, <1>7 DEF Tick, Sign, CloseAgain, vars
<1>8. CASE FireAlarm
  <2>1. \A k \in Leases : row'[k].state # "absent" => row[k].state # "absent"
    BY <1>8, FireAlarmRows, DebitedTyped DEF Absent
  <2>2. \A k \in Leases : sock'[k] # "gone" => sock[k] # "gone"
    BY <1>8 DEF FireAlarm, Registry
  <2> QED BY <1>5, <2>1, <2>2
<1>9. CASE Restart \/ \E l \in Leases : RestartWithin(l)
  <2>1. \A k \in Leases : row'[k].state # "absent" => row[k].state # "absent"
    BY <1>9 DEF Restart, RestartWithin, Row
  <2>2. \A k \in Leases : sock'[k] = "gone"
    BY <1>9 DEF Restart, RestartWithin, Stopped
  <2> QED BY <1>5, <2>1, <2>2
<1>10. ASSUME NEW l \in Leases, Frame(l) PROVE Bounded'
  <2>1. \A k \in Leases : row'[k].state = row[k].state
    BY <1>10 DEF Frame, Row
  <2> QED BY <1>4, <1>10, <2>1 DEF Frame, Registry, Index
<1>11. ASSUME NEW l \in Leases, Close(l) \/ Release(l) PROVE Bounded'
  BY <1>4, <1>11 DEF Close, Release, Registry, Index
<1>12. ASSUME NEW l \in Leases, BeginClose(l) PROVE Bounded'
  <2>1. \A k \in Leases : row'[k].state # "absent" => row[k].state # "absent"
    BY <1>12 DEF BeginClose, Row, Absent
  <2> QED BY <1>5, <1>12, <2>1 DEF BeginClose
<1>13. ASSUME NEW l \in Leases, FinishClose(l) PROVE Bounded'
  BY <1>5, <1>13 DEF FinishClose, Settled, Absent
<1> QED BY <1>2, <1>3, <1>6, <1>7, <1>8, <1>9, <1>10, <1>11, <1>12, <1>13 DEF Next

LEMMA Invariance == LeaseSpec => []Inv
<1>1. Init => Inv
  BY InvInit
<1>2. ASSUME Inv, [Next]_vars PROVE Inv'
  <2>1. TypeOK'
    BY <1>2, TypeNext DEF Inv
  <2>2. \A k \in Leases : LeaseOK(k)'
    BY <1>2, <2>1, LeasesNext DEF Inv
  <2>3. Bounded'
    BY <1>2, BoundedNext DEF Inv
  <2> QED BY <2>1, <2>2, <2>3 DEF Inv, Leases
<1> QED BY <1>1, <1>2, PTL DEF LeaseSpec

-----------------------------------------------------------------------------
(* The theorems.                                                           *)

\* The ledger, its sockets and its alarm stay well formed: no counter of a lease
\* is debited below zero, whatever handlers interleave.
THEOREM LeasesTyped == LeaseSpec => []TypeOK
<1>1. Inv => TypeOK
  BY DEF Inv
<1> QED BY <1>1, Invariance, PTL

\* A claim is served no more frames than it paid for, and none once it is over, however often it is
\* presented and whenever the object restarts (installLease, leaseReceipts).
THEOREM FramesArePrepaid == LeaseSpec => []FramesPrepaid
<1>1. Inv => FramesPrepaid
  <2> SUFFICES ASSUME Inv, NEW l \in Leases
               PROVE  used[l] <= IF Current(l) THEN Frames ELSE 0
    BY DEF FramesPrepaid
  <2>1. used[l] \in Nat /\ row[l].frames \in 0 .. Frames /\ Spent(l) /\ Running(l)
    BY RowTyped DEF Inv, TypeOK, LeaseOK
  <2> QED BY <2>1, Constants DEF Spent, Running
<1> QED BY <1>1, Invariance, PTL

\* Neither the registry nor the index outgrows its limit, and an open socket has
\* an active lease (fetch, webSocketClose).
THEOREM RegistryIsBounded == LeaseSpec => []RegistryBounded
<1>1. Inv => RegistryBounded
  BY DEF Inv, LeaseOK, Leased, Bounded, RegistryBounded
<1> QED BY <1>1, Invariance, PTL

=============================================================================
