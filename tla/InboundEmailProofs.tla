------------------------- MODULE InboundEmailProofs -------------------------
(***************************************************************************)
(* What the receipts of inbound mail promise, for any deliveries and any   *)
(* bounds, and that they implement InboundDelivery.                        *)
(***************************************************************************)
EXTENDS InboundEmail, TLAPS

-----------------------------------------------------------------------------
(* The inductive invariant.                                                *)

\* A message and its attempts, one by one.
Numbered(s) ==
  /\ receipt[s].state = "none" => receipt[s].current = 0 /\ receipt[s].raw = NoRaw
  /\ receipt[s].state # "none" => receipt[s].current \in Attempts

Current(s, n) == n = receipt[s].current => attempt[s][n].state = receipt[s].state

Past(s, n) ==
  n < receipt[s].current => attempt[s][n].state = "uncertain" /\ held[attempt[s][n].by].lapsed

Future(s, n) == n > receipt[s].current => attempt[s][n] = NoAttempt

\* An attempt was made by a claim that says so, of the bytes first seen, and
\* what it holds for stored is in the store.
Claimed(s, n) ==
  attempt[s][n].state # "none" =>
    /\ attempt[s][n].by \in Claims
    /\ SourceOf(attempt[s][n].by) = s /\ Number(attempt[s][n].by) = n

SameBytes(s, n) == attempt[s][n].raw \in {NoRaw, receipt[s].raw}

InStore(s, n) == \A p \in attempt[s][n].stored : <<s, n, p>> \in objects

AttemptOK(s, n) ==
  Current(s, n) /\ Past(s, n) /\ Future(s, n) /\ Claimed(s, n) /\ SameBytes(s, n) /\ InStore(s, n)

\* A commit found every planned object stored.
Complete(s) ==
  /\ applied[s] = IF receipt[s].state = "committed" THEN 1 ELSE 0
  /\ receipt[s].state = "committed" =>
       attempt[s][receipt[s].current].planned = attempt[s][receipt[s].current].stored

MessageOK(s) == Numbered(s) /\ Complete(s) /\ \A n \in Attempts : AttemptOK(s, n)

\* The store has what it answered for.
Answered == \A a \in answers : <<SourceOf(a[1]), Number(a[1]), a[2]>> \in objects

Inv == TypeOK /\ Answered /\ \A s \in Sources : MessageOK(s)

-----------------------------------------------------------------------------
(* Rows.                                                                   *)

LEMMA Bounds ==
  /\ MaxAttempts \in Nat \ {0} /\ MaxRevision \in Nat \ {0}
  /\ NoRaw \notin Raws /\ Nobody \notin Claims
BY ClaimAssumption

LEMMA Claim ==
  ASSUME NEW c \in Claims
  PROVE  SourceOf(c) \in Sources /\ Number(c) \in Attempts /\ ClaimInfo[c].envelope \in Envelopes
BY ClaimAssumption DEF SourceOf, Number

LEMMA SetReceipt ==
  ASSUME NEW f, NEW R, f \in [Sources -> R], NEW s \in Sources, NEW r \in R
  PROVE  /\ [f EXCEPT ![s] = r] \in [Sources -> R]
         /\ [f EXCEPT ![s] = r][s] = r
         /\ \A t \in Sources \ {s} : [f EXCEPT ![s] = r][t] = f[t]
OBVIOUS

LEMMA SetTry ==
  ASSUME NEW f \in [Sources -> [Attempts -> Tries]], NEW s \in Sources, NEW n \in Attempts, NEW r \in Tries
  PROVE  /\ [f EXCEPT ![s][n] = r] \in [Sources -> [Attempts -> Tries]]
         /\ [f EXCEPT ![s][n] = r][s][n] = r
         /\ \A k \in Attempts \ {n} : [f EXCEPT ![s][n] = r][s][k] = f[s][k]
         /\ \A t \in Sources \ {s} : [f EXCEPT ![s][n] = r][t] = f[t]
<1> DEFINE g == [f[s] EXCEPT ![n] = r]
<1>1. f[s] \in [Attempts -> Tries]
  OBVIOUS
<1>2. g \in [Attempts -> Tries] /\ g[n] = r /\ \A k \in Attempts \ {n} : g[k] = f[s][k]
  BY <1>1
<1>3. [f EXCEPT ![s][n] = r] = [f EXCEPT ![s] = g]
  OBVIOUS
<1> HIDE DEF g
<1> QED BY <1>2, <1>3

LEMMA InitInv == Init => Inv
<1> SUFFICES ASSUME Init PROVE Inv
  OBVIOUS
<1>1. NoReceipt \in Receipts /\ NoAttempt \in Tries
  BY ClaimAssumption DEF NoReceipt, NoAttempt, Receipts, Tries, States
<1>2. TypeOK
  BY <1>1, ClaimAssumption DEF Init, TypeOK
<1>3. \A s \in Sources, n \in Attempts : receipt[s] = NoReceipt /\ attempt[s][n] = NoAttempt /\ applied[s] = 0
  BY DEF Init
<1>4. ASSUME NEW s \in Sources PROVE MessageOK(s)
  <2>1. receipt[s].state = "none" /\ receipt[s].current = 0 /\ receipt[s].raw = NoRaw
    <3>1. receipt[s] = NoReceipt /\ 1 \in Attempts
      BY <1>3, Bounds DEF Init, Attempts
    <3> QED BY <3>1 DEF NoReceipt
  <2>2. ASSUME NEW n \in Attempts PROVE AttemptOK(s, n)
    <3>1. attempt[s][n] = NoAttempt /\ n \in 1 .. MaxAttempts
      BY <1>3 DEF Attempts
    <3>2. attempt[s][n].state = "none" /\ attempt[s][n].raw = NoRaw /\ attempt[s][n].stored = {}
      BY <3>1 DEF NoAttempt
    <3>3. n > 0
      BY <3>1
    <3> QED BY <2>1, <3>1, <3>2, <3>3, Bounds
      DEF AttemptOK, Current, Past, Future, Claimed, SameBytes, InStore
  <2>3. Numbered(s)
    BY <2>1 DEF Numbered
  <2>4. applied[s] = 0
    BY DEF Init
  <2>5. Complete(s)
    BY <2>1, <2>4 DEF Complete
  <2> QED BY <2>2, <2>3, <2>5 DEF MessageOK
<1> QED BY <1>2, <1>4 DEF Inv, Answered, Init

-----------------------------------------------------------------------------
(* Steps that leave messages alone, and steps that change one.             *)

\* A message a step leaves alone stays as it should be: claims only lapse, and
\* objects are only added.
LEMMA Frame ==
  ASSUME NEW t \in Sources, MessageOK(t),
         receipt'[t] = receipt[t], attempt'[t] = attempt[t], applied'[t] = applied[t],
         \A c \in Claims : held[c].lapsed => held'[c].lapsed,
         objects \subseteq objects'
  PROVE  MessageOK(t)'
<1>1. ASSUME NEW n \in Attempts PROVE AttemptOK(t, n)'
  <2>1. AttemptOK(t, n)
    BY DEF MessageOK
  <2>2. Current(t, n)' /\ Future(t, n)' /\ Claimed(t, n)' /\ SameBytes(t, n)' /\ InStore(t, n)'
    BY <2>1 DEF AttemptOK, Current, Future, Claimed, SameBytes, InStore
  <2>3. Past(t, n)'
    <3> SUFFICES ASSUME n < receipt[t].current
                 PROVE  attempt[t][n].state = "uncertain" /\ held'[attempt[t][n].by].lapsed
      BY DEF Past
    <3>1. attempt[t][n].state = "uncertain" /\ held[attempt[t][n].by].lapsed
      BY <2>1 DEF AttemptOK, Past
    <3>2. attempt[t][n].by \in Claims
      BY <2>1, <3>1 DEF AttemptOK, Claimed
    <3> QED BY <3>1, <3>2
  <2> QED BY <2>2, <2>3 DEF AttemptOK
<1>2. Numbered(t)' /\ Complete(t)'
  BY DEF MessageOK, Numbered, Complete
<1> QED BY <1>1, <1>2 DEF MessageOK

\* An attempt a step leaves alone stays as it should be, when the receipt stays
\* at or passes to attempt n and keeps the bytes it has.
LEMMA OtherAttempt ==
  ASSUME NEW s \in Sources, NEW n \in Attempts, NEW k \in Attempts \ {n},
         AttemptOK(s, k), attempt'[s][k] = attempt[s][k],
         receipt[s].current \in Nat, receipt'[s].current = n, receipt[s].current <= n,
         k < n => k < receipt[s].current,
         receipt[s].raw \in {NoRaw, receipt'[s].raw},
         held' = held, objects' = objects
  PROVE  AttemptOK(s, k)'
<1>1. k \in Nat /\ n \in Nat
  BY DEF Attempts
<1>2. Current(s, k)' /\ Past(s, k)'
  BY <1>1 DEF AttemptOK, Current, Past
<1>3. Future(s, k)'
  BY <1>1 DEF AttemptOK, Future
<1>4. Claimed(s, k)' /\ SameBytes(s, k)' /\ InStore(s, k)'
  BY DEF AttemptOK, Claimed, SameBytes, InStore
<1> QED BY <1>2, <1>3, <1>4 DEF AttemptOK

\* A step of a claim c: attempt n of message s becomes row, and its receipt r.
LEMMA Change ==
  ASSUME Inv, NEW s \in Sources, NEW n \in Attempts, NEW r \in Receipts, NEW row \in Tries, NEW a \in 0 .. 1,
         receipt' = [receipt EXCEPT ![s] = r], applied' = [applied EXCEPT ![s] = a],
         attempt' \in [Sources -> [Attempts -> Tries]], attempt'[s][n] = row,
         \A t \in Sources \ {s} : attempt'[t] = attempt[t],
         UNCHANGED <<held, revision, routed, objects, answers>>,
         r.current = n, r.state # "none", row.state = r.state,
         row.by \in Claims, SourceOf(row.by) = s, Number(row.by) = n,
         row.raw \in {NoRaw, r.raw}, \A p \in row.stored : <<s, n, p>> \in objects,
         a = IF r.state = "committed" THEN 1 ELSE 0,
         r.state = "committed" => row.planned = row.stored,
         \A k \in Attempts \ {n} : AttemptOK(s, k)'
  PROVE  Inv'
<1>1. /\ receipt' \in [Sources -> Receipts] /\ receipt'[s] = r
      /\ \A t \in Sources \ {s} : receipt'[t] = receipt[t]
  BY SetReceipt DEF Inv, TypeOK
<1>2. /\ applied' \in [Sources -> 0 .. 1] /\ applied'[s] = a
      /\ \A t \in Sources \ {s} : applied'[t] = applied[t]
  BY SetReceipt DEF Inv, TypeOK
<1>3. TypeOK'
  BY <1>1, <1>2 DEF Inv, TypeOK
<1>4. MessageOK(s)'
  <2>1. AttemptOK(s, n)'
    <3>1. n \in Nat
      BY DEF Attempts
    <3> QED BY <1>1, <3>1 DEF AttemptOK, Current, Past, Future, Claimed, SameBytes, InStore
  <2>2. Numbered(s)' /\ Complete(s)'
    BY <1>1, <1>2 DEF Numbered, Complete
  <2> QED BY <2>1, <2>2 DEF MessageOK
<1>5. ASSUME NEW t \in Sources \ {s} PROVE MessageOK(t)'
  <2>1. MessageOK(t)
    BY DEF Inv
  <2> QED BY <1>1, <1>2, <2>1, Frame
<1>6. Answered'
  BY DEF Inv, Answered
<1> QED BY <1>3, <1>4, <1>5, <1>6 DEF Inv

\* What a step that continues a claim starts from.
LEMMA Continuing ==
  ASSUME Inv, NEW c \in Claims, Continues(c)
  PROVE  LET s == SourceOf(c)
             n == Number(c)
         IN /\ s \in Sources /\ n \in Attempts /\ receipt[s] \in Receipts /\ attempt[s][n] \in Tries
            /\ receipt[s].state = "processing" /\ receipt[s].current = n /\ receipt[s].current \in Nat
            /\ attempt[s][n].state = "processing" /\ attempt[s][n].by = c
            /\ attempt[s][n].raw \in {NoRaw, receipt[s].raw}
            /\ \A p \in attempt[s][n].stored : <<s, n, p>> \in objects
            /\ \A k \in Attempts : AttemptOK(s, k)
            /\ applied[s] = 0
<1> DEFINE s == SourceOf(c)
           n == Number(c)
<1>1. s \in Sources /\ n \in Attempts
  BY Claim
<1>2. receipt[s] \in Receipts /\ attempt[s][n] \in Tries
  BY <1>1 DEF Inv, TypeOK
<1>3. /\ receipt[s].state = "processing" /\ receipt[s].current = n
      /\ attempt[s][n].state = "processing" /\ attempt[s][n].by = c
  BY DEF Continues, Row
<1>4. MessageOK(s)
  BY <1>1 DEF Inv
<1> HIDE DEF s, n
<1>5. AttemptOK(s, n) /\ applied[s] = 0
  BY <1>1, <1>3, <1>4 DEF MessageOK, Complete
<1>6. n \in Nat
  BY <1>1 DEF Attempts
<1> QED BY <1>1, <1>2, <1>3, <1>4, <1>5, <1>6 DEF MessageOK, AttemptOK, SameBytes, InStore, s, n

-----------------------------------------------------------------------------
(* The steps.                                                              *)

\* The steps that change no message.
LEMMA Outside ==
  ASSUME Inv, UNCHANGED <<receipt, attempt, applied>>, TypeOK',
         \A c \in Claims : held[c].lapsed => held'[c].lapsed,
         objects \subseteq objects', Answered'
  PROVE  Inv'
<1>1. ASSUME NEW t \in Sources PROVE MessageOK(t)'
  <2>1. MessageOK(t)
    BY DEF Inv
  <2> QED BY <2>1, Frame
<1> QED BY <1>1 DEF Inv

LEMMA SetHeld ==
  ASSUME NEW c \in Claims, NEW h \in [revision : 0 .. MaxRevision, lapsed : BOOLEAN, closed : BOOLEAN],
         TypeOK, held' = [held EXCEPT ![c] = h], held[c].lapsed => h.lapsed,
         UNCHANGED <<receipt, attempt, revision, routed, objects, answers, applied>>
  PROVE  TypeOK' /\ \A d \in Claims : held[d].lapsed => held'[d].lapsed
<1> DEFINE H == [revision : 0 .. MaxRevision, lapsed : BOOLEAN, closed : BOOLEAN]
<1>1. held \in [Claims -> H]
  BY DEF TypeOK
<1>2. /\ held' \in [Claims -> H] /\ held'[c] = h
      /\ \A d \in Claims \ {c} : held'[d] = held[d]
  BY <1>1
<1>3. \A d \in Claims : held[d].lapsed => held'[d].lapsed
  BY <1>2
<1> QED BY <1>2, <1>3 DEF TypeOK

LEMMA AuthorityKept ==
  ASSUME Inv, (\E c \in Claims : Admit(c) \/ Lapse(c) \/ CloseGrant(c)) \/ Revise \/ Reroute
  PROVE  Inv'
<1>1. ASSUME NEW c \in Claims, Admit(c) \/ Lapse(c) \/ CloseGrant(c) PROVE Inv'
  <2>1. held[c] \in [revision : 0 .. MaxRevision, lapsed : BOOLEAN, closed : BOOLEAN] /\ revision \in 1 .. MaxRevision
    BY DEF Inv, TypeOK
  <2>2. PICK h \in [revision : 0 .. MaxRevision, lapsed : BOOLEAN, closed : BOOLEAN] :
          held' = [held EXCEPT ![c] = h] /\ (held[c].lapsed => h.lapsed)
    <3>1. CASE Admit(c)
      <4> DEFINE h == [held[c] EXCEPT !.revision = revision]
      <4>1. h \in [revision : 0 .. MaxRevision, lapsed : BOOLEAN, closed : BOOLEAN] /\ (held[c].lapsed => h.lapsed)
        BY <2>1, Bounds
      <4>2. held' = [held EXCEPT ![c] = h]
        BY <3>1 DEF Admit
      <4> QED BY <4>1, <4>2
    <3>2. CASE Lapse(c)
      <4> DEFINE h == [held[c] EXCEPT !.lapsed = TRUE]
      <4>1. h \in [revision : 0 .. MaxRevision, lapsed : BOOLEAN, closed : BOOLEAN] /\ (held[c].lapsed => h.lapsed)
        BY <2>1
      <4>2. held' = [held EXCEPT ![c] = h]
        BY <3>2 DEF Lapse
      <4> QED BY <4>1, <4>2
    <3>3. CASE CloseGrant(c)
      <4> DEFINE h == [held[c] EXCEPT !.closed = TRUE]
      <4>1. h \in [revision : 0 .. MaxRevision, lapsed : BOOLEAN, closed : BOOLEAN] /\ (held[c].lapsed => h.lapsed)
        BY <2>1
      <4>2. held' = [held EXCEPT ![c] = h]
        BY <3>3 DEF CloseGrant
      <4> QED BY <4>1, <4>2
    <3> QED BY <1>1, <3>1, <3>2, <3>3
  <2>3. UNCHANGED <<receipt, attempt, revision, routed, objects, answers, applied>>
    BY <1>1 DEF Admit, Lapse, CloseGrant
  <2>4. TypeOK' /\ \A d \in Claims : held[d].lapsed => held'[d].lapsed
    BY <2>2, <2>3, SetHeld DEF Inv
  <2>5. Answered'
    BY <2>3 DEF Inv, Answered
  <2> QED BY <2>3, <2>4, <2>5, Outside
<1>2. ASSUME Revise \/ Reroute PROVE Inv'
  <2>1. UNCHANGED <<receipt, attempt, held, objects, answers, applied>>
    BY <1>2 DEF Revise, Reroute
  <2>2. revision' \in 1 .. MaxRevision /\ routed' \in BOOLEAN
    <3>1. revision \in 1 .. MaxRevision /\ routed \in BOOLEAN
      BY DEF Inv, TypeOK
    <3>2. CASE Revise
      BY <3>1, <3>2, Bounds DEF Revise
    <3>3. CASE Reroute
      BY <3>1, <3>3 DEF Reroute
    <3> QED BY <1>2, <3>2, <3>3
  <2>3. TypeOK'
    BY <2>1, <2>2 DEF Inv, TypeOK
  <2>4. Answered'
    BY <2>1 DEF Inv, Answered
  <2> QED BY <2>1, <2>3, <2>4, Outside
<1> QED BY <1>1, <1>2

LEMMA StoreKept ==
  ASSUME Inv, NEW c \in Claims, NEW part \in Parts, StoreObject(c, part)
  PROVE  Inv'
<1> DEFINE o == <<SourceOf(c), Number(c), part>>
<1>1. SourceOf(c) \in Sources /\ Number(c) \in Attempts
  BY Claim
<1>2. /\ objects' = objects \cup {o} /\ answers' \in {answers, answers \cup {<<c, part>>}}
      /\ UNCHANGED <<receipt, attempt, held, revision, routed, applied>>
  BY DEF StoreObject
<1>3. TypeOK'
  BY <1>1, <1>2 DEF Inv, TypeOK
<1>4. ASSUME NEW a \in answers' PROVE <<SourceOf(a[1]), Number(a[1]), a[2]>> \in objects'
  <2>1. CASE a \in answers
    BY <1>2, <2>1 DEF Inv, Answered
  <2>2. CASE a = <<c, part>>
    BY <1>2, <2>2
  <2> QED BY <1>2, <2>1, <2>2
<1> QED BY <1>2, <1>3, <1>4, Outside DEF Answered

\* The message of a claim that continues: another attempt is never touched.
LEMMA Rest ==
  ASSUME Inv, NEW c \in Claims, Continues(c),
         NEW s \in Sources, s = SourceOf(c), NEW n \in Attempts, n = Number(c),
         NEW r \in Receipts, NEW row \in Tries,
         receipt' = [receipt EXCEPT ![s] = r],
         attempt' = [attempt EXCEPT ![s][n] = row],
         r.current = n, receipt[s].raw \in {NoRaw, r.raw},
         held' = held, objects' = objects
  PROVE  /\ attempt' \in [Sources -> [Attempts -> Tries]]
         /\ attempt'[s][n] = row
         /\ \A t \in Sources \ {s} : attempt'[t] = attempt[t]
         /\ \A k \in Attempts \ {n} : AttemptOK(s, k)'
<1>2. /\ attempt' \in [Sources -> [Attempts -> Tries]]
      /\ attempt'[s][n] = row /\ \A k \in Attempts \ {n} : attempt'[s][k] = attempt[s][k]
      /\ \A t \in Sources \ {s} : attempt'[t] = attempt[t]
  BY SetTry DEF Inv, TypeOK
<1>3. receipt[s].current = n /\ n \in Nat /\ (\A k \in Attempts : AttemptOK(s, k))
  BY Continuing
<1>4. receipt'[s] = r
  BY DEF Inv, TypeOK
<1>5. ASSUME NEW k \in Attempts \ {n} PROVE AttemptOK(s, k)'
  <2>1. /\ AttemptOK(s, k) /\ attempt'[s][k] = attempt[s][k] /\ receipt'[s].current = n
        /\ receipt[s].raw \in {NoRaw, receipt'[s].raw} /\ receipt[s].current <= n
        /\ receipt[s].current \in Nat /\ (k < n => k < receipt[s].current)
    BY <1>2, <1>3, <1>4
  <2> QED BY <2>1, OtherAttempt
<1> QED BY <1>2, <1>5

\* A claim that continues changes its receipt to r and its attempt to row.
LEMMA Continued ==
  ASSUME Inv, NEW c \in Claims, Continues(c),
         NEW s \in Sources, s = SourceOf(c), NEW n \in Attempts, n = Number(c),
         NEW r \in Receipts, NEW row \in Tries, NEW a \in 0 .. 1,
         receipt' = [receipt EXCEPT ![s] = r],
         attempt' = [attempt EXCEPT ![s][n] = row],
         applied' = [applied EXCEPT ![s] = a],
         held' = held, revision' = revision, routed' = routed, objects' = objects, answers' = answers,
         r.current = n, receipt[s].raw \in {NoRaw, r.raw},
         r.state # "none", row.state = r.state, row.by = c, row.raw \in {NoRaw, r.raw},
         \A p \in row.stored : <<s, n, p>> \in objects,
         a = IF r.state = "committed" THEN 1 ELSE 0,
         r.state = "committed" => row.planned = row.stored
  PROVE  Inv'
<1>1. /\ attempt' \in [Sources -> [Attempts -> Tries]] /\ attempt'[s][n] = row
      /\ \A t \in Sources \ {s} : attempt'[t] = attempt[t]
      /\ \A k \in Attempts \ {n} : AttemptOK(s, k)'
  BY Rest
<1>2. row.by \in Claims /\ SourceOf(row.by) = s /\ Number(row.by) = n
  OBVIOUS
<1> QED BY <1>1, <1>2, Change

LEMMA PrepareKept ==
  ASSUME Inv, NEW c \in Claims, NEW raw \in Raws, Prepare(c, raw)
  PROVE  Inv'
<1>1. PICK s \in Sources, n \in Attempts : s = SourceOf(c) /\ n = Number(c)
  BY Claim
<1>2. Continues(c) /\ receipt[s].raw \in {NoRaw, raw}
  BY <1>1 DEF Prepare, SameContent
<1>3. /\ receipt[s] \in Receipts /\ attempt[s][n] \in Tries
      /\ receipt[s].state = "processing" /\ receipt[s].current = n
      /\ attempt[s][n].state = "processing" /\ attempt[s][n].by = c
      /\ \A p \in attempt[s][n].stored : <<s, n, p>> \in objects
      /\ applied[s] = 0
  BY <1>1, <1>2, Continuing
<1> DEFINE r == [receipt[s] EXCEPT !.raw = raw]
           row == [attempt[s][n] EXCEPT !.raw = raw]
<1>4. r \in Receipts /\ r.state = "processing" /\ r.current = n /\ r.raw = raw
  BY <1>3 DEF Receipts
<1>5. /\ row \in Tries /\ row.state = "processing" /\ row.by = c /\ row.raw = raw
      /\ row.stored = attempt[s][n].stored
  BY <1>3 DEF Tries
<1>6. receipt' = [receipt EXCEPT ![s] = r]
  BY <1>1 DEF Prepare
<1>7. attempt' = [attempt EXCEPT ![s][n] = row]
  BY <1>1 DEF Prepare
<1>8. /\ applied \in [Sources -> 0 .. 1] /\ held' = held /\ revision' = revision /\ routed' = routed
      /\ objects' = objects /\ answers' = answers /\ applied' = applied
  BY DEF Prepare, Inv, TypeOK
<1>9. applied' = [applied EXCEPT ![s] = 0]
  BY <1>3, <1>8
<1> HIDE DEF r, row
<1>20. /\ r \in Receipts /\ row \in Tries /\ 0 \in 0 .. 1
       /\ r.current = n /\ receipt[s].raw \in {NoRaw, r.raw}
       /\ r.state # "none" /\ row.state = r.state /\ row.by = c /\ row.raw \in {NoRaw, r.raw}
       /\ 0 = IF r.state = "committed" THEN 1 ELSE 0
       /\ r.state = "committed" => row.planned = row.stored
  BY <1>2, <1>3, <1>4, <1>5, <1>8, <1>9
<1>21. \A p \in row.stored : <<s, n, p>> \in objects
  BY <1>3, <1>4, <1>5, <1>9
<1> QED BY <1>1, <1>2, <1>5, <1>6, <1>7, <1>8, <1>9, <1>20, <1>21, Continued

LEMMA PlanKept ==
  ASSUME Inv, NEW c \in Claims, NEW parts \in SUBSET Parts, PlanArtifacts(c, parts)
  PROVE  Inv'
<1>1. PICK s \in Sources, n \in Attempts : s = SourceOf(c) /\ n = Number(c)
  BY Claim
<1>2. Continues(c)
  BY DEF PlanArtifacts
<1>3. /\ receipt[s] \in Receipts /\ attempt[s][n] \in Tries
      /\ receipt[s].state = "processing" /\ receipt[s].current = n
      /\ attempt[s][n].state = "processing" /\ attempt[s][n].by = c
      /\ attempt[s][n].raw \in {NoRaw, receipt[s].raw}
      /\ \A p \in attempt[s][n].stored : <<s, n, p>> \in objects
      /\ applied[s] = 0
  BY <1>1, <1>2, Continuing
<1> DEFINE row == [attempt[s][n] EXCEPT !.ready = TRUE, !.planned = parts]
<1>4. /\ row \in Tries /\ row.state = "processing" /\ row.by = c /\ row.raw = attempt[s][n].raw
      /\ row.stored = attempt[s][n].stored
  BY <1>3 DEF Tries
<1>5. /\ receipt \in [Sources -> Receipts] /\ applied \in [Sources -> 0 .. 1]
      /\ receipt' = receipt /\ held' = held /\ revision' = revision /\ routed' = routed
      /\ objects' = objects /\ answers' = answers /\ applied' = applied
  BY DEF PlanArtifacts, Inv, TypeOK
<1>6. receipt' = [receipt EXCEPT ![s] = receipt[s]] /\ applied' = [applied EXCEPT ![s] = 0]
  BY <1>3, <1>5
<1>7. attempt' = [attempt EXCEPT ![s][n] = row]
  BY <1>1 DEF PlanArtifacts
<1> HIDE DEF row
<1>20. /\ receipt[s] \in Receipts /\ row \in Tries /\ 0 \in 0 .. 1
       /\ receipt[s].current = n /\ receipt[s].raw \in {NoRaw, receipt[s].raw}
       /\ receipt[s].state # "none" /\ row.state = receipt[s].state /\ row.by = c /\ row.raw \in {NoRaw, receipt[s].raw}
       /\ 0 = IF receipt[s].state = "committed" THEN 1 ELSE 0
       /\ receipt[s].state = "committed" => row.planned = row.stored
  BY <1>2, <1>3, <1>4, <1>5
<1>21. \A p \in row.stored : <<s, n, p>> \in objects
  BY <1>3, <1>4, <1>5
<1> QED BY <1>1, <1>2, <1>5, <1>6, <1>7, <1>20, <1>21, Continued

LEMMA ConfirmKept ==
  ASSUME Inv, NEW c \in Claims, NEW part \in Parts, ConfirmArtifact(c, part)
  PROVE  Inv'
<1>1. PICK s \in Sources, n \in Attempts : s = SourceOf(c) /\ n = Number(c)
  BY Claim
<1>2. Continues(c) /\ <<c, part>> \in answers
  BY DEF ConfirmArtifact
<1>3. /\ receipt[s] \in Receipts /\ attempt[s][n] \in Tries
      /\ receipt[s].state = "processing" /\ receipt[s].current = n
      /\ attempt[s][n].state = "processing" /\ attempt[s][n].by = c
      /\ attempt[s][n].raw \in {NoRaw, receipt[s].raw}
      /\ \A p \in attempt[s][n].stored : <<s, n, p>> \in objects
      /\ applied[s] = 0
  BY <1>1, <1>2, Continuing
<1> DEFINE row == [attempt[s][n] EXCEPT !.stored = @ \cup {part}]
<1>4. /\ row \in Tries /\ row.state = "processing" /\ row.by = c /\ row.raw = attempt[s][n].raw
      /\ row.stored = attempt[s][n].stored \cup {part}
  BY <1>3 DEF Tries
<1>5. /\ receipt \in [Sources -> Receipts] /\ applied \in [Sources -> 0 .. 1]
      /\ receipt' = receipt /\ held' = held /\ revision' = revision /\ routed' = routed
      /\ objects' = objects /\ answers' = answers /\ applied' = applied
  BY DEF ConfirmArtifact, Inv, TypeOK
<1>6. receipt' = [receipt EXCEPT ![s] = receipt[s]] /\ applied' = [applied EXCEPT ![s] = 0]
  BY <1>3, <1>5
<1>7. attempt' = [attempt EXCEPT ![s][n] = row]
  BY <1>1 DEF ConfirmArtifact
<1>8. <<s, n, part>> \in objects
  BY <1>1, <1>2 DEF Inv, Answered
<1> HIDE DEF row
<1>9. \A p \in row.stored : <<s, n, p>> \in objects
  BY <1>3, <1>4, <1>8
<1>20. /\ receipt[s] \in Receipts /\ row \in Tries /\ 0 \in 0 .. 1
       /\ receipt[s].current = n /\ receipt[s].raw \in {NoRaw, receipt[s].raw}
       /\ receipt[s].state # "none" /\ row.state = receipt[s].state /\ row.by = c /\ row.raw \in {NoRaw, receipt[s].raw}
       /\ 0 = IF receipt[s].state = "committed" THEN 1 ELSE 0
       /\ receipt[s].state = "committed" => row.planned = row.stored
  BY <1>2, <1>3, <1>4, <1>5, <1>9
<1>21. \A p \in row.stored : <<s, n, p>> \in objects
  BY <1>3, <1>4, <1>5, <1>9
<1> QED BY <1>1, <1>2, <1>5, <1>6, <1>7, <1>9, <1>20, <1>21, Continued

LEMMA FinishKept ==
  ASSUME Inv, NEW c \in Claims, NEW state \in {"committed", "rejected", "uncertain"}, Finish(c, state)
  PROVE  Inv'
<1>1. PICK s \in Sources, n \in Attempts : s = SourceOf(c) /\ n = Number(c)
  BY Claim
<1>2. Continues(c)
  BY DEF Finish
<1>3. /\ receipt[s] \in Receipts /\ attempt[s][n] \in Tries
      /\ receipt[s].state = "processing" /\ receipt[s].current = n
      /\ attempt[s][n].state = "processing" /\ attempt[s][n].by = c
      /\ attempt[s][n].raw \in {NoRaw, receipt[s].raw}
      /\ \A p \in attempt[s][n].stored : <<s, n, p>> \in objects
      /\ applied[s] = 0
  BY <1>1, <1>2, Continuing
<1> DEFINE r == [receipt[s] EXCEPT !.state = state]
           row == [attempt[s][n] EXCEPT !.state = state]
           a == IF state = "committed" THEN 1 ELSE 0
<1>4. r \in Receipts /\ r.state = state /\ r.current = n /\ r.raw = receipt[s].raw
  BY <1>3 DEF Receipts, States, Open, Terminal
<1>5. /\ row \in Tries /\ row.state = state /\ row.by = c /\ row.raw = attempt[s][n].raw
      /\ row.stored = attempt[s][n].stored /\ row.planned = attempt[s][n].planned
  BY <1>3 DEF Tries, States, Open, Terminal
<1>6. receipt' = [receipt EXCEPT ![s] = r]
  BY <1>1 DEF Finish
<1>7. attempt' = [attempt EXCEPT ![s][n] = row]
  BY <1>1 DEF Finish
<1>8. applied' = [applied EXCEPT ![s] = a] /\ a \in 0 .. 1
  BY <1>1, <1>3 DEF Finish
<1>9. state = "committed" => attempt[s][n].planned = attempt[s][n].stored
  BY <1>1 DEF Finish, Committable, Row
<1>10. held' = held /\ revision' = revision /\ routed' = routed /\ objects' = objects /\ answers' = answers
  BY DEF Finish
<1>11. a = IF r.state = "committed" THEN 1 ELSE 0
  BY <1>4
<1> HIDE DEF r, row, a
<1>20. /\ r \in Receipts /\ row \in Tries /\ a \in 0 .. 1
       /\ r.current = n /\ receipt[s].raw \in {NoRaw, r.raw}
       /\ r.state # "none" /\ row.state = r.state /\ row.by = c /\ row.raw \in {NoRaw, r.raw}
       /\ a = IF r.state = "committed" THEN 1 ELSE 0
       /\ r.state = "committed" => row.planned = row.stored
  BY <1>2, <1>3, <1>4, <1>5, <1>8, <1>9, <1>11
<1>21. \A p \in row.stored : <<s, n, p>> \in objects
  BY <1>3, <1>4, <1>5, <1>9
<1> QED BY <1>1, <1>2, <1>5, <1>6, <1>7, <1>8, <1>9, <1>10, <1>20, <1>21, Continued

LEMMA BeginFirstKept ==
  ASSUME Inv, NEW c \in Claims, BeginFirst(c)
  PROVE  Inv'
<1>1. PICK s \in Sources, n \in Attempts : s = SourceOf(c) /\ n = Number(c)
  BY Claim
<1> DEFINE r == [state |-> "processing", envelope |-> ClaimInfo[c].envelope, current |-> 1, raw |-> NoRaw]
           row == NewAttempt(c)
<1>2. n = 1 /\ receipt[s].state = "none"
  BY <1>1 DEF BeginFirst
<1>3. /\ receipt[s].current = 0 /\ receipt[s].raw = NoRaw
      /\ \A k \in Attempts : AttemptOK(s, k)
  BY <1>2 DEF Inv, MessageOK, Numbered
<1>4. applied[s] = 0 /\ applied \in [Sources -> 0 .. 1]
  BY <1>2 DEF Inv, MessageOK, Complete, TypeOK
<1>5. r \in Receipts /\ r.state = "processing" /\ r.current = n /\ r.raw = NoRaw
  BY <1>2, Claim, Bounds DEF Receipts, States, Open
<1>6. row \in Tries /\ row.state = "processing" /\ row.by = c /\ row.raw = NoRaw /\ row.stored = {}
  BY DEF Tries, NewAttempt, States, Open
<1>7. receipt' = [receipt EXCEPT ![s] = r]
  BY <1>1 DEF BeginFirst
<1>8. attempt' = [attempt EXCEPT ![s][n] = row]
  BY <1>1, <1>2 DEF BeginFirst
<1>9. /\ held' = held /\ revision' = revision /\ routed' = routed
      /\ objects' = objects /\ answers' = answers /\ applied' = applied
  BY DEF BeginFirst
<1>10. applied' = [applied EXCEPT ![s] = 0]
  BY <1>4, <1>9
<1> HIDE DEF r, row
<1>11. /\ attempt' \in [Sources -> [Attempts -> Tries]] /\ attempt'[s][n] = row
       /\ \A k \in Attempts \ {n} : attempt'[s][k] = attempt[s][k]
       /\ \A t \in Sources \ {s} : attempt'[t] = attempt[t]
  BY <1>6, <1>8, SetTry DEF Inv, TypeOK
<1>12. receipt'[s] = r
  BY <1>7 DEF Inv, TypeOK
<1>13. ASSUME NEW k \in Attempts \ {n} PROVE AttemptOK(s, k)'
  <2>1. ~(k < n) /\ receipt[s].current \in Nat /\ receipt[s].current <= n
    BY <1>2, <1>3, Bounds DEF Attempts
  <2>2. /\ AttemptOK(s, k) /\ attempt'[s][k] = attempt[s][k] /\ receipt'[s].current = n
        /\ receipt[s].raw \in {NoRaw, receipt'[s].raw}
    BY <1>3, <1>5, <1>11, <1>12
  <2> QED BY <1>9, <2>1, <2>2, OtherAttempt
<1>14. /\ r.current = n /\ r.state # "none" /\ row.state = r.state
       /\ row.by \in Claims /\ SourceOf(row.by) = s /\ Number(row.by) = n
       /\ row.raw \in {NoRaw, r.raw} /\ (\A p \in row.stored : <<s, n, p>> \in objects)
       /\ 0 = (IF r.state = "committed" THEN 1 ELSE 0) /\ 0 \in 0 .. 1
       /\ (r.state = "committed" => row.planned = row.stored)
  BY <1>1, <1>5, <1>6
<1> QED BY <1>5, <1>6, <1>7, <1>9, <1>10, <1>11, <1>13, <1>14, Change

LEMMA BeginRecoveryKept ==
  ASSUME Inv, NEW c \in Claims, BeginRecovery(c)
  PROVE  Inv'
<1>1. PICK s \in Sources, n \in Attempts : s = SourceOf(c) /\ n = Number(c)
  BY Claim
<1>2. /\ n > 1 /\ receipt[s].current = n - 1
      /\ receipt[s].state \in Open /\ attempt[s][n - 1].state \in Open
      /\ held[attempt[s][n - 1].by].lapsed
  BY <1>1 DEF BeginRecovery, Replaceable
<1>3. PICK m \in Attempts : m = n - 1 /\ m < n /\ m \in Nat /\ n \in Nat
  <2>1. n - 1 \in Attempts /\ n - 1 < n /\ n - 1 \in Nat /\ n \in Nat
    BY <1>2, Bounds DEF Attempts
  <2> QED BY <2>1
<1>4. /\ receipt \in [Sources -> Receipts] /\ attempt \in [Sources -> [Attempts -> Tries]]
      /\ applied \in [Sources -> 0 .. 1]
      /\ receipt[s] \in Receipts /\ attempt[s] \in [Attempts -> Tries] /\ attempt[s][m] \in Tries
  BY DEF Inv, TypeOK
<1>5. applied[s] = 0 /\ \A k \in Attempts : AttemptOK(s, k)
  BY <1>2 DEF Inv, MessageOK, Complete, Open
<1> DEFINE r == [receipt[s] EXCEPT !.current = n, !.state = "processing"]
           row == NewAttempt(c)
           last == [attempt[s][m] EXCEPT !.state = "uncertain"]
           f == [attempt EXCEPT ![s][m] = last]
<1>6. r \in Receipts /\ r.state = "processing" /\ r.current = n /\ r.raw = receipt[s].raw
  <2>1. n \in 0 .. MaxAttempts /\ "processing" \in States
    BY Bounds DEF Attempts, States, Open
  <2> QED BY <1>4, <2>1 DEF Receipts
<1>7. row \in Tries /\ row.state = "processing" /\ row.by = c /\ row.raw = NoRaw /\ row.stored = {}
  BY DEF Tries, NewAttempt, States, Open
<1>8. /\ last \in Tries /\ last.state = "uncertain" /\ last.by = attempt[s][m].by
      /\ last.raw = attempt[s][m].raw /\ last.stored = attempt[s][m].stored
  BY <1>4 DEF Tries, States, Open
<1>9. receipt' = [receipt EXCEPT ![s] = r]
  BY <1>1 DEF BeginRecovery
<1>10. attempt' = [f EXCEPT ![s][n] = row]
  <2> DEFINE g == [attempt[s] EXCEPT ![m] = last]
  <2>1. attempt' = [attempt EXCEPT ![s] = [g EXCEPT ![n] = row]]
    BY <1>1, <1>3 DEF BeginRecovery
  <2>2. f = [attempt EXCEPT ![s] = g] /\ f[s] = g
    BY <1>4
  <2> HIDE DEF row, last, g
  <2>3. [f EXCEPT ![s][n] = row] = [attempt EXCEPT ![s] = [g EXCEPT ![n] = row]]
    BY <1>4, <2>2
  <2> QED BY <2>1, <2>3
<1>11. /\ held' = held /\ revision' = revision /\ routed' = routed
       /\ objects' = objects /\ answers' = answers /\ applied' = applied
  BY DEF BeginRecovery
<1>12. applied' = [applied EXCEPT ![s] = 0]
  BY <1>4, <1>5, <1>11
<1> HIDE DEF r, row, last
<1>13. /\ f \in [Sources -> [Attempts -> Tries]] /\ f[s][m] = last
       /\ \A k \in Attempts \ {m} : f[s][k] = attempt[s][k]
       /\ \A t \in Sources \ {s} : f[t] = attempt[t]
  BY <1>4, <1>8, SetTry
<1> HIDE DEF f
<1>14. /\ attempt' \in [Sources -> [Attempts -> Tries]] /\ attempt'[s][n] = row
       /\ \A k \in Attempts \ {n} : attempt'[s][k] = f[s][k]
       /\ \A t \in Sources \ {s} : attempt'[t] = f[t]
  BY <1>7, <1>10, <1>13, SetTry
<1>15. receipt'[s] = r
  BY <1>4, <1>9
<1>16. ASSUME NEW k \in Attempts \ {n} PROVE AttemptOK(s, k)'
  <2>1. CASE k = m
    <3>1. attempt'[s][m] = last /\ AttemptOK(s, m) /\ receipt'[s].current = n /\ receipt'[s].raw = receipt[s].raw
      BY <1>3, <1>5, <1>6, <1>13, <1>14, <1>15
    <3>2. /\ attempt[s][m].state # "none" /\ held[attempt[s][m].by].lapsed
      BY <1>2, <1>3 DEF Open
    <3>3. Current(s, m)' /\ Past(s, m)' /\ Future(s, m)'
      BY <1>3, <1>8, <1>11, <3>1, <3>2 DEF Current, Past, Future
    <3>4. Claimed(s, m)' /\ SameBytes(s, m)' /\ InStore(s, m)'
      BY <1>8, <1>11, <3>1, <3>2 DEF AttemptOK, Claimed, SameBytes, InStore
    <3> QED BY <2>1, <3>3, <3>4 DEF AttemptOK
  <2>2. CASE k # m
    <3>1. k < n => k < receipt[s].current
      BY <1>2, <1>3, <2>2 DEF Attempts
    <3>2. receipt[s].current \in Nat /\ receipt[s].current <= n
      BY <1>2, <1>3
    <3>3. /\ AttemptOK(s, k) /\ attempt'[s][k] = attempt[s][k] /\ receipt'[s].current = n
          /\ receipt[s].raw \in {NoRaw, receipt'[s].raw}
      BY <1>5, <1>6, <1>13, <1>14, <1>15, <2>2
    <3> QED BY <1>11, <3>1, <3>2, <3>3, OtherAttempt
  <2> QED BY <2>1, <2>2
<1>17. /\ r.current = n /\ r.state # "none" /\ row.state = r.state
       /\ row.by \in Claims /\ SourceOf(row.by) = s /\ Number(row.by) = n
       /\ row.raw \in {NoRaw, r.raw} /\ (\A p \in row.stored : <<s, n, p>> \in objects)
       /\ 0 = (IF r.state = "committed" THEN 1 ELSE 0) /\ 0 \in 0 .. 1
       /\ (r.state = "committed" => row.planned = row.stored)
  BY <1>1, <1>6, <1>7
<1>18. \A t \in Sources \ {s} : attempt'[t] = attempt[t]
  BY <1>13, <1>14
<1> QED BY <1>6, <1>7, <1>9, <1>11, <1>12, <1>14, <1>16, <1>17, <1>18, Change

LEMMA NextInv == Inv /\ [Next]_vars => Inv'
<1>1. ASSUME Inv, Next PROVE Inv'
  <2>1. CASE (\E c \in Claims : Admit(c) \/ Lapse(c) \/ CloseGrant(c)) \/ Revise \/ Reroute
    BY <1>1, <2>1, AuthorityKept
  <2>2. CASE \E c \in Claims : BeginFirst(c) \/ BeginRecovery(c)
    BY <1>1, <2>2, BeginFirstKept, BeginRecoveryKept
  <2>3. CASE \E c \in Claims : \/ \E raw \in Raws : Prepare(c, raw)
                               \/ \E parts \in SUBSET Parts : PlanArtifacts(c, parts)
    BY <1>1, <2>3, PrepareKept, PlanKept
  <2>4. CASE \E c \in Claims, part \in Parts : StoreObject(c, part) \/ ConfirmArtifact(c, part)
    BY <1>1, <2>4, StoreKept, ConfirmKept
  <2>5. CASE \E c \in Claims, state \in {"committed", "rejected", "uncertain"} : Finish(c, state)
    BY <1>1, <2>5, FinishKept
  <2> QED BY <1>1, <2>1, <2>2, <2>3, <2>4, <2>5 DEF Next
<1>2. ASSUME Inv, UNCHANGED vars PROVE Inv'
  <2>1. /\ receipt' = receipt /\ attempt' = attempt /\ held' = held /\ revision' = revision
        /\ routed' = routed /\ objects' = objects /\ answers' = answers /\ applied' = applied
    BY <1>2 DEF vars
  <2>2. TypeOK' /\ Answered'
    BY <1>2, <2>1 DEF Inv, TypeOK, Answered
  <2> QED BY <1>2, <2>1, <2>2, Outside
<1> QED BY <1>1, <1>2

LEMMA Invariance == Spec => []Inv
BY InitInv, NextInv, PTL DEF Spec

\* However deliveries race and lapse, the receipts and the attempts are well-typed.
THEOREM InboundTyped == Spec => []TypeOK
<1>1. Inv => TypeOK
  BY DEF Inv
<1> QED BY <1>1, Invariance, PTL

\* The two tables tell one story of every message: its attempts before the
\* current one are uncertain and lapsed, and none is after it.
THEOREM HistoryIsKept == Spec => []HistoryKept
<1>1. Inv => HistoryKept
  <2> SUFFICES ASSUME Inv, NEW s \in Sources
               PROVE  /\ receipt[s].state # "none" => receipt[s].current \in Attempts
                      /\ \A n \in Attempts : attempt[s][n].raw \in {NoRaw, receipt[s].raw}
                      /\ \A n \in Attempts :
                           CASE n = receipt[s].current -> attempt[s][n].state = receipt[s].state
                             [] n < receipt[s].current ->
                                  attempt[s][n].state = "uncertain" /\ held[attempt[s][n].by].lapsed
                             [] OTHER -> attempt[s][n] = NoAttempt
    BY DEF HistoryKept
  <2>1. MessageOK(s)
    BY DEF Inv
  <2>2. receipt[s].state # "none" => receipt[s].current \in Attempts
    BY <2>1 DEF MessageOK, Numbered
  <2>3. ASSUME NEW n \in Attempts
        PROVE  /\ attempt[s][n].raw \in {NoRaw, receipt[s].raw}
               /\ CASE n = receipt[s].current -> attempt[s][n].state = receipt[s].state
                    [] n < receipt[s].current ->
                         attempt[s][n].state = "uncertain" /\ held[attempt[s][n].by].lapsed
                    [] OTHER -> attempt[s][n] = NoAttempt
    <3>1. /\ attempt[s][n].raw \in {NoRaw, receipt[s].raw}
          /\ n = receipt[s].current => attempt[s][n].state = receipt[s].state
          /\ n < receipt[s].current =>
               attempt[s][n].state = "uncertain" /\ held[attempt[s][n].by].lapsed
          /\ n > receipt[s].current => attempt[s][n] = NoAttempt
      BY <2>1 DEF MessageOK, AttemptOK, Current, Past, Future, SameBytes
    <3>2. receipt[s].current \in Nat /\ n \in Nat
      BY DEF Inv, TypeOK, Receipts, Attempts
    <3>3. n = receipt[s].current \/ n < receipt[s].current \/ n > receipt[s].current
      BY <3>2
    <3>4. CASE n = receipt[s].current
      BY <3>1, <3>2, <3>4
    <3>5. CASE n < receipt[s].current
      BY <3>1, <3>2, <3>5
    <3>6. CASE n > receipt[s].current
      BY <3>1, <3>2, <3>6
    <3> QED BY <3>3, <3>4, <3>5, <3>6
  <2> QED BY <2>2, <2>3
<1> QED BY <1>1, Invariance, PTL

\* The effects of a message are applied once, when it is committed, and all of
\* its attachments are stored by then.
THEOREM EffectsAreWhole == Spec => []AppliedWhole
<1>1. Inv => AppliedWhole
  <2> SUFFICES ASSUME Inv, NEW s \in Sources
               PROVE  /\ applied[s] = IF receipt[s].state = "committed" THEN 1 ELSE 0
                      /\ receipt[s].state = "committed" =>
                           \A p \in attempt[s][receipt[s].current].planned :
                             <<s, receipt[s].current, p>> \in objects
    BY DEF AppliedWhole
  <2>1. MessageOK(s)
    BY DEF Inv
  <2>2. receipt[s].state = "committed" =>
          /\ receipt[s].current \in Attempts
          /\ attempt[s][receipt[s].current].planned = attempt[s][receipt[s].current].stored
    BY <2>1 DEF MessageOK, Numbered, Complete
  <2>3. \A n \in Attempts : \A p \in attempt[s][n].stored : <<s, n, p>> \in objects
    BY <2>1 DEF MessageOK, AttemptOK, InStore
  <2> QED BY <2>1, <2>2, <2>3 DEF MessageOK, Complete
<1> QED BY <1>1, Invariance, PTL

-----------------------------------------------------------------------------
(* The receipts implement InboundDelivery.                                 *)

LEMMA OutcomeOf == \A s \in Sources :
  Outcome[s] = IF receipt[s].state \in Terminal THEN receipt[s].state ELSE "open"
BY DEF Outcome

\* A step that leaves the receipts alone stutters.
LEMMA Stutters ==
  ASSUME receipt' = receipt, applied' = applied
  PROVE  UNCHANGED Delivery!deliveryVars
BY DEF Delivery!deliveryVars, Outcome, Content

LEMMA Override ==
  ASSUME NEW S, NEW f, NEW g, f = [t \in S |-> f[t]], g = [t \in S |-> g[t]], NEW s \in S, NEW v,
         \A t \in S : g[t] = IF t = s THEN v ELSE f[t]
  PROVE  g = [f EXCEPT ![s] = v]
<1>1. [f EXCEPT ![s] = v] = [t \in S |-> IF t = s THEN v ELSE f[t]]
  OBVIOUS
<1>2. g = [t \in S |-> IF t = s THEN v ELSE f[t]]
  OBVIOUS
<1> QED BY <1>1, <1>2

\* One that changes the receipt of s to r changes what is promised of s only.
LEMMA Maps ==
  ASSUME Inv, NEW s \in Sources, NEW r \in Receipts, receipt' = [receipt EXCEPT ![s] = r]
  PROVE  /\ Outcome' = [Outcome EXCEPT ![s] = IF r.state \in Terminal THEN r.state ELSE "open"]
         /\ Content' = [Content EXCEPT ![s] = r.raw]
<1>1. receipt'[s] = r /\ \A t \in Sources \ {s} : receipt'[t] = receipt[t]
  BY DEF Inv, TypeOK
<1>2. Outcome' = [Outcome EXCEPT ![s] = IF r.state \in Terminal THEN r.state ELSE "open"]
  <2> DEFINE o == IF r.state \in Terminal THEN r.state ELSE "open"
  <2>1. \A t \in Sources : Outcome'[t] = IF t = s THEN o ELSE Outcome[t]
    BY <1>1 DEF Outcome
  <2> HIDE DEF o
  <2>2. Outcome = [t \in Sources |-> Outcome[t]] /\ Outcome' = [t \in Sources |-> Outcome'[t]]
    BY DEF Outcome
  <2>3. Outcome' = [Outcome EXCEPT ![s] = o]
    BY <2>1, <2>2, Override
  <2> QED BY <2>3 DEF o
<1>3. Content' = [Content EXCEPT ![s] = r.raw]
  <2>1. \A t \in Sources : Content'[t] = IF t = s THEN r.raw ELSE Content[t]
    BY <1>1 DEF Content
  <2>2. Content = [t \in Sources |-> Content[t]] /\ Content' = [t \in Sources |-> Content'[t]]
    BY DEF Content
  <2> QED BY <2>1, <2>2, Override
<1> QED BY <1>2, <1>3

\* A receipt that changes neither for good nor in content is a stutter.
LEMMA MapsOpen ==
  ASSUME Inv, NEW s \in Sources, NEW r \in Receipts, receipt' = [receipt EXCEPT ![s] = r],
         receipt[s].state \notin Terminal, r.state \notin Terminal, r.raw = receipt[s].raw,
         applied' = applied
  PROVE  UNCHANGED Delivery!deliveryVars
<1>1. Outcome[s] = "open" /\ Content[s] = receipt[s].raw
  BY DEF Outcome, Content
<1>2. Outcome' = [Outcome EXCEPT ![s] = Outcome[s]] /\ Content' = [Content EXCEPT ![s] = Content[s]]
  BY <1>1, Maps
<1>3. Outcome' = Outcome /\ Content' = Content
  BY <1>2 DEF Outcome, Content
<1> QED BY <1>3 DEF Delivery!deliveryVars

LEMMA InitRefines == Init => Delivery!DeliveryInit
<1> SUFFICES ASSUME Init PROVE Delivery!DeliveryInit
  OBVIOUS
<1>1. \A s \in Sources : receipt[s].state = "none" /\ receipt[s].raw = NoRaw
  BY DEF Init, NoReceipt
<1>2. Outcome = [s \in Sources |-> "open"] /\ Content = [s \in Sources |-> NoRaw]
  BY <1>1 DEF Outcome, Content, Terminal
<1> QED BY <1>2 DEF Delivery!DeliveryInit, Init

LEMMA BeginRefines ==
  ASSUME Inv, NEW c \in Claims, BeginFirst(c) \/ BeginRecovery(c)
  PROVE  UNCHANGED Delivery!deliveryVars
<1>1. PICK s \in Sources, n \in Attempts : s = SourceOf(c) /\ n = Number(c)
  BY Claim
<1>2. applied' = applied
  BY DEF BeginFirst, BeginRecovery
<1>3. receipt[s] \in Receipts /\ MessageOK(s)
  BY DEF Inv, TypeOK
<1>4. PICK r \in Receipts : /\ receipt' = [receipt EXCEPT ![s] = r] /\ r.state = "processing"
                            /\ r.raw = receipt[s].raw /\ receipt[s].state \notin Terminal
  <2>1. CASE BeginFirst(c)
    <3> DEFINE r == [state |-> "processing", envelope |-> ClaimInfo[c].envelope, current |-> 1, raw |-> NoRaw]
    <3>1. r \in Receipts /\ r.state = "processing" /\ r.raw = NoRaw
      BY Claim, Bounds DEF Receipts, States, Open
    <3>2. receipt[s].state = "none" /\ receipt' = [receipt EXCEPT ![s] = r]
      BY <1>1, <2>1 DEF BeginFirst
    <3>3. receipt[s].raw = NoRaw
      BY <1>3, <3>2 DEF MessageOK, Numbered
    <3> HIDE DEF r
    <3> QED BY <3>1, <3>2, <3>3 DEF Terminal
  <2>2. CASE BeginRecovery(c)
    <3> DEFINE r == [receipt[s] EXCEPT !.current = n, !.state = "processing"]
    <3>1. r \in Receipts /\ r.state = "processing" /\ r.raw = receipt[s].raw
      <4>1. n \in 0 .. MaxAttempts /\ "processing" \in States
        BY Bounds DEF Attempts, States, Open
      <4> QED BY <1>3, <4>1 DEF Receipts
    <3>2. receipt[s].state \in Open /\ receipt' = [receipt EXCEPT ![s] = r]
      BY <1>1, <2>2 DEF BeginRecovery, Replaceable
    <3> HIDE DEF r
    <3> QED BY <3>1, <3>2 DEF Terminal, Open
  <2> QED BY <2>1, <2>2
<1>5. r.state \notin Terminal
  BY <1>4 DEF Terminal
<1> QED BY <1>2, <1>4, <1>5, MapsOpen

LEMMA PrepareRefines ==
  ASSUME Inv, NEW c \in Claims, NEW raw \in Raws, Prepare(c, raw)
  PROVE  Delivery!DeliveryNext \/ UNCHANGED Delivery!deliveryVars
<1>1. PICK s \in Sources, n \in Attempts : s = SourceOf(c) /\ n = Number(c)
  BY Claim
<1>2. receipt[s] \in Receipts /\ receipt[s].state = "processing"
  BY <1>1, Continuing DEF Prepare
<1>3. applied' = applied /\ receipt[s].raw \in {NoRaw, raw}
  BY <1>1 DEF Prepare, SameContent
<1> DEFINE r == [receipt[s] EXCEPT !.raw = raw]
<1>4. r \in Receipts /\ r.state = "processing" /\ r.raw = raw
  BY <1>2 DEF Receipts
<1>5. receipt' = [receipt EXCEPT ![s] = r]
  BY <1>1 DEF Prepare
<1> HIDE DEF r
<1>6. receipt[s].state \notin Terminal /\ r.state \notin Terminal
  BY <1>2, <1>4 DEF Terminal
<1>7. CASE receipt[s].raw = raw
  BY <1>3, <1>4, <1>5, <1>6, <1>7, MapsOpen
<1>8. CASE receipt[s].raw = NoRaw
  <2>1. Outcome[s] = "open" /\ Content[s] = NoRaw
    BY <1>6, <1>8 DEF Outcome, Content
  <2>2. Outcome' = [Outcome EXCEPT ![s] = Outcome[s]] /\ Content' = [Content EXCEPT ![s] = raw]
    BY <1>4, <1>5, <1>6, <2>1, Maps
  <2>3. Outcome' = Outcome
    BY <2>2 DEF Outcome
  <2>4. Delivery!See(s, raw)
    BY <1>3, <2>1, <2>2, <2>3 DEF Delivery!See
  <2> QED BY <2>4 DEF Delivery!DeliveryNext
<1> QED BY <1>3, <1>7, <1>8

LEMMA FinishRefines ==
  ASSUME Inv, NEW c \in Claims, NEW state \in {"committed", "rejected", "uncertain"}, Finish(c, state)
  PROVE  Delivery!DeliveryNext \/ UNCHANGED Delivery!deliveryVars
<1>1. PICK s \in Sources, n \in Attempts : s = SourceOf(c) /\ n = Number(c)
  BY Claim
<1>2. receipt[s] \in Receipts /\ receipt[s].state = "processing" /\ applied[s] = 0
  BY <1>1, Continuing DEF Finish
<1>3. applied \in [Sources -> 0 .. 1]
  BY DEF Inv, TypeOK
<1> DEFINE r == [receipt[s] EXCEPT !.state = state]
<1>4. r \in Receipts /\ r.state = state /\ r.raw = receipt[s].raw
  BY <1>2 DEF Receipts, States, Open, Terminal
<1>5. receipt' = [receipt EXCEPT ![s] = r]
  BY <1>1 DEF Finish
<1>6. /\ state = "committed" => receipt[s].raw # NoRaw
      /\ applied' = [applied EXCEPT ![s] = IF state = "committed" THEN @ + 1 ELSE @]
  BY <1>1 DEF Finish, Committable
<1> HIDE DEF r
<1>7. Outcome[s] = "open" /\ Content[s] = receipt[s].raw
  BY <1>2 DEF Outcome, Content, Terminal
<1>8. CASE state = "uncertain"
  <2>1. applied' = applied
    BY <1>3, <1>6, <1>8
  <2>2. receipt[s].state \notin Terminal /\ r.state \notin Terminal
    BY <1>2, <1>4, <1>8 DEF Terminal
  <2> QED BY <1>4, <1>5, <2>1, <2>2, MapsOpen
<1>9. CASE state \in Terminal
  <2>1. Outcome' = [Outcome EXCEPT ![s] = state] /\ Content' = [Content EXCEPT ![s] = Content[s]]
    BY <1>4, <1>5, <1>7, <1>9, Maps
  <2>2. Content' = Content
    BY <2>1 DEF Content
  <2>3. CASE state = "committed"
    <3>1. applied' = [applied EXCEPT ![s] = @ + 1]
      BY <1>6, <2>3
    <3>2. Delivery!Commit(s)
      BY <1>6, <1>7, <2>1, <2>2, <2>3, <3>1 DEF Delivery!Commit
    <3> QED BY <3>2 DEF Delivery!DeliveryNext
  <2>4. CASE state = "rejected"
    <3>1. applied' = applied
      BY <1>3, <1>6, <2>4
    <3>2. Delivery!Reject(s)
      BY <1>7, <2>1, <2>2, <2>4, <3>1 DEF Delivery!Reject
    <3> QED BY <3>2 DEF Delivery!DeliveryNext
  <2> QED BY <1>9, <2>3, <2>4 DEF Terminal
<1> QED BY <1>8, <1>9 DEF Terminal

LEMMA NextRefines == Inv /\ [Next]_vars => [Delivery!DeliveryNext]_(Delivery!deliveryVars)
<1>1. ASSUME Inv, Next PROVE Delivery!DeliveryNext \/ UNCHANGED Delivery!deliveryVars
  <2>1. CASE \/ \E c \in Claims :
                  \/ Admit(c) \/ Lapse(c) \/ CloseGrant(c)
                  \/ \E parts \in SUBSET Parts : PlanArtifacts(c, parts)
                  \/ \E part \in Parts : StoreObject(c, part) \/ ConfirmArtifact(c, part)
             \/ Revise \/ Reroute
    <3>1. receipt' = receipt /\ applied' = applied
      BY <2>1 DEF Admit, Lapse, CloseGrant, PlanArtifacts, StoreObject, ConfirmArtifact, Revise, Reroute
    <3> QED BY <3>1, Stutters
  <2>2. CASE \E c \in Claims : BeginFirst(c) \/ BeginRecovery(c)
    BY <1>1, <2>2, BeginRefines
  <2>3. CASE \E c \in Claims, raw \in Raws : Prepare(c, raw)
    BY <1>1, <2>3, PrepareRefines
  <2>4. CASE \E c \in Claims, state \in {"committed", "rejected", "uncertain"} : Finish(c, state)
    BY <1>1, <2>4, FinishRefines
  <2> QED BY <1>1, <2>1, <2>2, <2>3, <2>4 DEF Next
<1>2. ASSUME UNCHANGED vars PROVE UNCHANGED Delivery!deliveryVars
  <2>1. receipt' = receipt /\ applied' = applied
    BY <1>2 DEF vars
  <2> QED BY <2>1, Stutters
<1> QED BY <1>1, <1>2

\* Receipts, attempts, tokens, grants and expiries together keep the promise of
\* InboundDelivery: a message is committed or rejected once and for all, its
\* effects are applied at most once, and for the bytes that were first seen.
THEOREM DeliveryImplemented == Spec => Delivered
<1>1. Spec => Delivery!DeliveryInit /\ [][Delivery!DeliveryNext]_(Delivery!deliveryVars)
  BY InitRefines, NextRefines, Invariance, PTL DEF Spec
<1> QED BY <1>1 DEF Delivered, Delivery!DeliverySpec

=============================================================================
