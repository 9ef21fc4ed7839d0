------------------------- MODULE ScanLifecycleProofs -------------------------
(***************************************************************************)
(* What holds of the durable scan lifecycle for every set of homes and any *)
(* number of scans.                                                        *)
(***************************************************************************)
EXTENDS ScanLifecycle, SequenceTheorems, TLAPS

------------------------------------------------------------------------------
(* Sequences: the two ways a write changes scan_runs. *)

\* INSERT adds one row at the end and leaves the others alone.
LEMMA AppendRow ==
  ASSUME NEW S, NEW q \in Seq(S), NEW e \in S
  PROVE  /\ Append(q, e) \in Seq(S)
         /\ DOMAIN Append(q, e) = DOMAIN q \union {Len(q) + 1}
         /\ Len(q) + 1 \notin DOMAIN q
         /\ \A t \in DOMAIN q : Append(q, e)[t] = q[t]
         /\ Append(q, e)[Len(q) + 1] = e
  <1>1. /\ DOMAIN q = 1 .. Len(q) /\ Len(q) \in Nat
        /\ DOMAIN Append(q, e) = 1 .. Len(q) + 1
    BY AppendProperties, LenProperties
  <1> QED  BY <1>1, AppendProperties

\* UPDATE rewrites one existing row.
LEMMA UpdateRow ==
  ASSUME NEW S, NEW q \in Seq(S), NEW s \in DOMAIN q, NEW e \in S
  PROVE  /\ [q EXCEPT ![s] = e] \in Seq(S)
         /\ DOMAIN [q EXCEPT ![s] = e] = DOMAIN q
         /\ \A t \in DOMAIN q : t # s => [q EXCEPT ![s] = e][t] = q[t]
         /\ [q EXCEPT ![s] = e][s] = e
  <1>1. DOMAIN q = 1 .. Len(q)
    BY LenProperties
  <1> QED  BY <1>1, ExceptSeq

\* Row numbers are positive, so no row is NoScan.
LEMMA RowNumbers ==
  ASSUME NEW S, NEW q \in Seq(S)
  PROVE  /\ DOMAIN q \subseteq Nat \ {0}
         /\ Len(q) + 1 \in Nat \ {0}
         /\ \A t \in DOMAIN q : q[t] \in S
  <1>1. DOMAIN q = 1 .. Len(q) /\ Len(q) \in Nat
    BY LenProperties
  <1> QED  BY <1>1, ElementOfSeq

------------------------------------------------------------------------------
(* What each write does to the rows.  Every write touches one row: s is new *)
(* or rewritten, and every other row stays.                                 *)

OthersStay(s) ==
  /\ DOMAIN runs' = DOMAIN runs \union {s}
  /\ s \in Nat \ {0}
  /\ \A t \in DOMAIN runs : t # s => runs'[t] = runs[t]

\* Row s gets a new state, and the columns that go with it.
Becomes(s, state, started, terminal, code) ==
  /\ OthersStay(s) /\ DOMAIN runs' = DOMAIN runs /\ s \in DOMAIN runs
  /\ runs'[s] = [kind |-> runs[s].kind, state |-> state, enqueued |-> runs[s].enqueued,
                 started |-> started, terminal |-> terminal, code |-> code]

\* The type of the fields that the writes assign.
LEMMA Codes ==
  /\ NoCode \in ErrorCodes /\ StartFailedCodes \subseteq ErrorCodes
  /\ ScanFailedCodes \subseteq ErrorCodes
  /\ NoCode \notin StartFailedCodes /\ NoCode \notin ScanFailedCodes
  /\ "SOURCE_CHANGED" \in StartFailedCodes
  BY DEF NoCode, ErrorCodes, StartFailedCodes, ScanFailedCodes

LEMMA MetaFields ==
  ASSUME TypeOK
  PROVE  /\ meta.revision \in Nat /\ NextRevision \in Nat \ {0}
         /\ NextRevision > meta.revision
         /\ meta.active \in Nat /\ meta.lastScan \in Nat
         /\ meta.slot \in Slot /\ EmptySlot \in Slot
  BY Codes DEF TypeOK, Meta, Slot, NextRevision, EmptySlot, NoScan, Null

\* A row or slot after some of its fields are assigned, field by field.
LEMMA RowStarts ==
  ASSUME NEW r \in Run, NEW state \in Live \union Terminal, NEW started \in Nat
  PROVE  [r EXCEPT !.state = state, !.started = started] =
           [kind |-> r.kind, state |-> state, enqueued |-> r.enqueued, started |-> started,
             terminal |-> r.terminal, code |-> r.code]
  <1> DEFINE e == [r EXCEPT !.state = state, !.started = started]
  <1>1. e \in Run
    BY DEF Run
  <1>2. /\ e.kind = r.kind /\ e.state = state /\ e.enqueued = r.enqueued
        /\ e.started = started /\ e.terminal = r.terminal /\ e.code = r.code
    BY DEF Run
  <1> HIDE DEF e
  <1>3. e = [kind |-> r.kind, state |-> state, enqueued |-> r.enqueued, started |-> started,
             terminal |-> r.terminal, code |-> r.code]
    BY <1>1, <1>2 DEF Run
  <1> QED  BY <1>3 DEF e

LEMMA RowEnds ==
  ASSUME NEW r \in Run, NEW state \in Live \union Terminal, NEW terminal \in Nat
  PROVE  [r EXCEPT !.state = state, !.terminal = terminal] =
           [kind |-> r.kind, state |-> state, enqueued |-> r.enqueued, started |-> r.started,
             terminal |-> terminal, code |-> r.code]
  <1> DEFINE e == [r EXCEPT !.state = state, !.terminal = terminal]
  <1>1. e \in Run
    BY DEF Run
  <1>2. /\ e.kind = r.kind /\ e.state = state /\ e.enqueued = r.enqueued
        /\ e.started = r.started /\ e.terminal = terminal /\ e.code = r.code
    BY DEF Run
  <1> HIDE DEF e
  <1>3. e = [kind |-> r.kind, state |-> state, enqueued |-> r.enqueued, started |-> r.started,
             terminal |-> terminal, code |-> r.code]
    BY <1>1, <1>2 DEF Run
  <1> QED  BY <1>3 DEF e

LEMMA RowFails ==
  ASSUME NEW r \in Run, TypeOK, NEW state \in Live \union Terminal, NEW code \in ErrorCodes
  PROVE  Fail(r, state, code) =
           [kind |-> r.kind, state |-> state, enqueued |-> r.enqueued, started |-> r.started,
             terminal |-> NextRevision, code |-> code]
  <1> DEFINE e == Fail(r, state, code)
  <1>1. e \in Run
    BY MetaFields DEF Run, Fail
  <1>2. /\ e.kind = r.kind /\ e.state = state /\ e.enqueued = r.enqueued
        /\ e.started = r.started /\ e.terminal = NextRevision /\ e.code = code
    BY DEF Run, Fail
  <1> HIDE DEF e
  <1>3. e = [kind |-> r.kind, state |-> state, enqueued |-> r.enqueued, started |-> r.started,
             terminal |-> NextRevision, code |-> code]
    BY <1>1, <1>2 DEF Run
  <1> QED  BY <1>3 DEF e

LEMMA SlotFailsBy ==
  ASSUME NEW r \in Slot, NEW code \in ErrorCodes
  PROVE  [r EXCEPT !.state = "start_failed", !.code = code] =
           [state |-> "start_failed", scan |-> r.scan, enqueued |-> r.enqueued, code |-> code]
  <1> DEFINE e == [r EXCEPT !.state = "start_failed", !.code = code]
  <1>1. e \in Slot
    BY DEF Slot
  <1>2. /\ e.state = "start_failed" /\ e.scan = r.scan /\ e.enqueued = r.enqueued /\ e.code = code
    BY DEF Slot
  <1> HIDE DEF e
  <1>3. e = [state |-> "start_failed", scan |-> r.scan, enqueued |-> r.enqueued, code |-> code]
    BY <1>1, <1>2 DEF Slot
  <1> QED  BY <1>3 DEF e

LEMMA StartStep ==
  ASSUME TypeOK, MarkScanStarted
  PROVE  /\ TypeOK' /\ OthersStay(NewScan) /\ NewScan \notin DOMAIN runs
         /\ runs'[NewScan] = [kind |-> "direct", state |-> "running", enqueued |-> Null,
                              started |-> NextRevision, terminal |-> Null, code |-> NoCode]
  <1> DEFINE r == [kind |-> "direct", state |-> "running", enqueued |-> Null,
                   started |-> NextRevision, terminal |-> Null, code |-> NoCode]
  <1>1. r \in Run
    BY MetaFields, Codes DEF Run, Live, Null
  <1>2. runs \in Seq(Run) /\ runs' = Append(runs, r) /\ NewScan = Len(runs) + 1
    BY DEF TypeOK, MarkScanStarted, NewScan
  <1>3. /\ runs' \in Seq(Run) /\ OthersStay(NewScan) /\ NewScan \notin DOMAIN runs
        /\ runs'[NewScan] = r
    <2> HIDE DEF r
    <2> QED  BY <1>1, <1>2, AppendRow, RowNumbers DEF OthersStay
  <1>4. meta' \in Meta
    BY <1>3, MetaFields DEF TypeOK, Meta, MarkScanStarted, OthersStay
  <1> QED  BY <1>3, <1>4 DEF TypeOK, MarkScanStarted

LEMMA ReserveStep ==
  ASSUME TypeOK, ReserveScanFollowup, meta.slot.state # "queued"
  PROVE  /\ TypeOK' /\ OthersStay(NewScan) /\ NewScan \notin DOMAIN runs
         /\ runs'[NewScan] = [kind |-> "followup", state |-> "queued",
                              enqueued |-> NextRevision, started |-> Null,
                              terminal |-> Null, code |-> NoCode]
         /\ meta' = [meta EXCEPT !.revision = NextRevision,
                       !.slot = [state |-> "queued", scan |-> NewScan,
                                 enqueued |-> NextRevision, code |-> NoCode]]
  <1> DEFINE r == [kind |-> "followup", state |-> "queued", enqueued |-> NextRevision,
                   started |-> Null, terminal |-> Null, code |-> NoCode]
             slot == [state |-> "queued", scan |-> NewScan,
                      enqueued |-> NextRevision, code |-> NoCode]
  <1>1. r \in Run
    BY MetaFields, Codes DEF Run, Live, Null
  <1>2. /\ runs \in Seq(Run) /\ runs' = Append(runs, r) /\ NewScan = Len(runs) + 1
        /\ meta' = [meta EXCEPT !.revision = NextRevision, !.slot = slot]
    BY DEF TypeOK, ReserveScanFollowup, NewScan
  <1>3. /\ runs' \in Seq(Run) /\ OthersStay(NewScan) /\ NewScan \notin DOMAIN runs
        /\ runs'[NewScan] = r
    <2> HIDE DEF r
    <2> QED  BY <1>1, <1>2, AppendRow, RowNumbers DEF OthersStay
  <1>4. slot \in Slot
    BY <1>3, MetaFields, Codes DEF Slot, OthersStay
  <1>5. meta' \in Meta
    <2> HIDE DEF slot
    <2> QED  BY <1>2, <1>4, MetaFields DEF TypeOK, Meta
  <1> QED  BY <1>2, <1>3, <1>5 DEF TypeOK, ReserveScanFollowup

\* All updates of one row have this form.
LEMMA Rewrite ==
  ASSUME TypeOK, NEW s \in DOMAIN runs, NEW r \in Run, runs' = [runs EXCEPT ![s] = r]
  PROVE  /\ runs' \in Seq(Run) /\ OthersStay(s) /\ DOMAIN runs' = DOMAIN runs
         /\ runs'[s] = r
  <1>1. runs \in Seq(Run)
    BY DEF TypeOK
  <1>2. s \in Nat \ {0}
    BY <1>1, RowNumbers
  <1>3. /\ runs' \in Seq(Run) /\ DOMAIN runs' = DOMAIN runs /\ runs'[s] = r
        /\ \A t \in DOMAIN runs : t # s => runs'[t] = runs[t]
    BY <1>1, UpdateRow
  <1>4. DOMAIN runs' = DOMAIN runs \union {s}
    BY <1>3
  <1> QED  BY <1>2, <1>3, <1>4 DEF OthersStay

LEMMA FollowupStartedStep ==
  ASSUME TypeOK, NEW s \in DOMAIN runs, MarkFollowupStarted(s)
  PROVE  /\ TypeOK'
         /\ Becomes(s, "running", NextRevision, runs[s].terminal, runs[s].code)
  <1> DEFINE r == [kind |-> runs[s].kind, state |-> "running", enqueued |-> runs[s].enqueued,
                   started |-> NextRevision, terminal |-> runs[s].terminal,
                   code |-> runs[s].code]
  <1>1. runs[s] \in Run /\ s \in Nat
    BY RowNumbers DEF TypeOK
  <1>2. r \in Run
    BY <1>1, MetaFields DEF Run, Live
  <1>3. runs' = [runs EXCEPT ![s] = r]
    <2>1. r = [runs[s] EXCEPT !.state = "running", !.started = NextRevision]
      BY <1>1, MetaFields, Codes, RowStarts DEF Live, Terminal
    <2> QED  BY <2>1 DEF MarkFollowupStarted
  <1>4. runs' \in Seq(Run) /\ OthersStay(s) /\ DOMAIN runs' = DOMAIN runs /\ runs'[s] = r
    <2> HIDE DEF r
    <2> QED  BY <1>2, <1>3, Rewrite
  <1>5. meta' \in Meta
    BY <1>1, MetaFields DEF TypeOK, Meta, MarkFollowupStarted
  <1> QED  BY <1>4, <1>5 DEF TypeOK, MarkFollowupStarted, Becomes

LEMMA FollowupFailedStep ==
  ASSUME TypeOK, NEW s \in DOMAIN runs, NEW code \in StartFailedCodes,
         MarkFollowupStartFailed(s, code)
  PROVE  /\ TypeOK'
         /\ Becomes(s, "start_failed", runs[s].started, NextRevision, code)
         /\ meta'.slot = [state |-> "start_failed", scan |-> meta.slot.scan,
                          enqueued |-> meta.slot.enqueued, code |-> code]
  <1> DEFINE r == [kind |-> runs[s].kind, state |-> "start_failed",
                   enqueued |-> runs[s].enqueued, started |-> runs[s].started,
                   terminal |-> NextRevision, code |-> code]
             slot == [state |-> "start_failed", scan |-> meta.slot.scan,
                      enqueued |-> meta.slot.enqueued, code |-> code]
  <1>1. runs[s] \in Run /\ s \in Nat
    BY RowNumbers DEF TypeOK
  <1>2. r \in Run
    BY <1>1, MetaFields, Codes DEF Run, Terminal
  <1>3. /\ runs' = [runs EXCEPT ![s] = r]
        /\ meta' = [meta EXCEPT !.revision = NextRevision, !.slot = slot]
    <2>1. r = Fail(runs[s], "start_failed", code)
      <3>1. /\ "start_failed" \in Live \union Terminal
            /\ NextRevision \in Nat /\ code \in ErrorCodes
        BY MetaFields, Codes DEF Terminal
      <3> QED  BY <1>1, <3>1, RowFails
    <2>2. slot = [meta.slot EXCEPT !.state = "start_failed", !.code = code]
      BY MetaFields, Codes, SlotFailsBy
    <2> HIDE DEF r, slot
    <2> QED  BY <2>1, <2>2 DEF MarkFollowupStartFailed, TypeOK, Meta
  <1>4. runs' \in Seq(Run) /\ OthersStay(s) /\ DOMAIN runs' = DOMAIN runs /\ runs'[s] = r
    <2> HIDE DEF r
    <2> QED  BY <1>2, <1>3, Rewrite
  <1>5. slot \in Slot
    BY MetaFields, Codes DEF Slot
  <1>6. meta' \in Meta /\ meta'.slot = slot
    <2> HIDE DEF slot
    <2> QED  BY <1>3, <1>5, MetaFields DEF TypeOK, Meta
  <1> QED  BY <1>4, <1>6 DEF TypeOK, MarkFollowupStartFailed, Becomes

LEMMA CompletedStep ==
  ASSUME TypeOK, NEW s \in DOMAIN runs, MarkScanCompleted(s)
  PROVE  /\ TypeOK'
         /\ Becomes(s, "completed", runs[s].started, NextRevision, runs[s].code)
  <1> DEFINE r == [kind |-> runs[s].kind, state |-> "completed",
                   enqueued |-> runs[s].enqueued, started |-> runs[s].started,
                   terminal |-> NextRevision, code |-> runs[s].code]
  <1>1. runs[s] \in Run /\ s \in Nat
    BY RowNumbers DEF TypeOK
  <1>2. r \in Run
    BY <1>1, MetaFields DEF Run, Terminal
  <1>3. runs' = [runs EXCEPT ![s] = r]
    <2>1. r = [runs[s] EXCEPT !.state = "completed", !.terminal = NextRevision]
      BY <1>1, MetaFields, Codes, RowEnds DEF Live, Terminal
    <2> QED  BY <2>1 DEF MarkScanCompleted
  <1>4. runs' \in Seq(Run) /\ OthersStay(s) /\ DOMAIN runs' = DOMAIN runs /\ runs'[s] = r
    <2> HIDE DEF r
    <2> QED  BY <1>2, <1>3, Rewrite
  <1>5. meta' \in Meta
    BY <1>1, MetaFields DEF TypeOK, Meta, MarkScanCompleted, NoScan
  <1> QED  BY <1>4, <1>5 DEF TypeOK, MarkScanCompleted, Becomes

LEMMA FailedStep ==
  ASSUME TypeOK, NEW s \in DOMAIN runs, NEW code \in ScanFailedCodes, MarkScanFailed(s, code)
  PROVE  /\ TypeOK'
         /\ Becomes(s, "failed", runs[s].started, NextRevision, code)
  <1> DEFINE r == [kind |-> runs[s].kind, state |-> "failed",
                   enqueued |-> runs[s].enqueued, started |-> runs[s].started,
                   terminal |-> NextRevision, code |-> code]
  <1>1. runs[s] \in Run /\ s \in Nat
    BY RowNumbers DEF TypeOK
  <1>2. r \in Run
    BY <1>1, MetaFields, Codes DEF Run, Terminal
  <1>3. runs' = [runs EXCEPT ![s] = r]
    <2>1. r = Fail(runs[s], "failed", code)
      <3>1. "failed" \in Live \union Terminal /\ NextRevision \in Nat /\ code \in ErrorCodes
        BY MetaFields, Codes DEF Terminal
      <3> QED  BY <1>1, <3>1, RowFails
    <2> QED  BY <2>1 DEF MarkScanFailed
  <1>4. runs' \in Seq(Run) /\ OthersStay(s) /\ DOMAIN runs' = DOMAIN runs /\ runs'[s] = r
    <2> HIDE DEF r
    <2> QED  BY <1>2, <1>3, Rewrite
  <1>5. meta' \in Meta
    BY <1>1, MetaFields DEF TypeOK, Meta, MarkScanFailed, NoScan
  <1> QED  BY <1>4, <1>5 DEF TypeOK, MarkScanFailed, Becomes

\* Opening the ledger, as far as the lifecycle is concerned: at most the
\* binding moves on, or the queued follow-up fails with it.
SameLifecycle ==
  /\ UNCHANGED runs
  /\ meta'.state = meta.state /\ meta'.active = meta.active /\ meta'.slot = meta.slot
  /\ meta'.lastScan = meta.lastScan /\ meta'.lastResult = meta.lastResult
  /\ meta'.revision >= meta.revision

SlotFails(s, code) ==
  /\ code \in StartFailedCodes
  /\ meta.slot.state = "queued" /\ meta.slot.scan = s
  /\ RowIs(s, "queued")
  /\ Becomes(s, "start_failed", runs[s].started, NextRevision, code)
  /\ meta'.slot = [state |-> "start_failed", scan |-> s,
                   enqueued |-> meta.slot.enqueued, code |-> code]
  /\ meta'.state = meta.state /\ meta'.active = meta.active
  /\ meta'.lastScan = meta.lastScan /\ meta'.lastResult = meta.lastResult
  /\ meta'.revision = NextRevision

LEMMA FollowupFailedFails ==
  ASSUME TypeOK, NEW s \in DOMAIN runs, NEW code \in StartFailedCodes,
         MarkFollowupStartFailed(s, code)
  PROVE  SlotFails(s, code)
  BY FollowupFailedStep
  DEF MarkFollowupStartFailed, SlotFails, SlotQueued, QueuedProjection, RowIs, TypeOK, Meta

LEMMA BindStep ==
  ASSUME TypeOK, NEW h \in Homes, BindCodexHome(h)
  PROVE  TypeOK' /\ (SameLifecycle \/ \E s \in DOMAIN runs : SlotFails(s, "SOURCE_CHANGED"))
  <1>1. opened' = h
    BY DEF BindCodexHome
  <1> DEFINE Fails == /\ meta.binding = "ready" /\ meta.home \notin {h, NoHome}
                      /\ meta.slot.state = "queued"
  <1>2. CASE ~Fails
    <2>1. UNCHANGED runs
      BY <1>2 DEF BindCodexHome
    <2>2. \/ meta' = [meta EXCEPT !.binding = "ready", !.home = h]
          \/ meta' = meta
          \/ meta' = [meta EXCEPT !.revision = NextRevision, !.binding = "source_changed"]
      BY <1>2 DEF BindCodexHome
    <2>3. meta' \in Meta
      BY <2>2, MetaFields DEF TypeOK, Meta
    <2>4. meta'.revision \in {meta.revision, NextRevision}
      BY <2>2 DEF TypeOK, Meta
    <2>5. meta'.revision >= meta.revision
      BY <2>4, MetaFields
    <2>6. SameLifecycle
      BY <2>1, <2>2, <2>5 DEF TypeOK, Meta, SameLifecycle
    <2> QED  BY <1>1, <2>1, <2>3, <2>6 DEF TypeOK
  <1>3. CASE Fails
    <2> DEFINE s == meta.slot.scan
               r == [kind |-> runs[s].kind, state |-> "start_failed",
                     enqueued |-> runs[s].enqueued, started |-> runs[s].started,
                     terminal |-> NextRevision, code |-> "SOURCE_CHANGED"]
               slot == [state |-> "start_failed", scan |-> s,
                        enqueued |-> meta.slot.enqueued, code |-> "SOURCE_CHANGED"]
    <2>1. meta.slot.state = "queued" /\ RowIs(s, "queued")
      BY <1>3 DEF BindCodexHome
    <2>2. s \in DOMAIN runs /\ runs[s] \in Run
      BY <2>1, RowNumbers DEF RowIs, TypeOK
    <2>9. /\ runs' = [runs EXCEPT ![s] = r]
          /\ meta' = [meta EXCEPT !.revision = NextRevision, !.binding = "source_changed",
                                  !.slot = slot]
      <3>1. r = Fail(runs[s], "start_failed", "SOURCE_CHANGED")
        <4>1. /\ "start_failed" \in Live \union Terminal
              /\ NextRevision \in Nat /\ "SOURCE_CHANGED" \in ErrorCodes
          BY MetaFields, Codes DEF Terminal
        <4> HIDE DEF s
        <4> QED  BY <2>2, <4>1, RowFails
      <3>2. slot = [meta.slot EXCEPT !.state = "start_failed", !.code = "SOURCE_CHANGED"]
        BY MetaFields, Codes, SlotFailsBy
      <3> HIDE DEF r, slot
      <3> QED  BY <1>3, <3>1, <3>2 DEF BindCodexHome, TypeOK, Meta
    <2>3. r \in Run
      BY <2>2, MetaFields, Codes DEF Run, Terminal
    <2>4. runs' \in Seq(Run) /\ OthersStay(s) /\ DOMAIN runs' = DOMAIN runs /\ runs'[s] = r
      <3> HIDE DEF s, r
      <3> QED  BY <2>2, <2>3, <2>9, Rewrite
    <2>5. slot \in Slot
      BY MetaFields, Codes DEF Slot
    <2>6. /\ meta' \in Meta /\ meta'.slot = slot /\ meta'.revision = NextRevision
          /\ meta'.state = meta.state /\ meta'.active = meta.active
          /\ meta'.lastScan = meta.lastScan /\ meta'.lastResult = meta.lastResult
      <3> HIDE DEF slot
      <3> QED  BY <2>5, <2>9, MetaFields DEF TypeOK, Meta
    <2>7. SlotFails(s, "SOURCE_CHANGED")
      BY <2>1, <2>2, <2>4, <2>6, Codes DEF SlotFails, Becomes
    <2> QED  BY <1>1, <2>2, <2>4, <2>6, <2>7 DEF TypeOK
  <1> QED  BY <1>2, <1>3

------------------------------------------------------------------------------
(* Type correctness. *)

LEMMA TypeInit == Init => TypeOK
  <1>1. <<>> \in Seq(Run)
    BY EmptySeq
  <1> QED  BY <1>1, Codes DEF Init, InitialMeta, TypeOK, Meta, Slot, EmptySlot, NoScan, Null

LEMMA TypeNext == TypeOK /\ [Next]_vars => TypeOK'
  <1> SUFFICES ASSUME TypeOK, [Next]_vars PROVE TypeOK'
    OBVIOUS
  <1>1. CASE MarkScanStarted
    BY <1>1, StartStep
  <1>2. CASE ReserveScanFollowup
    <2>1. CASE meta.slot.state = "queued"
      BY <1>2, <2>1 DEF ReserveScanFollowup, TypeOK
    <2>2. CASE meta.slot.state # "queued"
      BY <1>2, <2>2, ReserveStep
    <2> QED  BY <2>1, <2>2
  <1>3. ASSUME NEW s \in DOMAIN runs, MarkFollowupStarted(s) PROVE TypeOK'
    BY <1>3, FollowupStartedStep
  <1>4. ASSUME NEW s \in DOMAIN runs, NEW code \in StartFailedCodes,
               MarkFollowupStartFailed(s, code)
        PROVE  TypeOK'
    BY <1>4, FollowupFailedStep
  <1>5. ASSUME NEW s \in DOMAIN runs, MarkScanCompleted(s) PROVE TypeOK'
    BY <1>5, CompletedStep
  <1>6. ASSUME NEW s \in DOMAIN runs, NEW code \in ScanFailedCodes, MarkScanFailed(s, code)
        PROVE  TypeOK'
    BY <1>6, FailedStep
  <1>7. ASSUME NEW h \in Homes, BindCodexHome(h) PROVE TypeOK'
    BY <1>7, BindStep
  <1>8. CASE UNCHANGED vars
    BY <1>8 DEF vars, TypeOK
  <1> QED  BY <1>1, <1>2, <1>3, <1>4, <1>5, <1>6, <1>7, <1>8 DEF Next

\* Every reachable database has the columns the schema declares.
THEOREM TypeCorrect == Spec => []TypeOK
  BY TypeInit, TypeNext, PTL DEF Spec

------------------------------------------------------------------------------
(* Readability and projection.  Neither is inductive on its own: the checks *)
(* of a write are about the projection, what it makes of them about rows.   *)

Consistent == TypeOK /\ ReadableState /\ ProjectionMatchesRows

LEMMA ConsistentInit == Init => Consistent
  <1> SUFFICES ASSUME Init PROVE ReadableState /\ ProjectionMatchesRows
    BY TypeInit DEF Consistent
  <1>1. DOMAIN runs = {}
    BY EmptySeq DEF Init
  <1> QED  BY <1>1 DEF Init, InitialMeta, ReadableState, ProjectionMatchesRows,
              ValidScanState, EmptySlot, NoScan, Null

\* Failing a slot, by the coordinator or by opening the ledger.
LEMMA SlotFailsConsistent ==
  ASSUME Consistent, NEW s, NEW code, SlotFails(s, code)
  PROVE  ReadableState' /\ ProjectionMatchesRows'
  <1> USE DEF Consistent, SlotFails, OthersStay, Becomes
  <1>0. s \in DOMAIN runs /\ DOMAIN runs' = DOMAIN runs
    OBVIOUS
  <1>1. /\ s \in Nat \ {0} /\ runs[s] \in Run /\ DOMAIN runs' = DOMAIN runs
        /\ meta.slot \in Slot /\ NextRevision \in Nat \ {0} /\ code # NoCode
    BY <1>0, MetaFields, RowNumbers, Codes DEF TypeOK
  <1>2. ReadableState'
    <2>1. ValidScanState(meta')
      BY <1>1 DEF ReadableState, ValidScanState, Slot, NoScan, Null
    <2>2. \A t \in DOMAIN runs : t # s => ValidRun(runs'[t])
      BY DEF ReadableState
    <2>3. ValidRun(runs'[s])
      BY <1>1 DEF ReadableState, ValidRun, RowIs, Run, Null, Live, Terminal
    <2> QED  BY <1>1, <2>1, <2>2, <2>3 DEF ReadableState
  <1>3. ProjectionMatchesRows'
    <2>1. /\ runs'[s].state = "start_failed" /\ meta'.slot.state = "start_failed"
          /\ meta'.slot.scan = s
      BY <1>1 DEF Run, Slot
    <2>2. \A t \in DOMAIN runs' :
            /\ runs'[t].state = "running" <=> meta'.active = t
            /\ runs'[t].state = "queued" <=> meta'.slot.state = "queued" /\ meta'.slot.scan = t
      BY <1>1, <2>1 DEF ProjectionMatchesRows, RowIs
    <2>3. StartFailedProjection'
      BY <1>1, <2>1 DEF ProjectionMatchesRows, QueuedProjection, StartFailedProjection,
                        RowIs, Run, Slot
    <2> QED  BY <1>1, <2>1, <2>2, <2>3 DEF ProjectionMatchesRows
  <1> QED  BY <1>2, <1>3

LEMMA StartConsistent ==
  ASSUME Consistent, MarkScanStarted
  PROVE  ReadableState' /\ ProjectionMatchesRows'
  <1> USE DEF Consistent, OthersStay
  <1>1. /\ OthersStay(NewScan) /\ NewScan \notin DOMAIN runs /\ NextRevision \in Nat \ {0}
        /\ runs'[NewScan] = [kind |-> "direct", state |-> "running", enqueued |-> Null,
                             started |-> NextRevision, terminal |-> Null, code |-> NoCode]
        /\ meta'.state = "running" /\ meta'.active = NewScan /\ meta'.slot = EmptySlot
        /\ meta'.lastScan = meta.lastScan /\ meta'.lastResult = meta.lastResult
        /\ meta.active = NoScan /\ meta.slot.state # "queued"
    BY StartStep, MetaFields DEF MarkScanStarted, CanStart, TypeOK, Meta
  <1>2. ReadableState'
    BY <1>1 DEF ReadableState, ValidScanState, ValidRun, EmptySlot, NoScan, Null, Live, Terminal
  <1>3. ProjectionMatchesRows'
    <2>1. ASSUME NEW t \in DOMAIN runs'
          PROVE  /\ runs'[t].state = "running" <=> meta'.active = t
                 /\ runs'[t].state = "queued" <=> meta'.slot.state = "queued" /\ meta'.slot.scan = t
      <3>0. t \in Nat \ {0}
        BY <1>1, RowNumbers DEF TypeOK
      <3>1. CASE t = NewScan
        BY <1>1, <3>1 DEF ProjectionMatchesRows, RowIs, Run, Slot, EmptySlot, NoScan
      <3>2. CASE t # NewScan
        BY <1>1, <3>0, <3>2 DEF ProjectionMatchesRows, RowIs, EmptySlot, NoScan
      <3> QED  BY <3>1, <3>2
    <2>2. meta'.active # NoScan => meta'.active \in DOMAIN runs'
      BY <1>1 DEF ProjectionMatchesRows
    <2>3. /\ meta'.slot.state = "queued" => QueuedProjection'
          /\ meta'.slot.state = "start_failed" => StartFailedProjection'
      BY <1>1 DEF EmptySlot
    <2> QED  BY <2>1, <2>2, <2>3 DEF ProjectionMatchesRows
  <1> QED  BY <1>2, <1>3

LEMMA ReserveConsistent ==
  ASSUME Consistent, ReserveScanFollowup, meta.slot.state # "queued"
  PROVE  ReadableState' /\ ProjectionMatchesRows'
  <1> USE DEF Consistent, OthersStay
  <1>1. /\ OthersStay(NewScan) /\ NewScan \notin DOMAIN runs /\ NextRevision \in Nat \ {0}
        /\ runs'[NewScan] = [kind |-> "followup", state |-> "queued",
                             enqueued |-> NextRevision, started |-> Null,
                             terminal |-> Null, code |-> NoCode]
        /\ meta'.slot = [state |-> "queued", scan |-> NewScan,
                         enqueued |-> NextRevision, code |-> NoCode]
        /\ meta'.state = meta.state /\ meta'.active = meta.active
        /\ meta'.lastScan = meta.lastScan /\ meta'.lastResult = meta.lastResult
        /\ meta.active \in DOMAIN runs
    BY ReserveStep, MetaFields DEF ReserveScanFollowup, CanReserve, RowIs, TypeOK, Meta
  <1>2. ReadableState'
    BY <1>1 DEF ReadableState, ValidScanState, ValidRun, NoScan, Null, Live, Terminal
  <1>3. ProjectionMatchesRows'
    BY <1>1 DEF ProjectionMatchesRows, QueuedProjection, RowIs, NoScan
  <1> QED  BY <1>2, <1>3

LEMMA FollowupStartedConsistent ==
  ASSUME Consistent, NEW s \in DOMAIN runs, MarkFollowupStarted(s)
  PROVE  ReadableState' /\ ProjectionMatchesRows'
  <1> USE DEF Consistent, OthersStay
  <1> USE DEF Becomes
  <1>1. /\ runs[s] \in Run /\ NextRevision \in Nat \ {0}
        /\ Becomes(s, "running", NextRevision, runs[s].terminal, runs[s].code)
        /\ meta'.state = "running" /\ meta'.active = s /\ meta'.slot = EmptySlot
        /\ meta'.lastScan = meta.lastScan /\ meta'.lastResult = meta.lastResult
        /\ meta.active = NoScan /\ meta.slot.scan = s /\ runs[s].state = "queued"
    BY FollowupStartedStep, MetaFields, RowNumbers, ZenonT(40)
    DEF MarkFollowupStarted, CanStartFollowup, SlotQueued, QueuedProjection, RowIs, TypeOK, Meta, Run
  <1>2. ReadableState'
    <2>1. ValidRun(runs'[s])
      BY <1>1 DEF ReadableState, ValidRun, Run, Null, Live, Terminal
    <2>2. ValidScanState(meta')
      BY <1>1 DEF ReadableState, ValidScanState, EmptySlot, NoScan
    <2> QED  BY <1>1, <2>1, <2>2 DEF ReadableState
  <1>3. ProjectionMatchesRows'
    <2>1. ASSUME NEW t \in DOMAIN runs'
          PROVE  /\ runs'[t].state = "running" <=> meta'.active = t
                 /\ runs'[t].state = "queued" <=> meta'.slot.state = "queued" /\ meta'.slot.scan = t
      <3>0. t \in Nat \ {0}
        BY <1>1, RowNumbers DEF TypeOK
      <3>1. CASE t = s
        BY <1>1, <3>1 DEF ProjectionMatchesRows, RowIs, Run, Slot, EmptySlot, NoScan
      <3>2. CASE t # s
        BY <1>1, <3>0, <3>2 DEF ProjectionMatchesRows, RowIs, EmptySlot, NoScan
      <3> QED  BY <3>1, <3>2
    <2>2. meta'.active # NoScan => meta'.active \in DOMAIN runs'
      BY <1>1 DEF ProjectionMatchesRows
    <2>3. /\ meta'.slot.state = "queued" => QueuedProjection'
          /\ meta'.slot.state = "start_failed" => StartFailedProjection'
      BY <1>1 DEF EmptySlot
    <2> QED  BY <2>1, <2>2, <2>3 DEF ProjectionMatchesRows
  <1> QED  BY <1>2, <1>3

\* Completing and failing differ only in what the row and app_meta then show.
LEMMA EndConsistent ==
  ASSUME Consistent, NEW s \in DOMAIN runs, IsActive(s),
         NEW result \in {"completed", "failed"}, NEW code \in ErrorCodes,
         result = "failed" <=> code # NoCode,
         NEW state \in {"idle", "failed"},
         Becomes(s, result, runs[s].started, NextRevision, code),
         meta'.state = state, meta'.active = NoScan, meta'.slot = meta.slot,
         meta'.lastScan = s, meta'.lastResult = result
  PROVE  ReadableState' /\ ProjectionMatchesRows'
  <1> USE DEF Consistent, OthersStay, Becomes
  <1>1. /\ runs[s] \in Run /\ NextRevision \in Nat \ {0}
        /\ runs[s].state = "running" /\ meta.active = s
    BY RowNumbers, MetaFields DEF IsActive, RowIs, TypeOK
  <1>2. ReadableState'
    <2>1. ValidRun(runs'[s])
      BY <1>1 DEF ReadableState, ValidRun, Run, Null, Live, Terminal
    <2>2. ValidScanState(meta')
      BY <1>1 DEF ReadableState, ValidScanState, EmptySlot, NoScan
    <2> QED  BY <1>1, <2>1, <2>2 DEF ReadableState
  <1>3. ProjectionMatchesRows'
    <2>1. ASSUME NEW t \in DOMAIN runs'
          PROVE  /\ runs'[t].state = "running" <=> meta'.active = t
                 /\ runs'[t].state = "queued" <=> meta'.slot.state = "queued" /\ meta'.slot.scan = t
      <3>0. t \in Nat \ {0}
        BY <1>1, RowNumbers DEF TypeOK
      <3>1. CASE t = s
        BY <1>1, <3>1 DEF ProjectionMatchesRows, RowIs, Run, Slot, EmptySlot, NoScan
      <3>2. CASE t # s
        BY <1>1, <3>0, <3>2 DEF ProjectionMatchesRows, RowIs, EmptySlot, NoScan
      <3> QED  BY <3>1, <3>2
    <2>2. meta'.active # NoScan => meta'.active \in DOMAIN runs'
      BY <1>1 DEF ProjectionMatchesRows
    <2>3. /\ meta'.slot.state = "queued" => QueuedProjection'
          /\ meta'.slot.state = "start_failed" => StartFailedProjection'
      BY <1>1 DEF ProjectionMatchesRows, QueuedProjection, StartFailedProjection, RowIs, Run
    <2> QED  BY <2>1, <2>2, <2>3 DEF ProjectionMatchesRows
  <1> QED  BY <1>2, <1>3

LEMMA ConsistentNext == Consistent /\ [Next]_vars => Consistent'
  <1> SUFFICES ASSUME Consistent, [Next]_vars PROVE ReadableState' /\ ProjectionMatchesRows'
    BY TypeNext DEF Consistent
  <1> USE DEF Consistent
  <1>1. CASE MarkScanStarted
    BY <1>1, StartConsistent
  <1>2. CASE ReserveScanFollowup
    <2>1. CASE meta.slot.state = "queued"
      BY <1>2, <2>1 DEF ReserveScanFollowup, ReadableState, ProjectionMatchesRows,
         QueuedProjection, StartFailedProjection, RowIs
    <2> QED  BY <1>2, <2>1, ReserveConsistent
  <1>3. ASSUME NEW s \in DOMAIN runs, MarkFollowupStarted(s)
        PROVE  ReadableState' /\ ProjectionMatchesRows'
    BY <1>3, FollowupStartedConsistent
  <1>4. ASSUME NEW s \in DOMAIN runs, NEW code \in StartFailedCodes,
               MarkFollowupStartFailed(s, code)
        PROVE  ReadableState' /\ ProjectionMatchesRows'
    BY <1>4, FollowupFailedFails, SlotFailsConsistent
  <1>5. ASSUME NEW s \in DOMAIN runs, MarkScanCompleted(s)
        PROVE  ReadableState' /\ ProjectionMatchesRows'
    <2>1. runs[s].code = NoCode
      BY <1>5 DEF MarkScanCompleted, IsActive, RowIs, ReadableState, ValidRun
    <2>2. Becomes(s, "completed", runs[s].started, NextRevision, NoCode)
      BY <1>5, <2>1, CompletedStep
    <2>3. /\ meta'.state = "idle" /\ meta'.active = NoScan /\ meta'.slot = meta.slot
          /\ meta'.lastScan = s /\ meta'.lastResult = "completed" /\ IsActive(s)
      BY <1>5 DEF MarkScanCompleted, TypeOK, Meta
    <2> QED  BY <2>2, <2>3, Codes, EndConsistent
  <1>6. ASSUME NEW s \in DOMAIN runs, NEW code \in ScanFailedCodes, MarkScanFailed(s, code)
        PROVE  ReadableState' /\ ProjectionMatchesRows'
    <2>1. Becomes(s, "failed", runs[s].started, NextRevision, code)
      BY <1>6, FailedStep
    <2>2. /\ meta'.state = "failed" /\ meta'.active = NoScan /\ meta'.slot = meta.slot
          /\ meta'.lastScan = s /\ meta'.lastResult = "failed" /\ IsActive(s)
      BY <1>6 DEF MarkScanFailed, TypeOK, Meta
    <2> QED  BY <2>1, <2>2, Codes, EndConsistent
  <1>7. ASSUME NEW h \in Homes, BindCodexHome(h)
        PROVE  ReadableState' /\ ProjectionMatchesRows'
    <2>1. CASE SameLifecycle
      BY <2>1 DEF SameLifecycle, ReadableState, ValidScanState, ProjectionMatchesRows,
         QueuedProjection, StartFailedProjection, RowIs
    <2> QED  BY <1>7, <2>1, BindStep, SlotFailsConsistent
  <1>8. CASE UNCHANGED vars
    BY <1>8 DEF vars, ReadableState, ValidScanState, ProjectionMatchesRows,
       QueuedProjection, StartFailedProjection, RowIs
  <1> QED  BY <1>1, <1>2, <1>3, <1>4, <1>5, <1>6, <1>7, <1>8 DEF Next

\* No sequence of lifecycle calls and restarts leaves a row or a projection
\* behind that the validation of the next read rejects.
THEOREM AlwaysReadable == Spec => []ReadableState
  <1>1. Spec => []Consistent
    BY ConsistentInit, ConsistentNext, PTL DEF Spec
  <1>2. Consistent => ReadableState
    BY DEF Consistent
  <1> QED  BY <1>1, <1>2, PTL

\* The app_meta projection is exactly what the scan_runs rows say: one running
\* row at most, one queued row at most, and the projection names them.
THEOREM AlwaysProjected == Spec => []ProjectionMatchesRows
  <1>1. Spec => []Consistent
    BY ConsistentInit, ConsistentNext, PTL DEF Spec
  <1>2. Consistent => ProjectionMatchesRows
    BY DEF Consistent
  <1> QED  BY <1>1, <1>2, PTL

------------------------------------------------------------------------------
(* Every step, seen from the rows: nothing, or one row that is new, that    *)
(* leaves the queue, or that ends.                                          *)

Keeps == UNCHANGED runs /\ meta'.slot = meta.slot /\ meta'.revision >= meta.revision

Inserts(state, enqueued, started) ==
  /\ OthersStay(NewScan) /\ NewScan \notin DOMAIN runs
  /\ runs'[NewScan].state = state /\ runs'[NewScan].enqueued = enqueued
  /\ runs'[NewScan].started = started /\ runs'[NewScan].terminal = Null
  /\ meta.slot.state # "queued"
  /\ meta'.revision = NextRevision

Begins == Inserts("running", Null, NextRevision) /\ meta.active = NoScan

Waits == /\ Inserts("queued", NextRevision, Null)
         /\ meta.active \in DOMAIN runs /\ runs[meta.active].state = "running"

Promotes(s) ==
  /\ s \in DOMAIN runs /\ runs[s].state = "queued" /\ meta.active = NoScan
  /\ Becomes(s, "running", NextRevision, runs[s].terminal, runs[s].code)
  /\ meta.slot.scan = s /\ meta'.active = s /\ meta'.revision = NextRevision

Ends(s) ==
  /\ s \in DOMAIN runs /\ runs[s].state = "running"
  /\ \E result \in {"completed", "failed"}, code \in ErrorCodes :
       Becomes(s, result, runs[s].started, NextRevision, code)
  /\ meta'.slot = meta.slot /\ meta'.revision = NextRevision

LEMMA RowStep ==
  ASSUME Consistent, [Next]_vars
  PROVE  \/ Keeps \/ Begins \/ Waits
         \/ \E s \in DOMAIN runs :
              Promotes(s) \/ Ends(s) \/ \E code \in StartFailedCodes : SlotFails(s, code)
  <1> USE DEF Consistent
  <1> DEFINE Goal == \/ Keeps \/ Begins \/ Waits
                     \/ \E s \in DOMAIN runs :
                          \/ Promotes(s) \/ Ends(s)
                          \/ \E code \in StartFailedCodes : SlotFails(s, code)
  <1>1. CASE MarkScanStarted
    <2>1. /\ meta.active = NoScan /\ meta.slot.state # "queued"
          /\ meta'.revision = NextRevision
      BY <1>1 DEF MarkScanStarted, CanStart, TypeOK, Meta
    <2>2. Inserts("running", Null, NextRevision)
      BY <1>1, <2>1, StartStep DEF Inserts
    <2>3. Begins
      BY <2>1, <2>2 DEF Begins
    <2> QED  BY <2>3
  <1>2. CASE ReserveScanFollowup
    <2>1. CASE meta.slot.state = "queued"
      <3>1. Keeps
        BY <1>2, <2>1, MetaFields DEF ReserveScanFollowup, Keeps
      <3> QED  BY <3>1
    <2>2. CASE meta.slot.state # "queued"
      <3>1. meta.active \in DOMAIN runs /\ runs[meta.active].state = "running"
        BY <1>2 DEF ReserveScanFollowup, CanReserve, RowIs
      <3>2. meta'.revision = NextRevision
        BY <1>2, <2>2, ReserveStep DEF TypeOK, Meta
      <3>3. Inserts("queued", NextRevision, Null)
        BY <1>2, <2>2, <3>2, ReserveStep DEF Inserts
      <3>4. Waits
        BY <3>1, <3>3 DEF Waits
      <3> QED  BY <3>4
    <2> QED  BY <2>1, <2>2
  <1>3. ASSUME NEW s \in DOMAIN runs, MarkFollowupStarted(s) PROVE Goal
    <2>1. Promotes(s)
      BY <1>3, FollowupStartedStep
      DEF Promotes, MarkFollowupStarted, CanStartFollowup, SlotQueued, QueuedProjection,
          RowIs, TypeOK, Meta
    <2> QED  BY <2>1
  <1>4. ASSUME NEW s \in DOMAIN runs, NEW code \in StartFailedCodes,
               MarkFollowupStartFailed(s, code)
        PROVE  Goal
    BY <1>4, FollowupFailedFails
  <1>5. ASSUME NEW s \in DOMAIN runs, MarkScanCompleted(s) PROVE Goal
    <2>0. runs[s] \in Run
      BY RowNumbers DEF TypeOK
    <2>1. runs[s].state = "running" /\ runs[s].code \in ErrorCodes
      BY <1>5, <2>0 DEF MarkScanCompleted, IsActive, RowIs, Run
    <2>2. meta'.slot = meta.slot /\ meta'.revision = NextRevision
      BY <1>5 DEF MarkScanCompleted, TypeOK, Meta
    <2>3. Ends(s)
      BY <1>5, <2>1, <2>2, CompletedStep DEF Ends
    <2> QED  BY <2>3
  <1>6. ASSUME NEW s \in DOMAIN runs, NEW code \in ScanFailedCodes, MarkScanFailed(s, code)
        PROVE  Goal
    <2>1. runs[s].state = "running" /\ code \in ErrorCodes
      BY <1>6, Codes DEF MarkScanFailed, IsActive, RowIs
    <2>2. meta'.slot = meta.slot /\ meta'.revision = NextRevision
      BY <1>6 DEF MarkScanFailed, TypeOK, Meta
    <2>3. Ends(s)
      BY <1>6, <2>1, <2>2, FailedStep DEF Ends
    <2> QED  BY <2>3
  <1>7. ASSUME NEW h \in Homes, BindCodexHome(h) PROVE Goal
    BY <1>7, BindStep, Codes DEF SameLifecycle, Keeps
  <1>8. CASE UNCHANGED vars
    BY <1>8, MetaFields DEF vars, Keeps
  <1> QED  BY <1>1, <1>2, <1>3, <1>4, <1>5, <1>6, <1>7, <1>8 DEF Next

------------------------------------------------------------------------------
(* History. *)

LEMMA TerminalStep ==
  ASSUME Consistent, [Next]_vars, NEW s \in DOMAIN runs, runs[s].state \in Terminal
  PROVE  s \in DOMAIN runs' /\ runs'[s] = runs[s]
  BY RowStep DEF Keeps, Begins, Waits, Inserts, Promotes, Ends, SlotFails, Becomes,
     OthersStay, RowIs, Terminal

\* A row that has ended is never written again, whatever the coordinator or a
\* restart does later.
THEOREM HistoryIsFinal == Spec => TerminalRowsAreFinal
  <1>1. Consistent /\ [Next]_vars =>
          [\A s \in DOMAIN runs : runs[s].state \in Terminal =>
             s \in DOMAIN runs' /\ runs'[s] = runs[s]]_vars
    BY TerminalStep
  <1> QED  BY <1>1, ConsistentInit, ConsistentNext, PTL DEF Spec, TerminalRowsAreFinal

LEMMA HandOverStep ==
  ASSUME Consistent, [Next]_vars, NEW s \in DOMAIN runs, runs[s].state = "queued"
  PROVE  \/ runs'[s] = runs[s] /\ meta'.slot = meta.slot
         \/ runs'[s].state = "running" /\ meta'.active = s
         \/ runs'[s].state = "start_failed" /\ meta'.slot.scan = s
  <1>1. meta.slot.state = "queued" /\ meta.slot.scan = s
    BY DEF Consistent, ProjectionMatchesRows
  <1>2. CASE Keeps
    BY <1>2 DEF Keeps
  <1>3. CASE Begins \/ Waits
    BY <1>1, <1>3 DEF Begins, Waits, Inserts
  <1>4. ASSUME NEW t \in DOMAIN runs, Promotes(t) PROVE runs'[s].state = "running" /\ meta'.active = s
    BY <1>1, <1>4 DEF Promotes, Becomes
  <1>5. ASSUME NEW t \in DOMAIN runs, Ends(t) PROVE runs'[s] = runs[s] /\ meta'.slot = meta.slot
    BY <1>5 DEF Ends, Becomes, OthersStay
  <1>6. ASSUME NEW t \in DOMAIN runs, NEW code \in StartFailedCodes, SlotFails(t, code)
        PROVE  runs'[s].state = "start_failed" /\ meta'.slot.scan = s
    BY <1>1, <1>6 DEF SlotFails, Becomes
  <1> QED  BY <1>2, <1>3, <1>4, <1>5, <1>6, RowStep

\* No client sees a projection that is idle and has forgotten the follow-up.
THEOREM FollowupHandedOver == Spec => FollowupIsHandedOver
  <1>1. Consistent /\ [Next]_vars =>
          [\A s \in DOMAIN runs : runs[s].state = "queued" =>
             \/ runs'[s] = runs[s] /\ meta'.slot = meta.slot
             \/ runs'[s].state = "running" /\ meta'.active = s
             \/ runs'[s].state = "start_failed" /\ meta'.slot.scan = s]_vars
    BY HandOverStep
  <1> QED  BY <1>1, ConsistentInit, ConsistentNext, PTL DEF Spec, FollowupIsHandedOver

------------------------------------------------------------------------------
(* Revisions.  A step stamps at most one row, with the next revision.       *)

Touches(s) ==
  /\ OthersStay(s) /\ meta'.revision = NextRevision
  /\ \A n \in Stamps(runs'[s]) :
       n = NextRevision \/ (s \in DOMAIN runs /\ n \in Stamps(runs[s]))
  /\ runs'[s].started # Null => runs'[s].enqueued < runs'[s].started
  /\ runs'[s].terminal # Null =>
       runs'[s].enqueued < runs'[s].terminal /\ runs'[s].started < runs'[s].terminal

LEMMA StampsAreOld ==
  ASSUME TypeOK, RevisionsNameOneStep, NEW s \in DOMAIN runs
  PROVE  /\ runs[s].enqueued \in Nat /\ runs[s].started \in Nat /\ runs[s].terminal \in Nat
         /\ runs[s].enqueued < NextRevision /\ runs[s].started < NextRevision
         /\ \A n \in Stamps(runs[s]) : n \in Nat /\ n <= meta.revision
  <1>1. runs[s] \in Run
    BY RowNumbers DEF TypeOK
  <1>2. /\ runs[s].enqueued \in Nat /\ runs[s].started \in Nat /\ runs[s].terminal \in Nat
    BY <1>1 DEF Run
  <1>3. \A n \in Stamps(runs[s]) : n \in Nat /\ n <= meta.revision
    BY <1>2 DEF RevisionsNameOneStep, Stamps
  <1>4. \A n \in {runs[s].enqueued, runs[s].started} : n = 0 \/ n <= meta.revision
    BY <1>3 DEF Stamps, Null
  <1> QED  BY <1>2, <1>3, <1>4, MetaFields

LEMMA TouchStep ==
  ASSUME TypeOK, RevisionsNameOneStep, NEW s, Touches(s)
  PROVE  RevisionsNameOneStep'
  <1>1. /\ NextRevision \in Nat /\ NextRevision > meta.revision /\ meta.revision \in Nat
        /\ meta'.revision = NextRevision
    BY MetaFields DEF Touches
  <1>2. \A t \in DOMAIN runs : \A n \in Stamps(runs[t]) :
          n \in Nat /\ n <= meta.revision /\ n # NextRevision
    BY <1>1, StampsAreOld
  <1> SUFFICES ASSUME NEW t \in DOMAIN runs'
               PROVE  /\ \A n \in Stamps(runs'[t]) : n <= meta'.revision
                      /\ runs'[t].started # Null => runs'[t].enqueued < runs'[t].started
                      /\ runs'[t].terminal # Null =>
                           /\ runs'[t].enqueued < runs'[t].terminal
                           /\ runs'[t].started < runs'[t].terminal
                      /\ \A u \in DOMAIN runs' :
                           t # u => Stamps(runs'[t]) \cap Stamps(runs'[u]) = {}
    BY DEF RevisionsNameOneStep
  <1>3. \A u \in DOMAIN runs' : u # s => u \in DOMAIN runs /\ runs'[u] = runs[u]
    BY DEF Touches, OthersStay
  <1>4. \A n \in Stamps(runs'[t]) : n <= meta'.revision
    <2>1. CASE t = s
      BY <1>1, <1>2, <2>1 DEF Touches
    <2>2. CASE t # s
      BY <1>1, <1>2, <1>3, <2>2
    <2> QED  BY <2>1, <2>2
  <1>5. /\ runs'[t].started # Null => runs'[t].enqueued < runs'[t].started
        /\ runs'[t].terminal # Null =>
             runs'[t].enqueued < runs'[t].terminal /\ runs'[t].started < runs'[t].terminal
    BY <1>3 DEF Touches, RevisionsNameOneStep
  <1>6. ASSUME NEW u \in DOMAIN runs', t # u, NEW n \in Stamps(runs'[t]), n \in Stamps(runs'[u])
        PROVE  FALSE
    <2>1. \A v \in DOMAIN runs' : n \in Stamps(runs'[v]) =>
            \/ v = s /\ n = NextRevision
            \/ v \in DOMAIN runs /\ n \in Stamps(runs[v])
      BY <1>3 DEF Touches
    <2>2. \/ t = s /\ n = NextRevision
          \/ t \in DOMAIN runs /\ n \in Stamps(runs[t])
      BY <1>6, <2>1
    <2>3. \/ u = s /\ n = NextRevision
          \/ u \in DOMAIN runs /\ n \in Stamps(runs[u])
      BY <1>6, <2>1
    <2>4. \A v, w \in DOMAIN runs : v # w => ~(n \in Stamps(runs[v]) /\ n \in Stamps(runs[w]))
      BY DEF RevisionsNameOneStep
    <2> QED  BY <1>2, <1>6, <2>2, <2>3, <2>4
  <1> QED  BY <1>4, <1>5, <1>6

LEMMA RevisionsStep ==
  ASSUME Consistent, RevisionsNameOneStep, [Next]_vars
  PROVE  RevisionsNameOneStep'
  <1> USE DEF Consistent
  <1>1. CASE Keeps
    <2>1. meta.revision \in Nat /\ meta'.revision \in Nat /\ meta'.revision >= meta.revision
      BY <1>1, MetaFields, TypeNext DEF Keeps, TypeOK, Meta
    <2>2. \A t \in DOMAIN runs : \A n \in Stamps(runs[t]) : n \in Nat /\ n <= meta.revision
      BY StampsAreOld
    <2> QED  BY <1>1, <2>1, <2>2 DEF Keeps, RevisionsNameOneStep
  <1>2. CASE Begins \/ Waits
    <2>1. Touches(NewScan)
      BY <1>2, MetaFields DEF Begins, Waits, Inserts, Touches, Stamps, Null
    <2> QED  BY <2>1, TouchStep
  <1>3. ASSUME NEW s \in DOMAIN runs, Promotes(s) PROVE RevisionsNameOneStep'
    <2>1. runs[s].terminal = Null /\ runs[s].started = Null
      BY <1>3 DEF Promotes, ReadableState, ValidRun, Terminal
    <2>2. Touches(s)
      BY <1>3, <2>1, StampsAreOld, MetaFields DEF Promotes, Becomes, Touches, Stamps, Null
    <2> QED  BY <2>2, TouchStep
  <1>4. ASSUME NEW s \in DOMAIN runs, Ends(s) PROVE RevisionsNameOneStep'
    <2>1. runs[s].started # Null => runs[s].enqueued < runs[s].started
      BY DEF RevisionsNameOneStep
    <2>2. Touches(s)
      BY <1>4, <2>1, StampsAreOld, MetaFields DEF Ends, Becomes, Touches, Stamps, Null
    <2> QED  BY <2>2, TouchStep
  <1>5. ASSUME NEW s \in DOMAIN runs, NEW code \in StartFailedCodes, SlotFails(s, code)
        PROVE  RevisionsNameOneStep'
    <2>1. runs[s].started # Null => runs[s].enqueued < runs[s].started
      BY DEF RevisionsNameOneStep
    <2>2. Touches(s)
      BY <1>5, <2>1, StampsAreOld, MetaFields DEF SlotFails, Becomes, Touches, Stamps, Null
    <2> QED  BY <2>2, TouchStep
  <1> QED  BY <1>1, <1>2, <1>3, <1>4, <1>5, RowStep

LEMMA RevisionsInit == Init => RevisionsNameOneStep
  <1>1. DOMAIN <<>> = {}
    BY EmptySeq
  <1> QED  BY <1>1 DEF Init, RevisionsNameOneStep

\* Each revision a client can hold names one step of one scan, in an order that
\* agrees with the order of the commits.
THEOREM RevisionsOrderSteps == Spec => []RevisionsNameOneStep
  <1>1. Init => Consistent /\ RevisionsNameOneStep
    BY ConsistentInit, RevisionsInit
  <1>2. Consistent /\ RevisionsNameOneStep /\ [Next]_vars => (Consistent /\ RevisionsNameOneStep)'
    BY ConsistentNext, RevisionsStep
  <1> QED  BY <1>1, <1>2, PTL DEF Spec

------------------------------------------------------------------------------
(* Refinement: the rows, by their phases, are the scans of ScanPromise.     *)

ScansCorrespond ==
  /\ Scans \in Seq(Promise!Phases) /\ DOMAIN Scans = DOMAIN runs
  /\ Len(Scans) = Len(runs)
  /\ \A s \in DOMAIN runs : Scans[s] = PhaseOf(runs[s].state)

LEMMA ScansAreSequence == TypeOK => ScansCorrespond
  <1> SUFFICES ASSUME TypeOK PROVE ScansCorrespond
    OBVIOUS
  <1>1. Len(runs) \in Nat /\ DOMAIN runs = 1 .. Len(runs)
    BY LenProperties DEF TypeOK
  <1>2. \A state : PhaseOf(state) \in Promise!Phases
    BY DEF PhaseOf, Promise!Phases
  <1>3. Scans = [s \in 1 .. Len(runs) |-> PhaseOf(runs[s].state)]
    BY <1>1 DEF Scans
  <1>4. Scans \in Seq(Promise!Phases) /\ Len(Scans) = Len(runs)
    BY <1>1, <1>2, <1>3, IsASeq
  <1> QED  BY <1>1, <1>3, <1>4 DEF ScansCorrespond

LEMMA PhasesOfStates ==
  /\ PhaseOf("queued") = "waiting" /\ PhaseOf("running") = "running"
  /\ PhaseOf("start_failed") = "refused"
  /\ PhaseOf("completed") = "served" /\ PhaseOf("failed") = "served"
  BY DEF PhaseOf

\* The phases "running" and "waiting" are those of the active and queued rows.
LEMMA PhaseSets ==
  ASSUME Consistent
  PROVE  /\ Promise!In("running") = {s \in DOMAIN runs : meta.active = s}
         /\ Promise!In("waiting") =
              {s \in DOMAIN runs : meta.slot.state = "queued" /\ meta.slot.scan = s}
  <1>1. \A s \in DOMAIN runs : /\ Scans[s] = "running" <=> runs[s].state = "running"
                               /\ Scans[s] = "waiting" <=> runs[s].state = "queued"
    BY ScansAreSequence DEF Consistent, PhaseOf, ScansCorrespond
  <1>2. DOMAIN Scans = DOMAIN runs
    BY ScansAreSequence DEF Consistent, ScansCorrespond
  <1> QED  BY <1>1, <1>2 DEF Consistent, ProjectionMatchesRows, Promise!In

\* A row that moves to another state moves its scan to that state's phase.
LEMMA ScanMoves ==
  ASSUME TypeOK, TypeOK', NEW s \in DOMAIN runs, DOMAIN runs' = DOMAIN runs, OthersStay(s)
  PROVE  Scans' = [Scans EXCEPT ![s] = PhaseOf(runs'[s].state)]
  <1>1. \A t \in DOMAIN runs : t # s => runs'[t] = runs[t]
    BY DEF OthersStay
  <1> QED  BY <1>1 DEF Scans

\* A new row is a new scan at the end.
LEMMA ScanAppears ==
  ASSUME TypeOK, TypeOK', OthersStay(NewScan), NewScan \notin DOMAIN runs,
         NEW phase \in Promise!Phases, PhaseOf(runs'[NewScan].state) = phase
  PROVE  Scans' = Append(Scans, phase)
  <1>1. /\ Scans \in Seq(Promise!Phases) /\ Scans' \in Seq(Promise!Phases)
        /\ Len(Scans) = Len(runs) /\ Len(Scans') = Len(runs')
        /\ Len(runs) \in Nat /\ Len(runs') \in Nat
        /\ DOMAIN runs = 1 .. Len(runs) /\ DOMAIN runs' = 1 .. Len(runs')
    <2>1. /\ Scans \in Seq(Promise!Phases) /\ Len(Scans) = Len(runs)
          /\ Scans' \in Seq(Promise!Phases) /\ Len(Scans') = Len(runs')
      <3>1. TypeOK' => ScansCorrespond'
        BY ScansAreSequence, PTL
      <3> QED  BY <3>1, ScansAreSequence DEF ScansCorrespond
    <2> QED  BY <2>1, LenProperties DEF TypeOK
  <1>2. Len(runs') = Len(runs) + 1
    <2>1. DOMAIN runs' = 1 .. Len(runs) + 1
      BY <1>1 DEF OthersStay, NewScan
    <2> QED  BY <1>1, <2>1
  <1>3. /\ Append(Scans, phase) \in Seq(Promise!Phases)
        /\ Len(Append(Scans, phase)) = Len(Scans) + 1
        /\ \A t \in 1 .. Len(Scans) : Append(Scans, phase)[t] = Scans[t]
        /\ Append(Scans, phase)[Len(Scans) + 1] = phase
    BY <1>1, AppendProperties
  <1>4. \A t \in 1 .. Len(Scans') : Scans'[t] = Append(Scans, phase)[t]
    <2> TAKE t \in 1 .. Len(Scans')
    <2>1. CASE t = NewScan
      BY <1>1, <1>2, <1>3, <2>1 DEF Scans, NewScan
    <2>2. CASE t # NewScan
      <3>1. t \in DOMAIN runs /\ runs'[t] = runs[t]
        BY <1>1, <1>2, <2>2 DEF NewScan, OthersStay
      <3>2. Scans'[t] = PhaseOf(runs'[t].state) /\ Scans[t] = PhaseOf(runs[t].state)
        BY <1>1, <3>1 DEF Scans
      <3> QED  BY <1>1, <1>3, <3>1, <3>2
    <2> QED  BY <2>1, <2>2
  <1> QED  BY <1>1, <1>2, <1>3, <1>4, SeqEqual

LEMMA PromiseInit == Init => Promise!Init
  <1> SUFFICES ASSUME Init PROVE Scans = <<>>
    BY DEF Promise!Init
  <1>1. TypeOK /\ Len(runs) = 0
    BY TypeInit, EmptySeq DEF Init
  <1> QED  BY <1>1, ScansAreSequence, EmptySeq DEF ScansCorrespond

LEMMA PromiseStep ==
  ASSUME Consistent, [Next]_vars
  PROVE  Promise!Next \/ UNCHANGED Scans
  <1>1. /\ TypeOK /\ TypeOK' /\ DOMAIN Scans = DOMAIN runs
        /\ DOMAIN runs \subseteq Nat \ {0}
    BY TypeNext, ScansAreSequence, RowNumbers DEF Consistent, TypeOK, ScansCorrespond
  <1>2. CASE Keeps
    BY <1>2 DEF Keeps, Scans
  <1>3. CASE Begins
    <2>1. Scans' = Append(Scans, "running")
      BY <1>1, <1>3, ScanAppears, PhasesOfStates DEF Begins, Inserts, Promise!Phases
    <2>2. Promise!In("running") = {} /\ Promise!In("waiting") = {}
      BY <1>1, <1>3, PhaseSets DEF Begins, Inserts, NoScan
    <2> QED  BY <2>1, <2>2 DEF Promise!Next, Promise!Begin
  <1>4. CASE Waits
    <2>1. Scans' = Append(Scans, "waiting")
      BY <1>1, <1>4, ScanAppears, PhasesOfStates DEF Waits, Inserts, Promise!Phases
    <2>2. Promise!In("running") # {} /\ Promise!In("waiting") = {}
      BY <1>1, <1>4, PhaseSets DEF Waits, Inserts
    <2> QED  BY <2>1, <2>2 DEF Promise!Next, Promise!Wait
  <1>5. ASSUME NEW s \in DOMAIN runs, Promotes(s) PROVE Promise!Next
    <2>1. Scans' = [Scans EXCEPT ![s] = "running"]
      BY <1>1, <1>5, ScanMoves, PhasesOfStates DEF Promotes, Becomes
    <2>2. s \in Promise!In("waiting") /\ Promise!In("running") = {}
      BY <1>1, <1>5, PhaseSets DEF Promotes, NoScan, Consistent, ProjectionMatchesRows
    <2> QED  BY <1>1, <2>1, <2>2 DEF Promise!Next, Promise!Promote
  <1>6. ASSUME NEW s \in DOMAIN runs, NEW code \in StartFailedCodes, SlotFails(s, code)
        PROVE  Promise!Next
    <2>1. Scans' = [Scans EXCEPT ![s] = "refused"]
      BY <1>1, <1>6, ScanMoves, PhasesOfStates DEF SlotFails, Becomes
    <2>2. s \in Promise!In("waiting")
      BY <1>6, PhaseSets DEF SlotFails
    <2> QED  BY <1>1, <2>1, <2>2 DEF Promise!Next, Promise!Refuse
  <1>7. ASSUME NEW s \in DOMAIN runs, Ends(s) PROVE Promise!Next
    <2>1. Scans' = [Scans EXCEPT ![s] = "served"]
      BY <1>1, <1>7, ScanMoves, PhasesOfStates DEF Ends, Becomes
    <2>2. s \in Promise!In("running")
      BY <1>7, PhaseSets DEF Ends, Consistent, ProjectionMatchesRows
    <2> QED  BY <1>1, <2>1, <2>2 DEF Promise!Next, Promise!Finish
  <1> QED  BY <1>2, <1>3, <1>4, <1>5, <1>6, <1>7, RowStep

\* The lifecycle store implements ScanPromise: scans are accepted in order, one
\* runs, at most one more waits, and what was served or refused stays so.
THEOREM LifecycleKeepsPromise == Spec => PromiseKept
  <1>1. Consistent /\ [Next]_vars => [Promise!Next]_Scans
    BY PromiseStep
  <1> QED  BY <1>1, ConsistentInit, ConsistentNext, PromiseInit, PTL
           DEF Spec, PromiseKept, Promise!Spec
==============================================================================
