------------------------ MODULE OrderJournal_proofs ------------------------
(***************************************************************************)
(* Proofs about OrderJournal, for every set of intents and of sweeps and   *)
(* whatever the bounds: type correctness, the duplicate gate, the cover    *)
(* of outstanding orders and the finality of filled rows.                  *)
(***************************************************************************)
EXTENDS OrderJournal, FiniteSetTheorems, TLAPS

(* The client ids of one symbol's day are finitely many, so the epoch, a   *)
(* count of journal rows, is a number.                                     *)
LEMMA CidFinite == IsFiniteSet(Cid)
<1>1. MaxEpoch \in Nat /\ MaxFresh \in Nat
  BY BoundsAssumption
<1>2. IsFiniteSet(0 .. MaxEpoch) /\ IsFiniteSet(0 .. MaxFresh)
  BY <1>1, FS_Interval
<1>3. IsFiniteSet(Intents \ Resting) /\ IsFiniteSet(Resting)
  BY IntentsAssumption, FS_Subset, FS_Difference
<1>4. IsFiniteSet((Intents \ Resting) \X (0 .. MaxEpoch))
  BY <1>2, <1>3, FS_Product
<1>5. IsFiniteSet(Resting \X (0 .. MaxFresh))
  BY <1>2, <1>3, FS_Product
<1> QED BY <1>4, <1>5, FS_Union DEF Cid

LEMMA EpochType == ASSUME NEW rs PROVE Epoch(rs) \in Nat
<1>1. IsFiniteSet(Present(rs))
  BY CidFinite, FS_Subset DEF Present
<1> QED BY <1>1, FS_CardinalityType DEF Epoch

LEMMA QtyType == ASSUME NEW c \in Cid PROVE Qty(c) \in Nat \ {0} /\ c[1] \in Intents
  BY IntentsAssumption DEF Cid, Qty

LEMMA GatesType == ASSUME NEW rs, NEW model PROVE GatesOf(rs, model) \in Gates
  BY EpochType DEF GatesOf, UnfoldedFreeze, Gates, OpenRows

LEMMA LiftedType ==
  ASSUME NEW rs \in [Cid -> Row], NEW model PROVE Lifted(rs, model) \in [Cid -> Row]
  BY DEF Lifted, MarkFolded, Row

LEMMA FoldType ==
  ASSUME NEW c \in Cid, NEW row \in Row, NEW n \in Nat
  PROVE  FoldExecution(c, row, n) \in Row
<1>1. CASE n = 0 \/ row.state = "absent" \/ ~(FillsCarryCid \/ row.boid)
  BY <1>1 DEF FoldExecution
<1>2. CASE ~(n = 0 \/ row.state = "absent" \/ ~(FillsCarryCid \/ row.boid))
  <2> DEFINE st == IF row.filled + n >= Qty(c) THEN "filled" ELSE row.state
  <2>1. FoldExecution(c, row, n) = [row EXCEPT !.filled = row.filled + n, !.state = st]
    BY <1>2 DEF FoldExecution
  <2>2. st \in RowStates
    BY DEF Row, RowStates
  <2>3. row.filled + n \in Nat
    BY DEF Row
  <2> HIDE DEF st
  <2> QED BY <2>1, <2>2, <2>3 DEF Row
<1> QED BY <1>1, <1>2

LEMMA PolledType == ASSUME TypeOK, NeverOvercounted PROVE Polled \in [Cid -> Row]
<1> SUFFICES ASSUME NEW c \in Cid
             PROVE  FoldExecution(c, rows[c], venue[c].done - stored[c]) \in Row
  BY DEF Polled
<1>1. rows[c] \in Row /\ venue[c].done - stored[c] \in Nat
  BY DEF TypeOK, VenueOrder, NeverOvercounted
<1> QED BY <1>1, FoldType

LEMMA IdleType == IdlePass \in PassState
  BY DEF IdlePass, PassState, PassSteps, NoGates, Gates, NoSums, Sums

LEMMA BecomesType ==
  ASSUME pass \in [Passes -> PassState], NEW p \in Passes, NEW r \in PassState,
         Becomes(p, r)
  PROVE  pass' \in [Passes -> PassState]
  BY DEF Becomes

LEMMA GotoType ==
  ASSUME pass \in [Passes -> PassState], NEW p \in Passes, NEW step \in PassSteps,
         Goto(p, step)
  PROVE  pass' \in [Passes -> PassState]
<1>1. [pass[p] EXCEPT !.pc = step] \in PassState
  BY DEF PassState
<1> QED BY <1>1, BecomesType DEF Goto

LEMMA LeaveType ==
  ASSUME pass \in [Passes -> PassState], NEW p \in Passes, NEW step \in PassSteps,
         NEW c \in Cid \cup {<<>>}, Leave(p, step, c)
  PROVE  pass' \in [Passes -> PassState]
<1>1. NoGates \in Gates /\ NoSums \in Sums
  BY DEF NoGates, Gates, NoSums, Sums
<1>2. [pass[p] EXCEPT !.pc = step, !.gates = NoGates, !.model = NoSums, !.cid = c]
        \in PassState
  BY <1>1 DEF PassState
<1> QED BY <1>2, BecomesType DEF Leave

LEMMA AnsweredType ==
  ASSUME pass \in [Passes -> PassState], NEW p \in Passes, Answered(p)
  PROVE  pass' \in [Passes -> PassState]
<1>1. [pass[p] EXCEPT !.pc = "resting", !.cid = <<>>] \in PassState
  BY DEF PassState, PassSteps
<1> QED BY <1>1, BecomesType DEF Answered

LEMMA EndType ==
  ASSUME pass \in [Passes -> PassState], holder \subseteq Passes,
         NEW p \in Passes, End(p)
  PROVE  pass' \in [Passes -> PassState] /\ holder' \subseteq Passes
  BY IdleType, BecomesType DEF End

LEMMA RegateType ==
  ASSUME pass \in [Passes -> PassState], NEW p \in Passes,
         NEW rs \in [Cid -> Row], NEW b \in BOOLEAN, Regate(p, rs, b)
  PROVE  rows' \in [Cid -> Row] /\ pass' \in [Passes -> PassState]
<1>1. GatesOf(rs, pass[p].model) \in Gates
  BY GatesType
<1> HIDE DEF GatesOf
<1>2. [pass[p] EXCEPT !.pc = "fetching", !.pollOk = b,
                     !.gates = GatesOf(rs, pass[p].model)] \in PassState
  BY <1>1 DEF PassState, PassSteps
<1>3. pass' \in [Passes -> PassState]
  BY <1>2, BecomesType DEF Regate
<1>4. rows' \in [Cid -> Row]
  BY LiftedType DEF Regate
<1> QED BY <1>3, <1>4

LEMMA InitType == Init => TypeOK
<1> SUFFICES ASSUME Init PROVE TypeOK
  OBVIOUS
<1>1. rows \in [Cid -> Row]
  BY DEF Init, NoRow, Row, RowStates, Open
<1>2. pass \in [Passes -> PassState]
  BY IdleType DEF Init
<1>3. venue \in [Cid -> VenueOrder]
  BY DEF Init, VenueOrder
<1> QED BY <1>1, <1>2, <1>3, BoundsAssumption DEF Init, TypeOK

(* One step per action: each leaves every variable in its type. *)
LEMMA StepType == TypeOK /\ NeverOvercounted /\ [Next]_vars => TypeOK'
<1> SUFFICES ASSUME TypeOK, NeverOvercounted, [Next]_vars PROVE TypeOK'
  OBVIOUS
<1> USE DEF TypeOK
<1>1. ASSUME NEW p \in Passes, Gather(p) PROVE TypeOK'
  <2>1. rows' \in [Cid -> Row]
    BY <1>1, LiftedType DEF Gather
  <2>2. GatesOf(rows, sleeve) \in Gates /\ sleeve \in Sums
    BY GatesType DEF Sums
  <2>3. [pass[p] EXCEPT !.pc = "gathered", !.model = sleeve,
                       !.gates = GatesOf(rows, sleeve)] \in PassState
    BY <2>2 DEF PassState, PassSteps
  <2>4. pass' \in [Passes -> PassState]
    BY <1>1, <2>3, BecomesType DEF Gather
  <2> QED BY <1>1, <2>1, <2>4 DEF Gather
<1>2. ASSUME NEW p \in Passes, Acquire(p) PROVE TypeOK'
  <2>1. NoGates \in Gates /\ NoSums \in Sums
    BY DEF NoGates, Gates, NoSums, Sums
  <2>2. /\ [pass[p] EXCEPT !.pc = "fetching", !.late = TRUE, !.model = NoSums] \in PassState
        /\ [pass[p] EXCEPT !.pc = "polling", !.gates = NoGates] \in PassState
    BY <2>1 DEF PassState, PassSteps
  <2>3. pass' \in [Passes -> PassState]
    BY <1>2, <2>2, BecomesType DEF Acquire
  <2> QED BY <1>2, <2>3 DEF Acquire
<1>3. ASSUME NEW p \in Passes, PollAnswered(p) PROVE TypeOK'
  <2>1. stored' \in [Cid -> Nat]
    BY <1>3 DEF PollAnswered, StoreAll, VenueOrder
  <2>2. rows' \in [Cid -> Row] /\ pass' \in [Passes -> PassState]
    BY <1>3, PolledType, RegateType DEF PollAnswered
  <2> QED BY <1>3, <2>1, <2>2 DEF PollAnswered
<1>4. ASSUME NEW p \in Passes, PollUnanswered(p) PROVE TypeOK'
  <2>1. rows' \in [Cid -> Row] /\ pass' \in [Passes -> PassState]
    BY <1>4, RegateType DEF PollUnanswered
  <2> QED BY <1>4, <2>1 DEF PollUnanswered
<1>5. ASSUME NEW p \in Passes, FetchAnswered(p) PROVE TypeOK'
  <2>1. [pass[p] EXCEPT !.pc = "deciding",
                       !.listed = {c \in Cid : venue[c].at = "working"}] \in PassState
    BY DEF PassState, PassSteps
  <2>2. pass' \in [Passes -> PassState]
    BY <1>5, <2>1, BecomesType DEF FetchAnswered
  <2> QED BY <1>5, <2>2 DEF FetchAnswered
<1>6. ASSUME NEW p \in Passes, FetchUnanswered(p) PROVE TypeOK'
  BY <1>6, EndType DEF FetchUnanswered
<1>7. ASSUME NEW p \in Passes, NEW i \in Intents \ Resting, MarketDelta(p, i) PROVE TypeOK'
  <2>1. pass[p].gates.epoch \in Nat
    BY DEF PassState, Gates
  <2>2. <<i, pass[p].gates.epoch>> \in Cid
    BY <1>7, <2>1, BoundsAssumption DEF MarketDelta, Cid
  <2>3. pass' \in [Passes -> PassState]
    BY <1>7, <2>2, LeaveType DEF MarketDelta, PassSteps
  <2> QED BY <1>7, <2>3 DEF MarketDelta
<1>8. ASSUME NEW p \in Passes, NoDelta(p) PROVE TypeOK'
  <2>1. pass' \in [Passes -> PassState]
    BY <1>8, LeaveType DEF NoDelta, PassSteps
  <2> QED BY <1>8, <2>1 DEF NoDelta
<1>9. ASSUME NEW p \in Passes, NEW c \in Cid, PlaceResting(p, c) PROVE TypeOK'
  <2>1. [pass[p] EXCEPT !.pc = "before", !.cid = c] \in PassState
    BY DEF PassState, PassSteps
  <2>2. pass' \in [Passes -> PassState]
    BY <1>9, <2>1, BecomesType DEF PlaceResting
  <2> QED BY <1>9, <2>2 DEF PlaceResting
<1>10. ASSUME NEW p \in Passes, OrdersDone(p) PROVE TypeOK'
  <2>1. pass' \in [Passes -> PassState]
    BY <1>10, GotoType DEF OrdersDone, PassSteps
  <2> QED BY <1>10, <2>1 DEF OrdersDone
<1>11. ASSUME NEW p \in Passes, NEW c \in Cid, Cancel(p, c) PROVE TypeOK'
  <2>1. rows' \in [Cid -> Row]
    BY <1>11 DEF Cancel, MarkCanceled, Row, RowStates, Open
  <2>2. venue' \in [Cid -> VenueOrder]
    BY <1>11 DEF Cancel, VenueOrder
  <2> QED BY <1>11, <2>1, <2>2 DEF Cancel
<1>12. ASSUME NEW p \in Passes, NEW c \in Cid, CancelUnanswered(p, c) PROVE TypeOK'
  <2>1. venue' \in [Cid -> VenueOrder]
    BY <1>12 DEF CancelUnanswered, VenueOrder
  <2> QED BY <1>12, <2>1, EndType DEF CancelUnanswered
<1>13. ASSUME NEW p \in Passes, RecordSending(p) PROVE TypeOK'
  <2>1. pass' \in [Passes -> PassState]
    BY <1>13, GotoType, AnsweredType DEF RecordSending, PassSteps
  <2>2. [NoRow EXCEPT !.state = "sending"] \in Row
    BY DEF NoRow, Row, RowStates, Open
  <2>3. rows' \in [Cid -> Row]
    BY <1>13, <2>2 DEF RecordSending
  <2> QED BY <1>13, <2>1, <2>3, BoundsAssumption DEF RecordSending, Lapse
<1>14. ASSUME NEW p \in Passes, Submit(p) PROVE TypeOK'
  <2>1. pass' \in [Passes -> PassState] /\ holder' \subseteq Passes
    <3>1. CASE Goto(p, "acking") /\ UNCHANGED holder
      BY <3>1, GotoType DEF PassSteps
    <3>2. CASE Goto(p, "nacking") /\ UNCHANGED holder
      BY <3>2, GotoType DEF PassSteps
    <3>3. CASE End(p)
      BY <3>3, EndType
    <3> QED BY <1>14, <3>1, <3>2, <3>3 DEF Submit
  <2>2. venue' \in [Cid -> VenueOrder]
    <3> DEFINE c == pass[p].cid
    <3>1. \/ venue' = [venue EXCEPT ![c].at = "working"]
          \/ venue' = [venue EXCEPT ![c].at = "flight"]
          \/ venue' = venue
      BY <1>14 DEF Submit
    <3> HIDE DEF c
    <3> QED BY <3>1 DEF VenueOrder
  <2>3. wired' \in [Cid -> Nat]
    <3> DEFINE c == pass[p].cid
    <3>1. wired' = [wired EXCEPT ![c] = wired[c] + 1]
      BY <1>14 DEF Submit
    <3> HIDE DEF c
    <3>2. ASSUME NEW d \in Cid PROVE wired'[d] \in Nat
      <4>1. wired[d] \in Nat
        OBVIOUS
      <4>2. CASE d = c
        BY <3>1, <4>1, <4>2
      <4>3. CASE d # c
        BY <3>1, <4>1, <4>3
      <4> QED BY <4>2, <4>3
    <3> QED BY <3>1, <3>2
  <2> QED BY <1>14, <2>1, <2>2, <2>3 DEF Submit
<1>15. ASSUME NEW p \in Passes, MarkSubmitted(p) PROVE TypeOK'
  <2>1. \A c : AckStates(c) \subseteq RowStates
    BY DEF AckStates, RowStates, Open
  <2>2. \A c \in Cid : \A st \in RowStates : \A known \in {rows[c].boid, TRUE} :
          [rows[c] EXCEPT !.state = st, !.boid = known] \in Row
    BY DEF Row
  <2>4. rows' \in [Cid -> Row]
    <3> DEFINE c == pass[p].cid
    <3>1. CASE UNCHANGED rows
      BY <3>1
    <3>2. ASSUME NEW st \in AckStates(c), NEW known \in {rows[c].boid, TRUE},
                 rows' = [rows EXCEPT ![c] = [@ EXCEPT !.state = st, !.boid = known]]
          PROVE  rows' \in [Cid -> Row]
      <4>1. st \in RowStates
        BY <2>1
      <4> QED BY <3>2, <4>1, <2>2
    <3> QED BY <1>15, <3>1, <3>2 DEF MarkSubmitted
  <2>3. pass' \in [Passes -> PassState]
    BY <1>15, AnsweredType DEF MarkSubmitted
  <2>5. UNCHANGED <<venue, wired, stored, sleeve, holder, crashes>>
    BY <1>15 DEF MarkSubmitted
  <2>6. lapses' = lapses \/ (lapses < MaxLapses /\ lapses' = lapses + 1)
    BY <1>15, Zenon DEF MarkSubmitted, Lapse
  <2> QED BY <2>3, <2>4, <2>5, <2>6, BoundsAssumption
<1>16. ASSUME NEW p \in Passes, MarkRejected(p) PROVE TypeOK'
  <2>1. ASSUME NEW c \in Cid PROVE RejectedRow(c) \in Row
    BY DEF RejectedRow, Row, RowStates, Open
  <2>3. rows' \in [Cid -> Row]
    <3>1. UNCHANGED rows \/ \E c : rows' = [rows EXCEPT ![c] = RejectedRow(c)]
      BY <1>16 DEF MarkRejected
    <3> QED BY <2>1, <3>1
  <2>2. pass' \in [Passes -> PassState]
    BY <1>16, AnsweredType DEF MarkRejected
  <2> QED BY <1>16, <2>3, <2>2, BoundsAssumption DEF MarkRejected, Lapse
<1>17. ASSUME NEW p \in Passes, LatePollAnswered(p) PROVE TypeOK'
  <2>1. [pass[p] EXCEPT !.pc = "resolving", !.pollOk = TRUE] \in PassState
    BY DEF PassState, PassSteps
  <2>2. pass' \in [Passes -> PassState]
    BY <1>17, <2>1, BecomesType DEF LatePollAnswered
  <2>3. rows' \in [Cid -> Row] /\ stored' \in [Cid -> Nat]
    BY <1>17, PolledType DEF LatePollAnswered, StoreAll, VenueOrder
  <2> QED BY <1>17, <2>2, <2>3 DEF LatePollAnswered
<1>18. ASSUME NEW p \in Passes, LatePollUnanswered(p) PROVE TypeOK'
  <2>1. pass' \in [Passes -> PassState]
    BY <1>18, GotoType DEF LatePollUnanswered, PassSteps
  <2> QED BY <1>18, <2>1 DEF LatePollUnanswered
<1>19. ASSUME NEW p \in Passes, ResolveStale(p) PROVE TypeOK'
  <2>1. ASSUME NEW c \in Cid PROVE Resolved(p, c) \in Row
    <3>1. PICK row \in Row : row = rows[c]
      BY DEF TypeOK
    <3>2. /\ [row EXCEPT !.state = "open", !.boid = TRUE] \in Row
          /\ [row EXCEPT !.state = "abandoned", !.note = "text"] \in Row
      BY DEF Row, RowStates, Open
    <3> QED BY <3>1, <3>2 DEF Resolved, AbandonedRow
  <2> QED BY <1>19, EndType, <2>1 DEF ResolveStale
<1>20. ASSUME NEW p \in Passes, Crash(p) PROVE TypeOK'
  BY <1>20, EndType, BoundsAssumption DEF Crash
<1>21. ASSUME NEW c \in Cid, VenueStep(c) PROVE TypeOK'
  <2>1. venue' \in [Cid -> VenueOrder]
    <3>1. PICK v \in VenueOrder : v = venue[c]
      BY DEF TypeOK
    <3>2. CASE Arrive(c) \/ Close(c)
      <4>1. PICK at \in {"working", "unsent", "closed"} : venue' = [venue EXCEPT ![c].at = at]
        BY <3>2 DEF Arrive, Close
      <4>2. [v EXCEPT !.at = at] \in VenueOrder
        BY DEF VenueOrder
      <4> QED BY <3>1, <4>1, <4>2 DEF TypeOK
    <3>3. CASE Fill(c)
      <4>1. PICK at : at = IF v.done + 1 = Qty(c) THEN "filled" ELSE v.at
        OBVIOUS
      <4>2. venue' = [venue EXCEPT ![c].done = @ + 1, ![c].at = at]
        BY <3>1, <3>3, <4>1 DEF Fill, TypeOK, VenueOrder
      <4>3. PICK n \in Nat : n = v.done + 1
        BY DEF VenueOrder
      <4>4. [v EXCEPT !.done = n, !.at = at] \in VenueOrder
        BY <4>1 DEF VenueOrder
      <4>5. venue' = [venue EXCEPT ![c] = [v EXCEPT !.done = n, !.at = at]]
        BY <3>1, <4>2, <4>3 DEF TypeOK, VenueOrder
      <4> QED BY <4>4, <4>5 DEF TypeOK
    <3> QED BY <1>21, <3>2, <3>3 DEF VenueStep
  <2> QED BY <1>21, <2>1 DEF VenueStep, Arrive, Fill, Close
<1>22. ASSUME NEW c \in Cid, Age(c) PROVE TypeOK'
  <2>1. rows' \in [Cid -> Row]
    BY <1>22 DEF Age, Row
  <2> QED BY <1>22, <2>1 DEF Age
<1>23. CASE Tick
  BY <1>23 DEF Tick
<1>24. CASE UNCHANGED vars
  BY <1>24 DEF vars
<1> QED
  BY <1>1, <1>2, <1>3, <1>4, <1>5, <1>6, <1>7, <1>8, <1>9, <1>10, <1>11, <1>12, <1>13,
     <1>14, <1>15, <1>16, <1>17, <1>18, <1>19, <1>20, <1>21, <1>22, <1>23, <1>24
  DEF Next, SweepStep

-----------------------------------------------------------------------------
(* The ledger never runs ahead of the venue. *)

LEMMA LiftedFilled ==
  ASSUME NEW rs \in [Cid -> Row], NEW model, NEW c \in Cid
  PROVE  /\ Lifted(rs, model)[c].filled = rs[c].filled
         /\ Lifted(rs, model)[c].state = rs[c].state
  BY DEF Lifted, MarkFolded, Row

LEMMA PolledFilled ==
  ASSUME TypeOK, NeverOvercounted, NEW c \in Cid
  PROVE  Polled[c].filled <= venue[c].done
<1> DEFINE n == venue[c].done - stored[c]
<1>1. /\ rows[c] \in Row /\ n \in Nat
      /\ rows[c].filled + n <= venue[c].done /\ rows[c].filled <= venue[c].done
  BY DEF TypeOK, VenueOrder, NeverOvercounted, Row
<1>2. \/ FoldExecution(c, rows[c], n) = rows[c]
      \/ FoldExecution(c, rows[c], n).filled = rows[c].filled + n
  BY <1>1 DEF FoldExecution, Row
<1>3. Polled[c] = FoldExecution(c, rows[c], n)
  BY DEF Polled
<1> QED BY <1>1, <1>2, <1>3

LEMMA StepCounted == TypeOK /\ NeverOvercounted /\ [Next]_vars => NeverOvercounted'
<1> SUFFICES ASSUME TypeOK, NeverOvercounted, [Next]_vars, NEW c \in Cid
             PROVE  rows'[c].filled <= stored'[c] /\ stored'[c] <= venue'[c].done
  BY DEF NeverOvercounted
<1> DEFINE Kept == rows'[c].filled = rows[c].filled
<1>1. /\ rows[c].filled \in Nat /\ stored[c] \in Nat /\ venue[c].done \in Nat
      /\ rows[c].filled <= stored[c] /\ stored[c] <= venue[c].done
      /\ venue[c] \in VenueOrder /\ rows[c] \in Row
  BY DEF TypeOK, NeverOvercounted, Row, VenueOrder
<1>2. ASSUME Kept, UNCHANGED stored, venue'[c].done >= venue[c].done, venue'[c].done \in Nat
      PROVE  rows'[c].filled <= stored'[c] /\ stored'[c] <= venue'[c].done
  BY <1>1, <1>2
<1>3. ASSUME NEW p \in Passes, Gather(p) \/ PollUnanswered(p) PROVE Kept
  BY <1>3, LiftedFilled DEF Gather, PollUnanswered, Regate, TypeOK
<1>4. ASSUME NEW p \in Passes, PollAnswered(p) \/ LatePollAnswered(p)
      PROVE  rows'[c].filled <= stored'[c] /\ stored'[c] = venue[c].done /\ UNCHANGED venue
  <2>1. stored'[c] = venue[c].done /\ UNCHANGED venue
    BY <1>4 DEF PollAnswered, LatePollAnswered, StoreAll
  <2>2. rows'[c].filled = Polled[c].filled
    BY <1>4, PolledType, LiftedFilled DEF PollAnswered, LatePollAnswered, Regate
  <2> QED BY <2>1, <2>2, PolledFilled
<1>5. ASSUME NEW p \in Passes, RecordSending(p)
      PROVE  rows'[c].filled \in {0, rows[c].filled} /\ UNCHANGED <<stored, venue>>
  <2>1. NoRow.filled = 0 /\ [NoRow EXCEPT !.state = "sending"].filled = 0
    BY DEF NoRow
  <2> QED BY <1>5, <2>1 DEF RecordSending, TypeOK
<1>6. ASSUME NEW p \in Passes, NEW d \in Cid, Cancel(p, d) PROVE Kept
  BY <1>6, <1>1 DEF Cancel, MarkCanceled, TypeOK, Row
<1>7. ASSUME NEW p \in Passes, MarkSubmitted(p) PROVE Kept
  <2> DEFINE d == pass[p].cid
  <2>1. ASSUME NEW st, NEW known,
               rows' = [rows EXCEPT ![d] = [@ EXCEPT !.state = st, !.boid = known]]
        PROVE  Kept
    BY <2>1, <1>1 DEF TypeOK, Row
  <2>2. UNCHANGED rows \/ \E st \in AckStates(d), known \in {rows[d].boid, TRUE} :
                            rows' = [rows EXCEPT ![d] = [@ EXCEPT !.state = st, !.boid = known]]
    BY <1>7 DEF MarkSubmitted
  <2> QED BY <2>1, <2>2
<1>8. ASSUME NEW p \in Passes, MarkRejected(p) PROVE Kept
  <2>1. ASSUME NEW d, rows' = [rows EXCEPT ![d] = RejectedRow(d)]
        PROVE  Kept
    BY <2>1, <1>1 DEF RejectedRow, TypeOK, Row
  <2>2. UNCHANGED rows \/ \E d : rows' = [rows EXCEPT ![d] = RejectedRow(d)]
    BY <1>8 DEF MarkRejected
  <2> QED BY <2>1, <2>2
<1>9. ASSUME NEW p \in Passes, ResolveStale(p) PROVE Kept
  BY <1>9, <1>1 DEF ResolveStale, Resolved, AbandonedRow, Row
<1>10. ASSUME NEW d \in Cid, Age(d) PROVE Kept
  <2>1. PICK a : rows' = [rows EXCEPT ![d].age = a]
    BY <1>10 DEF Age
  <2> QED BY <2>1, <1>1 DEF TypeOK, Row
<1>11. ASSUME NEW p \in Passes, Submit(p)
       PROVE  venue'[c].done = venue[c].done /\ UNCHANGED <<rows, stored>>
  <2> DEFINE d == pass[p].cid
  <2>1. \/ venue' = [venue EXCEPT ![d].at = "working"]
        \/ venue' = [venue EXCEPT ![d].at = "flight"]
        \/ venue' = venue
    BY <1>11 DEF Submit
  <2> HIDE DEF d
  <2> QED BY <1>11, <2>1, <1>1 DEF Submit, TypeOK, VenueOrder
<1>12. ASSUME NEW p \in Passes, NEW d \in Cid, Cancel(p, d) \/ CancelUnanswered(p, d)
       PROVE  venue'[c].done = venue[c].done /\ UNCHANGED stored
  BY <1>12, <1>1 DEF Cancel, CancelUnanswered, TypeOK, VenueOrder
<1>13. ASSUME NEW d \in Cid, VenueStep(d)
       PROVE  /\ UNCHANGED <<rows, stored>>
              /\ venue'[c].done \in Nat /\ venue'[c].done >= venue[c].done
  BY <1>13, <1>1 DEF VenueStep, Arrive, Fill, Close, TypeOK, VenueOrder
<1> HIDE DEF Kept
<1>14. ASSUME UNCHANGED <<rows, stored, venue>>
       PROVE  rows'[c].filled <= stored'[c] /\ stored'[c] <= venue'[c].done
  BY <1>14, <1>1
<1>15. ASSUME Kept, UNCHANGED <<stored, venue>>
       PROVE  rows'[c].filled <= stored'[c] /\ stored'[c] <= venue'[c].done
  BY <1>15, <1>1 DEF Kept
<1>16. ASSUME NEW p \in Passes, SweepStep(p) \/ Crash(p)
       PROVE  rows'[c].filled <= stored'[c] /\ stored'[c] <= venue'[c].done
  <2>1. CASE Gather(p) \/ PollUnanswered(p)
    BY <2>1, <1>3, <1>15 DEF Gather, PollUnanswered
  <2>2. CASE PollAnswered(p) \/ LatePollAnswered(p)
    BY <2>2, <1>4, <1>1
  <2>3. CASE RecordSending(p)
    BY <2>3, <1>5, <1>1
  <2>4. CASE MarkSubmitted(p)
    BY <2>4, <1>7, <1>15 DEF MarkSubmitted
  <2>5. CASE MarkRejected(p)
    BY <2>5, <1>8, <1>15 DEF MarkRejected
  <2>6. CASE ResolveStale(p)
    BY <2>6, <1>9, <1>15 DEF ResolveStale
  <2>7. CASE Submit(p)
    BY <2>7, <1>11, <1>1
  <2>8. ASSUME NEW d \in Cid, Cancel(p, d)
        PROVE  rows'[c].filled <= stored'[c] /\ stored'[c] <= venue'[c].done
    BY <2>8, <1>6, <1>12, <1>1 DEF Kept
  <2>9. ASSUME NEW d \in Cid, CancelUnanswered(p, d)
        PROVE  rows'[c].filled <= stored'[c] /\ stored'[c] <= venue'[c].done
    BY <2>9, <1>12, <1>1 DEF CancelUnanswered
  <2>10. CASE \/ Acquire(p) \/ FetchAnswered(p) \/ FetchUnanswered(p) \/ NoDelta(p)
              \/ OrdersDone(p) \/ LatePollUnanswered(p) \/ Crash(p)
              \/ \E i \in Intents \ Resting : MarketDelta(p, i)
              \/ \E d \in Cid : PlaceResting(p, d)
    BY <2>10, <1>14 DEF Acquire, FetchAnswered, FetchUnanswered, NoDelta, OrdersDone,
         LatePollUnanswered, Crash, MarketDelta, PlaceResting
  <2> QED BY <1>16, <2>1, <2>2, <2>3, <2>4, <2>5, <2>6, <2>7, <2>8, <2>9, <2>10 DEF SweepStep
<1>17. ASSUME NEW d \in Cid, VenueStep(d) \/ Age(d)
       PROVE  rows'[c].filled <= stored'[c] /\ stored'[c] <= venue'[c].done
  <2>1. CASE VenueStep(d)
    BY <2>1, <1>13, <1>1
  <2>2. CASE Age(d)
    BY <2>2, <1>10, <1>15 DEF Age
  <2> QED BY <1>17, <2>1, <2>2
<1>18. CASE Tick
  BY <1>18, <1>14 DEF Tick
<1>19. CASE UNCHANGED vars
  BY <1>19, <1>14 DEF vars
<1> QED BY <1>16, <1>17, <1>18, <1>19 DEF Next

LEMMA InitCounted == Init => NeverOvercounted
  BY DEF Init, NeverOvercounted, NoRow

(* The types and the counts are invariant together: a poll folds what the  *)
(* venue did beyond what is stored, which is a number because the table    *)
(* never runs ahead of the venue.                                          *)
THEOREM TypesAndCounts == Spec => [](TypeOK /\ NeverOvercounted)
<1>1. Init => TypeOK /\ NeverOvercounted
  BY InitType, InitCounted
<1>2. TypeOK /\ NeverOvercounted /\ [Next]_vars => (TypeOK /\ NeverOvercounted)'
  BY StepType, StepCounted
<1> QED BY <1>1, <1>2, PTL DEF Spec

(* Every variable keeps its type: the sweeps, the table and the venue stay *)
(* in the states the code gives them.                                      *)
THEOREM TypeCorrect == Spec => []TypeOK
  BY TypesAndCounts, PTL

(* journal.fold_execution and the executions table never count more of an  *)
(* order than the venue traded, however polls, crashes and fills mix.      *)
THEOREM LedgerNeverOvercounts == Spec => []NeverOvercounted
  BY TypesAndCounts, PTL

-----------------------------------------------------------------------------
(* The duplicate gate.  The unique row is inserted before the wire call,   *)
(* so whoever is about to call has just inserted the row of a client id    *)
(* that was never sent, and no two sweeps can have inserted the same row.  *)

Sending(p) == At(p, "wire")

CidKnown ==
  \A p \in Passes :
    pass[p].pc \in {"before", "wire", "nacking", "acking"} => pass[p].cid \in Cid

AtTheWire ==
  lapses = 0 =>
    /\ \A p \in Passes : Sending(p) =>
         rows[pass[p].cid].state # "absent" /\ wired[pass[p].cid] = 0
    /\ \A p, q \in Passes :
         p # q /\ Sending(p) /\ Sending(q) => pass[p].cid # pass[q].cid

IInv == TypeOK /\ NeverOvercounted /\ CidKnown /\ AtTheWire /\ WrittenAhead /\ SentOnce

LEMMA PresentStays ==
  ASSUME TypeOK, NeverOvercounted, [Next]_vars, NEW c \in Cid, rows[c].state # "absent"
  PROVE  rows'[c].state # "absent"
<1>1. rows[c] \in Row
  BY DEF TypeOK
<1>2. ASSUME NEW p \in Passes, SweepStep(p) PROVE rows'[c].state # "absent"
  <2>1. CASE Gather(p) \/ PollUnanswered(p)
    BY <2>1, LiftedFilled DEF Gather, PollUnanswered, Regate, TypeOK
  <2>2. Polled[c].state # "absent"
    BY <1>1 DEF Polled, FoldExecution, Row
  <2>3. CASE PollAnswered(p) \/ LatePollAnswered(p)
    BY <2>3, <2>2, PolledType, LiftedFilled DEF PollAnswered, LatePollAnswered, Regate
  <2>4. CASE RecordSending(p)
    <3>1. [NoRow EXCEPT !.state = "sending"].state = "sending"
      BY DEF NoRow
    <3> QED BY <2>4, <3>1 DEF RecordSending, TypeOK
  <2>5. ASSUME NEW d \in Cid, Cancel(p, d) PROVE rows'[c].state # "absent"
    BY <2>5, <1>1 DEF Cancel, MarkCanceled, TypeOK, Row
  <2>6. CASE MarkSubmitted(p)
    <3> DEFINE d == pass[p].cid
    <3>1. ASSUME NEW st \in AckStates(d), NEW known \in {rows[d].boid, TRUE},
                 rows' = [rows EXCEPT ![d] = [@ EXCEPT !.state = st, !.boid = known]]
          PROVE  rows'[c].state # "absent"
      <4>1. st # "absent"
        BY DEF AckStates
      <4> QED BY <3>1, <4>1, <1>1 DEF TypeOK, Row
    <3>2. UNCHANGED rows \/ \E st \in AckStates(d), known \in {rows[d].boid, TRUE} :
                              rows' = [rows EXCEPT ![d] = [@ EXCEPT !.state = st, !.boid = known]]
      BY <2>6 DEF MarkSubmitted
    <3> QED BY <3>1, <3>2
  <2>7. CASE MarkRejected(p)
    <3>1. UNCHANGED rows \/ \E d : rows' = [rows EXCEPT ![d] = RejectedRow(d)]
      BY <2>7 DEF MarkRejected
    <3>2. rows \in [Cid -> Row]
      BY DEF TypeOK
    <3>3. RejectedRow(c).state = "rejected"
      BY <1>1 DEF RejectedRow, Row
    <3>4. ASSUME NEW d, rows' = [rows EXCEPT ![d] = RejectedRow(d)]
          PROVE  rows'[c] = rows[c] \/ rows'[c] = RejectedRow(c)
      BY <3>2, <3>4
    <3> QED BY <3>1, <3>3, <3>4
  <2>8. CASE ResolveStale(p)
    BY <2>8, <1>1 DEF ResolveStale, Resolved, AbandonedRow, Row
  <2>9. CASE UNCHANGED rows
    BY <2>9
  <2> QED
    BY <1>2, <2>1, <2>3, <2>4, <2>5, <2>6, <2>7, <2>8, <2>9
    DEF SweepStep, Acquire, FetchAnswered, FetchUnanswered, MarketDelta, NoDelta,
        PlaceResting, OrdersDone, CancelUnanswered, Submit, LatePollUnanswered
<1>3. ASSUME NEW d \in Cid, VenueStep(d) \/ Age(d) PROVE rows'[c].state # "absent"
  <2>1. CASE Age(d)
    <3>1. PICK a : rows' = [rows EXCEPT ![d].age = a]
      BY <2>1 DEF Age
    <3> QED BY <3>1, <1>1 DEF TypeOK, Row
  <2> QED BY <1>3, <2>1 DEF VenueStep, Arrive, Fill, Close
<1>4. CASE Tick \/ UNCHANGED vars \/ \E p \in Passes : Crash(p)
  BY <1>4 DEF Tick, Crash, vars
<1> QED BY <1>2, <1>3, <1>4 DEF Next

(* Four actions bring a sweep to a step that has a client id in hand; the  *)
(* others leave who is at such a step, and what was sent, as they were.    *)
Busy == {"before", "wire", "nacking", "acking"}

Quiet ==
  /\ UNCHANGED wired
  /\ \A q \in Passes : pass'[q].pc \in Busy => pass'[q] = pass[q]

LEMMA OtherSteps ==
  ASSUME TypeOK, [Next]_vars
  PROVE  \/ Quiet
         \/ \E p \in Passes : RecordSending(p) \/ Submit(p)
         \/ \E p \in Passes, i \in Intents \ Resting : MarketDelta(p, i)
         \/ \E p \in Passes, c \in Cid : PlaceResting(p, c)
<1> USE DEF Busy
<1>1. ASSUME NEW p \in Passes, NEW r, Becomes(p, r), r.pc \notin Busy
      PROVE  \A q \in Passes : pass'[q].pc \in Busy => pass'[q] = pass[q]
  BY <1>1 DEF Becomes, TypeOK
<1>2. ASSUME NEW p \in Passes, End(p)
      PROVE  \A q \in Passes : pass'[q].pc \in Busy => pass'[q] = pass[q]
  BY <1>1, <1>2 DEF End, IdlePass
<1>3. ASSUME NEW p \in Passes, NEW step, Goto(p, step), step \notin Busy
      PROVE  \A q \in Passes : pass'[q].pc \in Busy => pass'[q] = pass[q]
  <2>1. [pass[p] EXCEPT !.pc = step].pc = step
    BY DEF TypeOK, PassState
  <2> QED BY <1>1, <1>3, <2>1 DEF Goto
<1>4. ASSUME NEW p \in Passes, NEW step, NEW c, Leave(p, step, c), step \notin Busy
      PROVE  \A q \in Passes : pass'[q].pc \in Busy => pass'[q] = pass[q]
  <2>1. [pass[p] EXCEPT !.pc = step, !.gates = NoGates, !.model = NoSums, !.cid = c].pc = step
    BY DEF TypeOK, PassState
  <2> QED BY <1>1, <1>4, <2>1 DEF Leave
<1>5. ASSUME NEW p \in Passes, Answered(p)
      PROVE  \A q \in Passes : pass'[q].pc \in Busy => pass'[q] = pass[q]
  <2>1. [pass[p] EXCEPT !.pc = "resting", !.cid = <<>>].pc = "resting"
    BY DEF TypeOK, PassState
  <2> QED BY <1>1, <1>5, <2>1 DEF Answered
<1>6. ASSUME NEW p \in Passes, SweepStep(p), ~RecordSending(p), ~Submit(p),
             \A i \in Intents \ Resting : ~MarketDelta(p, i),
             \A c \in Cid : ~PlaceResting(p, c)
      PROVE  Quiet
  <2> DEFINE Still == \A q \in Passes : pass'[q].pc \in Busy => pass'[q] = pass[q]
  <2> USE DEF TypeOK, PassState
  <2>1. CASE Gather(p)
    <3>1. [pass[p] EXCEPT !.pc = "gathered", !.model = sleeve,
                         !.gates = GatesOf(rows, sleeve)].pc = "gathered"
      OBVIOUS
    <3> QED BY <2>1, <3>1, <1>1 DEF Gather, Quiet
  <2>2. CASE Acquire(p)
    <3>1. /\ [pass[p] EXCEPT !.pc = "fetching", !.late = TRUE, !.model = NoSums].pc \notin Busy
          /\ [pass[p] EXCEPT !.pc = "polling", !.gates = NoGates].pc \notin Busy
      OBVIOUS
    <3>2. PICK r : Becomes(p, r) /\ r.pc \notin Busy
      BY <2>2, <3>1 DEF Acquire
    <3> QED BY <2>2, <3>2, <1>1 DEF Acquire, Quiet
  <2>3. CASE PollAnswered(p) \/ PollUnanswered(p)
    <3>1. ASSUME NEW rs, NEW b, Regate(p, rs, b) PROVE Still
      <4>1. [pass[p] EXCEPT !.pc = "fetching", !.pollOk = b,
                           !.gates = GatesOf(rs, pass[p].model)].pc = "fetching"
        OBVIOUS
      <4> QED BY <3>1, <4>1, <1>1 DEF Regate
    <3> QED BY <2>3, <3>1 DEF PollAnswered, PollUnanswered, Quiet
  <2>4. CASE FetchAnswered(p)
    <3>1. [pass[p] EXCEPT !.pc = "deciding",
                         !.listed = {c \in Cid : venue[c].at = "working"}].pc = "deciding"
      OBVIOUS
    <3> QED BY <2>4, <3>1, <1>1 DEF FetchAnswered, Quiet
  <2>6. CASE LatePollAnswered(p)
    <3>1. [pass[p] EXCEPT !.pc = "resolving", !.pollOk = TRUE].pc = "resolving"
      OBVIOUS
    <3> QED BY <2>6, <3>1, <1>1 DEF LatePollAnswered, Quiet
  <2>7. CASE FetchUnanswered(p) \/ ResolveStale(p)
    BY <2>7, <1>2 DEF FetchUnanswered, ResolveStale, Quiet
  <2>8. ASSUME NEW c \in Cid, CancelUnanswered(p, c) PROVE Quiet
    BY <2>8, <1>2 DEF CancelUnanswered, Quiet
  <2>9. ASSUME NEW c \in Cid, Cancel(p, c) PROVE Quiet
    BY <2>9 DEF Cancel, Quiet
  <2>11. CASE NoDelta(p)
    BY <2>11, <1>4 DEF NoDelta, Quiet
  <2>12. CASE OrdersDone(p)
    BY <2>12, <1>3 DEF OrdersDone, Quiet
  <2>13. CASE LatePollUnanswered(p)
    BY <2>13, <1>3 DEF LatePollUnanswered, Quiet
  <2>14. CASE MarkSubmitted(p)
    BY <2>14, <1>5 DEF MarkSubmitted, Quiet
  <2>15. CASE MarkRejected(p)
    BY <2>15, <1>5 DEF MarkRejected, Quiet
  <2> QED BY <1>6, <2>1, <2>2, <2>3, <2>4, <2>6, <2>7, <2>8, <2>9, <2>11,
             <2>12, <2>13, <2>14, <2>15 DEF SweepStep
<1>7. ASSUME NEW p \in Passes, Crash(p) PROVE Quiet
  BY <1>7, <1>2 DEF Crash, Quiet
<1>8. ASSUME NEW c \in Cid, VenueStep(c) \/ Age(c) PROVE Quiet
  BY <1>8 DEF VenueStep, Arrive, Fill, Close, Age, Quiet
<1>9. CASE Tick \/ UNCHANGED vars
  BY <1>9 DEF Tick, vars, Quiet
<1> QED BY <1>6, <1>7, <1>8, <1>9 DEF Next

LEMMA StepCidKnown ==
  ASSUME TypeOK, CidKnown, [Next]_vars
  PROVE  CidKnown'
<1> USE DEF CidKnown, Busy
<1>1. CASE Quiet
  BY <1>1 DEF Quiet
<1>2. ASSUME NEW p \in Passes, NEW r, Becomes(p, r), r.pc \in Busy => r.cid \in Cid
      PROVE  CidKnown'
  BY <1>2 DEF Becomes, TypeOK
<1>3. ASSUME NEW p \in Passes, NEW step \in Busy, pass[p].pc \in Busy, Goto(p, step)
      PROVE  CidKnown'
  <2>1. [pass[p] EXCEPT !.pc = step].cid = pass[p].cid
    BY DEF TypeOK, PassState
  <2> QED BY <1>2, <1>3, <2>1 DEF Goto
<1>4. ASSUME NEW p \in Passes, Answered(p) \/ End(p) PROVE CidKnown'
  <2>1. [pass[p] EXCEPT !.pc = "resting", !.cid = <<>>].pc = "resting"
    BY DEF TypeOK, PassState
  <2>2. IdlePass.pc = "idle"
    BY DEF IdlePass
  <2> QED BY <1>2, <1>4, <2>1, <2>2 DEF Answered, End
<1>5. ASSUME NEW p \in Passes, RecordSending(p) \/ Submit(p) PROVE CidKnown'
  <2>1. pass[p].pc \in Busy
    BY <1>5 DEF RecordSending, Submit, At
  <2> QED BY <1>3, <1>4, <1>5, <2>1 DEF RecordSending, Submit
<1>6. ASSUME NEW p \in Passes, NEW i \in Intents \ Resting, MarketDelta(p, i) PROVE CidKnown'
  <2> DEFINE c == <<i, pass[p].gates.epoch>>
  <2>1. c \in Cid
    <3>1. pass[p].gates.epoch \in Nat
      BY DEF TypeOK, PassState, Gates
    <3> QED BY <1>6, <3>1, BoundsAssumption DEF MarketDelta, Cid
  <2> HIDE DEF c
  <2>2. [pass[p] EXCEPT !.pc = "before", !.gates = NoGates, !.model = NoSums, !.cid = c].cid = c
    BY DEF TypeOK, PassState
  <2>3. Leave(p, "before", c)
    BY <1>6 DEF MarketDelta, c
  <2> QED BY <1>2, <2>1, <2>2, <2>3 DEF Leave
<1>7. ASSUME NEW p \in Passes, NEW c \in Cid, PlaceResting(p, c) PROVE CidKnown'
  <2>1. [pass[p] EXCEPT !.pc = "before", !.cid = c].cid = c
    BY DEF TypeOK, PassState
  <2> QED BY <1>2, <1>7, <2>1 DEF PlaceResting
<1> QED BY <1>1, <1>5, <1>6, <1>7, OtherSteps

LEMMA StepLapses == TypeOK /\ [Next]_vars /\ lapses' = 0 => lapses = 0
<1> SUFFICES ASSUME TypeOK, [Next]_vars, lapses' = 0 PROVE lapses = 0
  OBVIOUS
<1>1. lapses \in Nat
  BY BoundsAssumption DEF TypeOK
<1>2. lapses' = lapses \/ lapses' = lapses + 1
  BY DEF Next, SweepStep, VenueStep, Gather, Acquire, PollAnswered, PollUnanswered,
     FetchAnswered, FetchUnanswered, MarketDelta, NoDelta, PlaceResting, OrdersDone, Cancel,
     CancelUnanswered, RecordSending, Submit, MarkSubmitted, MarkRejected, LatePollAnswered,
     LatePollUnanswered, ResolveStale, Crash, Tick, Age, Arrive, Fill, Close, Lapse, vars
<1> QED BY <1>1, <1>2

LEMMA StepGate ==
  ASSUME IInv, [Next]_vars
  PROVE  AtTheWire' /\ WrittenAhead' /\ SentOnce'
<1> SUFFICES ASSUME lapses' = 0
             PROVE  AtTheWire' /\ WrittenAhead' /\ SentOnce'
  BY DEF AtTheWire, WrittenAhead, SentOnce
<1>1. lapses = 0
  BY StepLapses DEF IInv
<1> USE DEF IInv
<1>2. \A c \in Cid : rows[c].state # "absent" => rows'[c].state # "absent"
  BY PresentStays
<1>3. CidKnown'
  BY StepCidKnown
<1>4. ASSUME UNCHANGED wired PROVE WrittenAhead' /\ SentOnce'
  BY <1>1, <1>2, <1>4 DEF WrittenAhead, SentOnce
<1>5. CASE Quiet
  <2>1. AtTheWire'
    BY <1>1, <1>2, <1>5 DEF Quiet, Busy, AtTheWire, Sending, At, CidKnown
  <2> QED BY <1>4, <1>5, <2>1 DEF Quiet
<1>6. ASSUME NEW p \in Passes, NEW r, Becomes(p, r), r.pc # "wire", UNCHANGED wired
      PROVE  AtTheWire'
  BY <1>1, <1>2, <1>6 DEF Becomes, TypeOK, AtTheWire, Sending, At, CidKnown
<1>7. ASSUME NEW p \in Passes, NEW i \in Intents \ Resting, MarketDelta(p, i)
      PROVE  AtTheWire' /\ WrittenAhead' /\ SentOnce'
  <2>1. \A c : [pass[p] EXCEPT !.pc = "before", !.gates = NoGates, !.model = NoSums,
                               !.cid = c].pc = "before"
    BY DEF TypeOK, PassState
  <2> QED BY <1>4, <1>6, <1>7, <2>1 DEF MarketDelta, Leave
<1>8. ASSUME NEW p \in Passes, NEW c \in Cid, PlaceResting(p, c)
      PROVE  AtTheWire' /\ WrittenAhead' /\ SentOnce'
  <2>1. [pass[p] EXCEPT !.pc = "before", !.cid = c].pc = "before"
    BY DEF TypeOK, PassState
  <2> QED BY <1>4, <1>6, <1>8, <2>1 DEF PlaceResting
<1>9. ASSUME NEW p \in Passes, RecordSending(p)
      PROVE  AtTheWire' /\ WrittenAhead' /\ SentOnce'
  <2> DEFINE c == pass[p].cid
  <2>1. c \in Cid /\ UNCHANGED wired
    BY <1>9 DEF RecordSending, At, CidKnown
  <2>2. CASE Answered(p)
    <3>1. [pass[p] EXCEPT !.pc = "resting", !.cid = <<>>].pc = "resting"
      BY DEF TypeOK, PassState
    <3> QED BY <1>4, <1>6, <2>1, <2>2, <3>1 DEF Answered
  <2>3. CASE MayInsert(c) /\ Goto(p, "wire")
               /\ rows' = [rows EXCEPT ![c] = [NoRow EXCEPT !.state = "sending"]]
    <3>1. rows[c].state = "absent" /\ wired[c] = 0
      BY <1>1, <2>1, <2>3 DEF MayInsert, WrittenAhead, TypeOK
    <3>2. rows'[c].state = "sending" /\ wired'[c] = 0
      BY <2>1, <2>3, <3>1 DEF NoRow, TypeOK
    <3>3. /\ [pass[p] EXCEPT !.pc = "wire"].cid = c
          /\ pass' = [pass EXCEPT ![p] = [pass[p] EXCEPT !.pc = "wire"]]
      BY <2>3 DEF TypeOK, PassState, Goto, Becomes
    <3>4. pass'[p].cid = c /\ \A q \in Passes : q # p => pass'[q] = pass[q]
      BY <3>3 DEF TypeOK
    <3>5. \A q \in Passes : q # p /\ Sending(q) => pass[q].cid # c
      BY <1>1, <3>1 DEF AtTheWire
    <3>6. AtTheWire'
      <4>1. ASSUME NEW q \in Passes, Sending(q)'
            PROVE  rows'[pass'[q].cid].state # "absent" /\ wired'[pass'[q].cid] = 0
        <5>1. CASE q = p
          BY <5>1, <3>2, <3>4
        <5>2. CASE q # p
          BY <1>1, <1>2, <2>1, <4>1, <5>2, <3>4 DEF AtTheWire, Sending, At, CidKnown
        <5> QED BY <5>1, <5>2
      <4>2. ASSUME NEW q1 \in Passes, NEW q2 \in Passes, q1 # q2, Sending(q1)', Sending(q2)'
            PROVE  pass'[q1].cid # pass'[q2].cid
        BY <1>1, <4>2, <3>4, <3>5 DEF AtTheWire, Sending, At
      <4> QED BY <4>1, <4>2 DEF AtTheWire
    <3> QED BY <1>4, <2>1, <3>6
  <2> QED BY <1>1, <1>9, <2>2, <2>3 DEF RecordSending, Lapse
<1>10. ASSUME NEW p \in Passes, Submit(p)
       PROVE  AtTheWire' /\ WrittenAhead' /\ SentOnce'
  <2> DEFINE c == pass[p].cid
  <2>1. c \in Cid /\ rows[c].state # "absent" /\ wired[c] = 0
    BY <1>1, <1>10 DEF Submit, At, Sending, CidKnown, AtTheWire
  <2>2. UNCHANGED rows /\ wired' = [wired EXCEPT ![c] = wired[c] + 1]
    BY <1>10 DEF Submit
  <2>3. wired'[c] = 1 /\ \A d \in Cid : d # c => wired'[d] = wired[d]
    BY <2>1, <2>2 DEF TypeOK
  <2>4. WrittenAhead' /\ SentOnce'
    BY <1>1, <2>1, <2>2, <2>3 DEF WrittenAhead, SentOnce
  <2>5. /\ [pass[p] EXCEPT !.pc = "acking"].pc # "wire"
        /\ [pass[p] EXCEPT !.pc = "nacking"].pc # "wire"
        /\ IdlePass.pc # "wire"
    BY DEF TypeOK, PassState, IdlePass
  <2>6. PICK r : pass' = [pass EXCEPT ![p] = r] /\ r.pc # "wire"
    BY <1>10, <2>5 DEF Submit, Goto, End, Becomes
  <2>7. \A q \in Passes : Sending(q)' => q # p /\ pass'[q] = pass[q] /\ Sending(q)
    BY <2>6 DEF TypeOK, Sending, At
  <2>8. AtTheWire'
    <3>1. \A q \in Passes : Sending(q)' => pass[q].cid # c /\ pass[q].cid \in Cid
      BY <1>1, <1>10, <2>7 DEF AtTheWire, Submit, Sending, At, CidKnown
    <3> QED BY <1>1, <2>2, <2>3, <2>7, <3>1 DEF AtTheWire
  <2> QED BY <2>4, <2>8
<1> QED BY <1>5, <1>7, <1>8, <1>9, <1>10, OtherSteps

LEMMA InitGate == Init => CidKnown /\ AtTheWire /\ WrittenAhead /\ SentOnce
  BY DEF Init, IdlePass, CidKnown, AtTheWire, Sending, At, WrittenAhead, SentOnce

(* The strengthening under which the duplicate gate is inductive.          *)
THEOREM Inductive == Spec => []IInv
<1>1. Init => IInv
  BY InitType, InitCounted, InitGate DEF IInv
<1>2. IInv /\ [Next]_vars => IInv'
  BY StepType, StepCounted, StepCidKnown, StepGate DEF IInv
<1> QED BY <1>1, <1>2, PTL DEF Spec

(* The duplicate gate of persistence.OrderJournal: while no journal write  *)
(* has failed, one intent at one epoch reaches the wire at most once, for  *)
(* any number of concurrent sweeps, crashes and lost connection locks.     *)
THEOREM DuplicateGate == Spec => []SentOnce
  BY Inductive, PTL DEF IInv

(* journal.record_sending comes first: while no journal write has failed,  *)
(* nothing was ever sent whose row is missing.                             *)
THEOREM WriteAhead == Spec => []WrittenAhead
  BY Inductive, PTL DEF IInv

-----------------------------------------------------------------------------
(* Outstanding orders.  What a step may do to a row, to an order and to a  *)
(* sweep is said once, and the invariants are proved from that.            *)

InHand == {"wire", "nacking", "acking"}
Fetched == {"deciding", "before", "wire", "nacking", "acking", "resting", "latepoll",
            "resolving"}

Folds(c) ==
  /\ \E p \in Passes : At(p, "polling") \/ At(p, "latepoll")
  /\ rows'[c].state = "filled" /\ rows'[c].age = rows[c].age
  /\ stored[c] < venue[c].done /\ Qty(c) <= venue[c].done /\ UNCHANGED venue
Inserts(c) ==
  rows[c].state = "absent" /\ rows'[c].state = "sending" /\ rows'[c].age = "fresh"
Cancels(c) ==
  /\ rows[c].state \in Open /\ rows'[c].state = "canceled"
  /\ \E p \in Passes : pass[p].pc \in {"deciding", "resting"} /\ c \in pass[p].listed
  /\ venue'[c].at = "closed" \/ CancelSwallowed
Acks(c) ==
  /\ \E p \in Passes : At(p, "acking") /\ At(p, "resting")' /\ pass[p].cid = c
  /\ rows'[c].state \in AckStates(c) /\ UNCHANGED venue
Nacks(c) ==
  /\ \E p \in Passes : At(p, "nacking") /\ At(p, "resting")' /\ pass[p].cid = c
  /\ rows'[c].state = "rejected" /\ UNCHANGED venue
Resolves(c) ==
  /\ Stale(c) /\ UNCHANGED venue
  /\ \E p \in Passes :
       /\ At(p, "resolving")
       /\ \/ rows'[c].state = "open"
          \/ /\ rows'[c].state = "abandoned" /\ rows[c].age = "old"
             /\ c \notin pass[p].listed
Ages(c) ==
  /\ rows[c].state = "sending" /\ rows'[c].state = "sending" /\ UNCHANGED <<venue, pass>>
  /\ \/ /\ rows'[c].age = "suspect" /\ venue[c].at # "flight"
        /\ \A p \in Passes : At(p, "wire") => pass[p].cid # c
     \/ /\ rows[c].age = "suspect" /\ rows'[c].age = "old"
        /\ \A p \in Passes : pass[p].pc \in {"idle", "gathered"}

RowEffect(c) ==
  \/ rows'[c].state = rows[c].state /\ rows'[c].age = rows[c].age
  \/ Folds(c) \/ Inserts(c) \/ Cancels(c) \/ Acks(c) \/ Nacks(c) \/ Resolves(c) \/ Ages(c)

LEMMA LiftedKeeps ==
  ASSUME NEW rs \in [Cid -> Row], NEW model, NEW c \in Cid
  PROVE  Lifted(rs, model)[c].state = rs[c].state /\ Lifted(rs, model)[c].age = rs[c].age
  BY DEF Lifted, MarkFolded, Row

LEMMA PolledEffect ==
  ASSUME TypeOK, NeverOvercounted, NEW c \in Cid
  PROVE  /\ Polled[c].age = rows[c].age
         /\ \/ Polled[c].state = rows[c].state
            \/ /\ Polled[c].state = "filled"
               /\ stored[c] < venue[c].done /\ Qty(c) <= venue[c].done
<1> DEFINE n == venue[c].done - stored[c]
<1>1. /\ rows[c] \in Row /\ n \in Nat /\ stored[c] \in Nat /\ venue[c].done \in Nat
      /\ rows[c].filled \in Nat /\ rows[c].filled + n <= venue[c].done
  BY DEF TypeOK, VenueOrder, NeverOvercounted, Row
<1>2. Qty(c) \in Nat
  BY QtyType
<1>3. Polled[c] = FoldExecution(c, rows[c], n)
  BY DEF Polled
<1>4. CASE n = 0 \/ rows[c].state = "absent" \/ ~(FillsCarryCid \/ rows[c].boid)
  BY <1>3, <1>4 DEF FoldExecution
<1>5. CASE ~(n = 0 \/ rows[c].state = "absent" \/ ~(FillsCarryCid \/ rows[c].boid))
  <2> DEFINE st == IF rows[c].filled + n >= Qty(c) THEN "filled" ELSE rows[c].state
  <2>1. Polled[c] = [rows[c] EXCEPT !.filled = rows[c].filled + n, !.state = st]
    BY <1>3, <1>5 DEF FoldExecution
  <2>2. st = rows[c].state \/ (st = "filled" /\ Qty(c) <= venue[c].done)
    BY <1>1, <1>2
  <2>3. stored[c] < venue[c].done
    BY <1>1, <1>5
  <2> HIDE DEF n, st
  <2> QED BY <1>1, <2>1, <2>2, <2>3 DEF Row
<1> QED BY <1>4, <1>5

LEMMA RowEffects ==
  ASSUME TypeOK, NeverOvercounted, [Next]_vars, NEW c \in Cid
  PROVE  RowEffect(c)
<1>1. rows[c] \in Row
  BY DEF TypeOK
<1>2. ASSUME NEW p \in Passes, Answered(p) PROVE At(p, "resting")'
  <2> DEFINE r == [pass[p] EXCEPT !.pc = "resting", !.cid = <<>>]
  <2>1. r.pc = "resting" /\ Becomes(p, r)
    BY <1>2 DEF Answered, TypeOK, PassState
  <2> HIDE DEF r
  <2> QED BY <2>1 DEF Becomes, At, TypeOK
<1>3. ASSUME NEW p \in Passes, SweepStep(p) PROVE RowEffect(c)
  <2>1. CASE Gather(p) \/ PollUnanswered(p)
    <3>1. rows'[c].state = rows[c].state /\ rows'[c].age = rows[c].age
      BY <2>1, LiftedKeeps DEF Gather, PollUnanswered, Regate, TypeOK
    <3> QED BY <3>1 DEF RowEffect
  <2>3. CASE PollAnswered(p) \/ LatePollAnswered(p)
    <3>1. rows'[c].state = Polled[c].state /\ rows'[c].age = Polled[c].age
      BY <2>3, PolledType, LiftedKeeps DEF PollAnswered, LatePollAnswered, Regate
    <3>2. UNCHANGED venue /\ (At(p, "polling") \/ At(p, "latepoll"))
      BY <2>3 DEF PollAnswered, LatePollAnswered
    <3> QED BY <3>1, <3>2, PolledEffect DEF RowEffect, Folds
  <2>4. CASE RecordSending(p)
    <3>1. /\ [NoRow EXCEPT !.state = "sending"].state = "sending"
          /\ [NoRow EXCEPT !.state = "sending"].age = "fresh"
      BY DEF NoRow
    <3>2. rows'[c] = rows[c] \/ Inserts(c)
      BY <2>4, <3>1 DEF RecordSending, MayInsert, Inserts, TypeOK
    <3> QED BY <3>2 DEF RowEffect
  <2>5. ASSUME NEW d \in Cid, Cancel(p, d) PROVE RowEffect(c)
    <3>1. CASE c # d
      BY <2>5, <3>1 DEF Cancel, MarkCanceled, TypeOK, RowEffect
    <3>2. CASE c = d /\ rows[c].state \in Open
      <4>1. rows'[c].state = "canceled"
        BY <1>1, <2>5, <3>2 DEF Cancel, MarkCanceled, TypeOK, Row
      <4>2. venue'[c].at = "closed" \/ CancelSwallowed
        BY <2>5, <3>2 DEF Cancel, TypeOK, VenueOrder
      <4> QED BY <2>5, <3>2, <4>1, <4>2 DEF Cancel, MayCancel, Cancels, RowEffect
    <3>3. CASE c = d /\ rows[c].state \notin Open
      BY <2>5, <3>3 DEF Cancel, MarkCanceled, RowEffect
    <3> QED BY <3>1, <3>2, <3>3
  <2>6. CASE MarkSubmitted(p)
    <3> DEFINE d == pass[p].cid
    <3>1. ASSUME NEW st \in AckStates(d), NEW known \in {rows[d].boid, TRUE},
                 rows' = [rows EXCEPT ![d] = [@ EXCEPT !.state = st, !.boid = known]]
          PROVE  RowEffect(c)
      <4>1. CASE c # d
        BY <3>1, <4>1 DEF TypeOK, RowEffect
      <4>2. CASE c = d
        <5>1. rows'[c].state = st
          BY <1>1, <3>1, <4>2 DEF TypeOK, Row
        <5> QED BY <1>2, <2>6, <3>1, <4>2, <5>1 DEF MarkSubmitted, Acks, RowEffect
      <4> QED BY <4>1, <4>2
    <3>2. UNCHANGED rows \/ \E st \in AckStates(d), known \in {rows[d].boid, TRUE} :
                              rows' = [rows EXCEPT ![d] = [@ EXCEPT !.state = st, !.boid = known]]
      BY <2>6 DEF MarkSubmitted
    <3> QED BY <3>1, <3>2 DEF RowEffect
  <2>7. CASE MarkRejected(p)
    <3> DEFINE d == pass[p].cid
    <3>1. UNCHANGED rows \/ rows' = [rows EXCEPT ![d] = RejectedRow(d)]
      BY <2>7 DEF MarkRejected
    <3>2. CASE rows'[c] = rows[c]
      BY <3>2 DEF RowEffect
    <3>3. CASE rows' = [rows EXCEPT ![d] = RejectedRow(d)] /\ c = d
      <4>1. rows'[c].state = "rejected"
        BY <1>1, <3>3 DEF RejectedRow, TypeOK, Row
      <4> QED BY <1>2, <2>7, <3>3, <4>1 DEF MarkRejected, Nacks, RowEffect
    <3> QED BY <3>1, <3>2, <3>3 DEF TypeOK
  <2>8. CASE ResolveStale(p)
    <3>1. rows'[c] = Resolved(p, c) /\ UNCHANGED venue /\ At(p, "resolving")
      BY <2>8 DEF ResolveStale
    <3>2. CASE Stale(c) /\ c \in pass[p].listed
      <4>1. rows'[c].state = "open"
        BY <1>1, <3>1, <3>2 DEF Resolved, Absent, Row
      <4> QED BY <3>1, <3>2, <4>1 DEF Resolves, RowEffect
    <3>3. CASE Stale(c) /\ c \notin pass[p].listed /\ Absent(p, c)
      <4>1. rows'[c].state = "abandoned"
        BY <1>1, <3>1, <3>3 DEF Resolved, AbandonedRow, Row
      <4> QED BY <3>1, <3>3, <4>1 DEF Absent, Resolves, RowEffect
    <3>4. CASE rows'[c] = rows[c]
      BY <3>4 DEF RowEffect
    <3> QED BY <3>1, <3>2, <3>3, <3>4 DEF Resolved, Absent
  <2>9. CASE UNCHANGED rows
    BY <2>9 DEF RowEffect
  <2> QED
    BY <1>3, <2>1, <2>3, <2>4, <2>5, <2>6, <2>7, <2>8, <2>9
    DEF SweepStep, Acquire, FetchAnswered, FetchUnanswered, MarketDelta, NoDelta,
        PlaceResting, OrdersDone, CancelUnanswered, Submit, LatePollUnanswered
<1>4. ASSUME NEW d \in Cid, VenueStep(d) \/ Age(d) PROVE RowEffect(c)
  <2>1. CASE Age(d) /\ c = d
    <3>1. ASSUME NEW a, rows' = [rows EXCEPT ![d].age = a]
          PROVE  rows'[c].age = a /\ rows'[c].state = rows[c].state
      BY <1>1, <2>1, <3>1 DEF TypeOK, Row
    <3> QED BY <2>1, <3>1 DEF Age, Ages, RowEffect
  <2>2. CASE Age(d) /\ c # d
    BY <2>2 DEF Age, TypeOK, RowEffect
  <2> QED BY <1>4, <2>1, <2>2 DEF VenueStep, Arrive, Fill, Close, RowEffect
<1>5. CASE Tick \/ UNCHANGED vars \/ \E p \in Passes : Crash(p)
  BY <1>5 DEF Tick, Crash, vars, RowEffect
<1> QED BY <1>3, <1>4, <1>5 DEF Next

(* The same for an order at the venue, and for a sweep. *)
Sent(c) ==
  /\ \E p \in Passes : At(p, "wire") /\ pass[p].cid = c
  /\ venue[c].at = "unsent" /\ venue'[c].at \in {"working", "flight"}
  /\ venue'[c].done = venue[c].done /\ wired'[c] > 0 /\ UNCHANGED rows
Arrives(c) ==
  /\ venue[c].at = "flight" /\ venue'[c].at \in {"working", "unsent"}
  /\ venue'[c].done = venue[c].done
Trades(c) ==
  /\ venue[c].at = "working" /\ venue'[c].done = venue[c].done + 1
  /\ venue'[c].at = IF venue[c].done + 1 = Qty(c) THEN "filled" ELSE "working"

VenueEffect(c) ==
  \/ venue'[c] = venue[c]
  \/ venue[c].at = "working" /\ venue'[c].at = "closed"
  \/ Sent(c) \/ Arrives(c) \/ Trades(c)

Moves(p) ==
  /\ pass'[p].listed = pass[p].listed /\ pass'[p].pc \notin InHand
  /\ pass'[p].pc \in Fetched => pass[p].pc \in Fetched
Fetches(p) ==
  /\ pass'[p].pc = "deciding" /\ UNCHANGED <<rows, venue>>
  /\ pass'[p].listed = {c \in Cid : venue[c].at = "working"}
Records(p) ==
  /\ At(p, "before") /\ pass'[p].pc = "wire" /\ UNCHANGED <<venue, wired>>
  /\ pass'[p].cid = pass[p].cid /\ pass'[p].listed = pass[p].listed
  /\ lapses' = 0 => rows'[pass[p].cid].state = "sending" /\ rows'[pass[p].cid].age = "fresh"
Sends(p) ==
  /\ At(p, "wire") /\ pass'[p].pc \in {"acking", "nacking"} /\ UNCHANGED rows
  /\ pass'[p].cid = pass[p].cid /\ pass'[p].listed = pass[p].listed
  /\ wired'[pass[p].cid] > 0 /\ (pass'[p].pc = "nacking" => UNCHANGED venue)

PassEffect(p) ==
  \/ pass'[p] = pass[p] \/ pass'[p] = IdlePass
  \/ Moves(p) \/ Fetches(p) \/ Records(p) \/ Sends(p)

LEMMA WiredGrows ==
  ASSUME TypeOK, CidKnown, [Next]_vars, NEW c \in Cid
  PROVE  wired'[c] >= wired[c]
<1>1. wired[c] \in Nat
  BY DEF TypeOK
<1>2. ASSUME NEW p \in Passes, Submit(p) PROVE wired'[c] >= wired[c]
  <2> DEFINE d == pass[p].cid
  <2>1. wired' = [wired EXCEPT ![d] = wired[d] + 1]
    BY <1>2 DEF Submit
  <2> HIDE DEF d
  <2> QED BY <1>1, <2>1 DEF TypeOK
<1>3. CASE UNCHANGED wired
  BY <1>1, <1>3
<1> QED
  BY <1>2, <1>3
  DEF Next, SweepStep, VenueStep, vars, Gather, Acquire, PollAnswered, PollUnanswered,
      FetchAnswered, FetchUnanswered, MarketDelta, NoDelta, PlaceResting, OrdersDone, Cancel,
      CancelUnanswered, RecordSending, MarkSubmitted, MarkRejected, LatePollAnswered,
      LatePollUnanswered, ResolveStale, Crash, Arrive, Fill, Close, Age, Tick

LEMMA VenueEffects ==
  ASSUME TypeOK, CidKnown, [Next]_vars, NEW c \in Cid
  PROVE  VenueEffect(c)
<1>1. venue[c] \in VenueOrder /\ wired[c] \in Nat
  BY DEF TypeOK
<1>2. ASSUME NEW p \in Passes, Submit(p) PROVE VenueEffect(c)
  <2> DEFINE d == pass[p].cid
  <2>1. /\ At(p, "wire") /\ UNCHANGED rows /\ wired' = [wired EXCEPT ![d] = wired[d] + 1]
        /\ \/ UNCHANGED venue
           \/ /\ venue[d].at = "unsent"
              /\ \/ venue' = [venue EXCEPT ![d].at = "working"]
                 \/ venue' = [venue EXCEPT ![d].at = "flight"]
    BY <1>2 DEF Submit
  <2>2. CASE UNCHANGED venue \/ c # d
    BY <2>1, <2>2 DEF TypeOK, VenueEffect
  <2>3. CASE ~UNCHANGED venue /\ c = d
    <3>1. /\ venue'[c].at \in {"working", "flight"} /\ venue'[c].done = venue[c].done
          /\ venue[c].at = "unsent"
      BY <1>1, <2>1, <2>3 DEF TypeOK, VenueOrder
    <3>2. wired'[c] > 0
      BY <1>1, <2>1, <2>3 DEF TypeOK
    <3> QED BY <2>1, <2>3, <3>1, <3>2 DEF Sent, VenueEffect
  <2> QED BY <2>2, <2>3
<1>3. ASSUME NEW p \in Passes, NEW d \in Cid, Cancel(p, d) \/ CancelUnanswered(p, d)
      PROVE  VenueEffect(c)
  <2>1. \/ UNCHANGED venue
        \/ /\ venue[d].at = "working"
           /\ \/ venue' = [venue EXCEPT ![d].at = "closed"]
              \/ venue' = [venue EXCEPT ![d].at = "working"]
    BY <1>3 DEF Cancel, CancelUnanswered
  <2> QED BY <1>1, <2>1 DEF TypeOK, VenueOrder, VenueEffect
<1>4. ASSUME NEW d \in Cid, VenueStep(d) PROVE VenueEffect(c)
  <2>1. CASE Arrive(d)
    BY <1>1, <2>1 DEF Arrive, Arrives, TypeOK, VenueOrder, VenueEffect
  <2>2. CASE Fill(d)
    <3> DEFINE at == IF venue[d].done + 1 = Qty(d) THEN "filled" ELSE "working"
    <3>1. venue[d].at = "working" /\ venue[d] \in VenueOrder
      BY <2>2 DEF Fill, TypeOK
    <3>2. PICK v : v = [venue EXCEPT ![d].done = venue[d].done + 1]
      OBVIOUS
    <3>3. v[d].done = venue[d].done + 1 /\ v \in [Cid -> VenueOrder] /\ v[d].at = "working"
          /\ (c # d => v[c] = venue[c])
      BY <3>1, <3>2 DEF TypeOK, VenueOrder
    <3>4. venue' = [v EXCEPT ![d].at = at]
      BY <2>2, <3>1, <3>2, <3>3 DEF Fill
    <3> HIDE DEF at
    <3>5. venue'[d].done = v[d].done /\ venue'[d].at = at /\ (c # d => venue'[c] = v[c])
      BY <3>3, <3>4 DEF VenueOrder
    <3>6. CASE c = d
      BY <3>1, <3>6, <3>3, <3>5 DEF at, Trades, VenueEffect
    <3>7. CASE c # d
      BY <3>7, <3>3, <3>5 DEF VenueEffect
    <3> QED BY <3>6, <3>7
  <2>3. CASE Close(d)
    BY <1>1, <2>3 DEF Close, TypeOK, VenueOrder, VenueEffect
  <2> QED BY <1>4, <2>1, <2>2, <2>3 DEF VenueStep
<1>5. CASE UNCHANGED venue
  BY <1>5 DEF VenueEffect
<1> QED
  BY <1>2, <1>3, <1>4, <1>5
  DEF Next, SweepStep, vars, Gather, Acquire, PollAnswered, PollUnanswered,
      FetchAnswered, FetchUnanswered, MarketDelta, NoDelta, PlaceResting, OrdersDone,
      RecordSending, MarkSubmitted, MarkRejected, LatePollAnswered,
      LatePollUnanswered, ResolveStale, Crash, Age, Tick

LEMMA PassEffects ==
  ASSUME TypeOK, CidKnown, [Next]_vars, NEW q \in Passes
  PROVE  PassEffect(q)
<1> USE DEF InHand, Fetched
<1>1. ASSUME NEW p \in Passes, NEW r, Becomes(p, r)
      PROVE  pass'[p] = r /\ (q # p => pass'[q] = pass[q])
  BY <1>1 DEF TypeOK, Becomes
<1>2. ASSUME NEW p \in Passes, pass[p] \in PassState, NEW r, Becomes(p, r),
             r.listed = pass[p].listed, r.pc \notin InHand,
             r.pc \in Fetched => pass[p].pc \in Fetched
      PROVE  PassEffect(q)
  BY <1>1, <1>2 DEF Moves, PassEffect
<1>3. ASSUME NEW p \in Passes, End(p) PROVE PassEffect(q)
  BY <1>1, <1>3 DEF End, PassEffect
<1>4. ASSUME NEW p \in Passes PROVE pass[p] \in PassState
  BY DEF TypeOK
<1>5. ASSUME NEW p \in Passes, NEW step \in PassSteps \ InHand, Goto(p, step),
             step \in Fetched => pass[p].pc \in Fetched
      PROVE  PassEffect(q)
  BY <1>2, <1>4, <1>5 DEF Goto, PassState
<1>6. ASSUME NEW p \in Passes, NEW c, NEW step \in PassSteps \ InHand, Leave(p, step, c),
             step \in Fetched => pass[p].pc \in Fetched
      PROVE  PassEffect(q)
  <2> DEFINE r == [pass[p] EXCEPT !.pc = step, !.gates = NoGates, !.model = NoSums, !.cid = c]
  <2>1. r.pc = step /\ r.listed = pass[p].listed /\ Becomes(p, r)
    BY <1>4, <1>6 DEF Leave, PassState
  <2> HIDE DEF r
  <2> QED BY <1>2, <1>4, <1>6, <2>1
<1>7. ASSUME NEW p \in Passes, Answered(p), pass[p].pc \in Fetched PROVE PassEffect(q)
  <2> DEFINE r == [pass[p] EXCEPT !.pc = "resting", !.cid = <<>>]
  <2>1. r.pc = "resting" /\ r.listed = pass[p].listed /\ Becomes(p, r)
    BY <1>4, <1>7 DEF Answered, PassState
  <2> HIDE DEF r
  <2> QED BY <1>2, <1>4, <1>7, <2>1
<1>8. ASSUME NEW p \in Passes, SweepStep(p) PROVE PassEffect(q)
  <2>1. CASE Gather(p)
    <3> DEFINE r == [pass[p] EXCEPT !.pc = "gathered", !.model = sleeve,
                                    !.gates = GatesOf(rows, sleeve)]
    <3>1. r.pc = "gathered" /\ r.listed = pass[p].listed /\ Becomes(p, r)
      BY <1>4, <2>1 DEF Gather, PassState
    <3> HIDE DEF r
    <3> QED BY <1>2, <1>4, <3>1
  <2>2. CASE Acquire(p)
    <3>1. PICK r : r.pc \in {"fetching", "polling"} /\ r.listed = pass[p].listed /\ Becomes(p, r)
      <4>1. /\ [pass[p] EXCEPT !.pc = "fetching", !.late = TRUE, !.model = NoSums].pc = "fetching"
            /\ [pass[p] EXCEPT !.pc = "fetching", !.late = TRUE, !.model = NoSums].listed
                 = pass[p].listed
            /\ [pass[p] EXCEPT !.pc = "polling", !.gates = NoGates].pc = "polling"
            /\ [pass[p] EXCEPT !.pc = "polling", !.gates = NoGates].listed = pass[p].listed
        BY <1>4 DEF PassState
      <4> QED BY <2>2, <4>1 DEF Acquire
    <3> QED BY <1>2, <1>4, <3>1
  <2>3. ASSUME NEW rs, NEW b, Regate(p, rs, b) PROVE PassEffect(q)
    <3> DEFINE r == [pass[p] EXCEPT !.pc = "fetching", !.pollOk = b,
                                    !.gates = GatesOf(rs, pass[p].model)]
    <3>1. r.pc = "fetching" /\ r.listed = pass[p].listed /\ Becomes(p, r)
      BY <1>4, <2>3 DEF Regate, PassState
    <3> HIDE DEF r
    <3> QED BY <1>2, <1>4, <3>1
  <2>4. CASE FetchAnswered(p)
    <3> DEFINE r == [pass[p] EXCEPT !.pc = "deciding",
                                    !.listed = {c \in Cid : venue[c].at = "working"}]
    <3>1. /\ r.pc = "deciding" /\ r.listed = {c \in Cid : venue[c].at = "working"}
          /\ Becomes(p, r) /\ UNCHANGED <<rows, venue>>
      BY <1>4, <2>4 DEF FetchAnswered, PassState
    <3> HIDE DEF r
    <3> QED BY <1>1, <3>1 DEF Fetches, PassEffect
  <2>5. ASSUME NEW c \in Cid, PlaceResting(p, c) PROVE PassEffect(q)
    <3> DEFINE r == [pass[p] EXCEPT !.pc = "before", !.cid = c]
    <3>1. r.pc = "before" /\ r.listed = pass[p].listed /\ Becomes(p, r) /\ At(p, "resting")
      BY <1>4, <2>5 DEF PlaceResting, PassState
    <3> HIDE DEF r
    <3> QED BY <1>2, <1>4, <3>1 DEF At
  <2>6. CASE RecordSending(p)
    <3> DEFINE c == pass[p].cid
    <3>1. CASE Answered(p)
      BY <1>7, <2>6, <3>1 DEF RecordSending, At
    <3>2. CASE Goto(p, "wire")
      <4> DEFINE r == [pass[p] EXCEPT !.pc = "wire"]
      <4>1. r.pc = "wire" /\ r.cid = c /\ r.listed = pass[p].listed /\ Becomes(p, r)
        BY <1>4, <3>2 DEF Goto, PassState
      <4> HIDE DEF r
      <4>2. At(p, "before") /\ UNCHANGED <<venue, wired>> /\ c \in Cid
        BY <2>6 DEF RecordSending, At, CidKnown
      <4>3. lapses' = 0 => rows'[c].state = "sending" /\ rows'[c].age = "fresh"
        <5>1. lapses \in Nat
          BY BoundsAssumption DEF TypeOK
        <5> DEFINE s == [NoRow EXCEPT !.state = "sending"]
        <5>2. rows' = [rows EXCEPT ![c] = s] \/ Answered(p) \/ lapses' = lapses + 1
          BY <2>6 DEF RecordSending, Lapse
        <5>3. lapses' = lapses + 1 => lapses' # 0
          BY <5>1
        <5>4. ASSUME Answered(p) PROVE FALSE
          <6> DEFINE a == [pass[p] EXCEPT !.pc = "resting", !.cid = <<>>]
          <6>1. a.pc = "resting" /\ Becomes(p, a)
            BY <1>4, <5>4 DEF Answered, PassState
          <6> HIDE DEF a
          <6> QED BY <1>1, <4>1, <6>1
        <5>5. s.state = "sending" /\ s.age = "fresh"
          BY DEF NoRow
        <5> HIDE DEF s, c
        <5>6. rows' = [rows EXCEPT ![c] = s] => rows'[c] = s
          BY <4>2 DEF TypeOK
        <5> QED BY <5>2, <5>3, <5>4, <5>5, <5>6
      <4> QED BY <1>1, <4>1, <4>2, <4>3 DEF Records, PassEffect
    <3> QED BY <2>6, <3>1, <3>2 DEF RecordSending
  <2>7. CASE Submit(p)
    <3> DEFINE c == pass[p].cid
    <3>1. At(p, "wire") /\ UNCHANGED rows /\ wired' = [wired EXCEPT ![c] = wired[c] + 1]
      BY <2>7 DEF Submit
    <3>2. c \in Cid /\ wired[c] \in Nat
      BY <3>1 DEF CidKnown, At, TypeOK
    <3>3. wired'[c] > 0
      BY <3>1, <3>2 DEF TypeOK
    <3>4. ASSUME NEW step \in {"acking", "nacking"}, Goto(p, step),
                 step = "nacking" => UNCHANGED venue
          PROVE  PassEffect(q)
      <4> DEFINE r == [pass[p] EXCEPT !.pc = step]
      <4>1. r.pc = step /\ r.cid = c /\ r.listed = pass[p].listed /\ Becomes(p, r)
        BY <1>4, <3>4 DEF Goto, PassState
      <4> HIDE DEF r
      <4> QED BY <1>1, <3>1, <3>3, <3>4, <4>1 DEF Sends, PassEffect
    <3> QED BY <1>3, <2>7, <3>4 DEF Submit
  <2>8. CASE MarkSubmitted(p) \/ MarkRejected(p)
    BY <1>7, <2>8 DEF MarkSubmitted, MarkRejected, At
  <2>9. CASE OrdersDone(p)
    BY <1>5, <2>9 DEF OrdersDone, At, PassSteps
  <2>10. CASE LatePollUnanswered(p)
    BY <1>5, <2>10 DEF LatePollUnanswered, At, PassSteps
  <2>11. CASE LatePollAnswered(p)
    <3> DEFINE r == [pass[p] EXCEPT !.pc = "resolving", !.pollOk = TRUE]
    <3>1. r.pc = "resolving" /\ r.listed = pass[p].listed /\ Becomes(p, r) /\ At(p, "latepoll")
      BY <1>4, <2>11 DEF LatePollAnswered, PassState
    <3> HIDE DEF r
    <3> QED BY <1>2, <1>4, <3>1 DEF At
  <2>12. CASE NoDelta(p) \/ \E i \in Intents \ Resting : MarketDelta(p, i)
    BY <1>6, <2>12 DEF NoDelta, MarketDelta, At, PassSteps
  <2>13. CASE FetchUnanswered(p) \/ ResolveStale(p) \/ \E c \in Cid : CancelUnanswered(p, c)
    BY <1>3, <2>13 DEF FetchUnanswered, ResolveStale, CancelUnanswered
  <2>14. CASE \E c \in Cid : Cancel(p, c)
    BY <2>14 DEF Cancel, PassEffect
  <2> QED
    BY <1>8, <2>1, <2>2, <2>3, <2>4, <2>5, <2>6, <2>7, <2>8, <2>9, <2>10, <2>11, <2>12, <2>13,
       <2>14
    DEF SweepStep, PollAnswered, PollUnanswered
<1>9. ASSUME NEW p \in Passes, Crash(p) PROVE PassEffect(q)
  BY <1>3, <1>9 DEF Crash
<1>10. CASE UNCHANGED pass
  BY <1>10 DEF PassEffect
<1> QED
  BY <1>8, <1>9, <1>10 DEF Next, VenueStep, Arrive, Fill, Close, Age, Tick, vars

(* An order works at the venue only until it is filled, and only after a   *)
(* wire call.                                                              *)
VenueInv ==
  \A c \in Cid :
    /\ venue[c].at \in {"unsent", "flight"} => venue[c].done = 0
    /\ venue[c].at = "working" => venue[c].done < Qty(c)
    /\ venue[c].at # "unsent" => wired[c] > 0

(* What a sweep fetched had arrived at the venue, and never leaves it.     *)
ListedInv ==
  \A p \in Passes : \A c \in pass[p].listed : venue[c].at \notin {"unsent", "flight"}

(* The order a sweep is sending has a fresh row that says so; one it was   *)
(* refused is not at the venue.                                            *)
HandInv ==
  lapses = 0 =>
    \A p \in Passes :
      /\ At(p, "wire") => rows[pass[p].cid].state = "sending" /\ rows[pass[p].cid].age = "fresh"
      /\ At(p, "nacking") => venue[pass[p].cid].at = "unsent"
      /\ At(p, "nacking") \/ At(p, "acking") => wired[pass[p].cid] > 0

(* The evidence the recovery stands on: a suspect row's order is not on    *)
(* its way any more, and when an old row's order is not among those a      *)
(* sweep fetched, it does not work at the venue.                           *)
OldInv ==
  lapses = 0 =>
    \A c \in Cid : rows[c].state = "sending" =>
      /\ rows[c].age # "fresh" => venue[c].at # "flight"
      /\ rows[c].age = "old" =>
           \A p \in Passes :
             pass[p].pc \in Fetched /\ c \notin pass[p].listed => venue[c].at # "working"

OutInv == VenueInv /\ ListedInv /\ HandInv /\ OldInv

LEMMA InitOut == Init => OutInv
<1> SUFFICES ASSUME Init PROVE OutInv
  OBVIOUS
<1>1. ASSUME NEW c \in Cid
      PROVE  /\ venue[c] = [at |-> "unsent", done |-> 0] /\ rows[c].state = "absent"
  BY DEF Init, NoRow
<1>2. ASSUME NEW p \in Passes PROVE pass[p].pc = "idle" /\ pass[p].listed = {}
  BY DEF Init, IdlePass
<1> QED BY <1>1, <1>2 DEF OutInv, VenueInv, ListedInv, HandInv, OldInv, At

LEMMA StepVenue == IInv /\ OutInv /\ [Next]_vars => VenueInv'
<1> SUFFICES ASSUME IInv, VenueInv, [Next]_vars, NEW c \in Cid
             PROVE  /\ venue'[c].at \in {"unsent", "flight"} => venue'[c].done = 0
                    /\ venue'[c].at = "working" => venue'[c].done < Qty(c)
                    /\ venue'[c].at # "unsent" => wired'[c] > 0
  BY DEF VenueInv, OutInv
<1>1. /\ venue[c].done \in Nat /\ wired[c] \in Nat /\ wired'[c] \in Nat
      /\ wired'[c] >= wired[c] /\ Qty(c) \in Nat \ {0}
  BY WiredGrows, StepType, QtyType DEF IInv, TypeOK, VenueOrder
<1>2. VenueEffect(c)
  BY VenueEffects DEF IInv
<1> QED BY <1>1, <1>2 DEF VenueInv, VenueEffect, Sent, Arrives, Trades

LEMMA StepListed == IInv /\ OutInv /\ [Next]_vars => ListedInv'
<1> SUFFICES ASSUME IInv, ListedInv, [Next]_vars, NEW p \in Passes, NEW c \in pass'[p].listed
             PROVE  venue'[c].at \notin {"unsent", "flight"}
  BY DEF ListedInv, OutInv
<1>1. c \in Cid
  BY StepType DEF IInv, TypeOK, PassState
<1>2. c \in pass[p].listed \/ (venue[c].at = "working" /\ UNCHANGED venue)
  BY PassEffects DEF PassEffect, Moves, Fetches, Records, Sends, IdlePass, IInv
<1>3. venue[c].at \notin {"unsent", "flight"}
  BY <1>2 DEF ListedInv
<1>4. VenueEffect(c)
  BY <1>1, VenueEffects DEF IInv
<1> QED BY <1>3, <1>4 DEF VenueEffect, Sent, Arrives, Trades

LEMMA StepHand == IInv /\ OutInv /\ [Next]_vars => HandInv'
<1> SUFFICES ASSUME IInv, OutInv, [Next]_vars, lapses' = 0, NEW p \in Passes
             PROVE  LET c == pass'[p].cid
                    IN /\ At(p, "wire")' => rows'[c].state = "sending" /\ rows'[c].age = "fresh"
                       /\ At(p, "nacking")' => venue'[c].at = "unsent"
                       /\ At(p, "nacking")' \/ At(p, "acking")' => wired'[c] > 0
  BY DEF HandInv
<1>1. lapses = 0
  BY StepLapses DEF IInv
<1>2. CASE pass'[p].pc \notin InHand
  BY <1>2 DEF InHand, At
<1>3. CASE Records(p)
  BY <1>3 DEF Records, At
<1>4. CASE Sends(p)
  <2> DEFINE c == pass[p].cid
  <2>1. c \in Cid /\ wired[c] = 0
    BY <1>1, <1>4 DEF Sends, IInv, CidKnown, AtTheWire, Sending, At
  <2>2. venue[c].at = "unsent"
    BY <2>1 DEF OutInv, VenueInv
  <2> QED BY <1>4, <2>2 DEF Sends, At
<1>5. CASE pass'[p] = pass[p] /\ pass[p].pc \in InHand
  <2> DEFINE c == pass[p].cid
  <2>1. c \in Cid
    BY <1>5 DEF InHand, IInv, CidKnown
  <2>2. /\ rows[c].age = "fresh" \/ ~At(p, "wire")
        /\ wired[c] \in Nat /\ wired'[c] \in Nat /\ wired'[c] >= wired[c]
    BY <1>1, <2>1, WiredGrows, StepType DEF OutInv, HandInv, IInv, TypeOK
  <2>3. RowEffect(c) /\ VenueEffect(c)
    BY <2>1, RowEffects, VenueEffects DEF IInv
  <2>4. ASSUME At(p, "wire") PROVE rows'[c].state = "sending" /\ rows'[c].age = "fresh"
    <3>1. wired[c] = 0 /\ rows[c].state = "sending" /\ rows[c].age = "fresh"
      BY <1>1, <2>4 DEF IInv, AtTheWire, Sending, OutInv, HandInv
    <3>2. venue[c].at = "unsent" /\ venue[c].done = 0 /\ stored[c] \in Nat
      BY <2>1, <3>1 DEF OutInv, VenueInv, IInv, TypeOK
    <3>3. \A q \in Passes : c \notin pass[q].listed
      BY <3>2 DEF OutInv, ListedInv
    <3>4. \A q \in Passes : At(q, "acking") \/ At(q, "nacking") => pass[q].cid # c
      BY <1>1, <3>1 DEF OutInv, HandInv
    <3>5. ~Folds(c) /\ ~Cancels(c) /\ ~Acks(c) /\ ~Nacks(c)
      BY <3>2, <3>3, <3>4 DEF Folds, Cancels, Acks, Nacks
    <3>6. ~Inserts(c) /\ ~Resolves(c) /\ ~Ages(c)
      BY <2>4, <3>1 DEF Inserts, Resolves, Stale, Ages
    <3> QED BY <2>3, <3>1, <3>5, <3>6 DEF RowEffect
  <2>5. ASSUME At(p, "nacking") PROVE venue'[c].at = "unsent"
    <3>1. venue[c].at = "unsent" /\ wired[c] > 0
      BY <1>1, <2>5 DEF OutInv, HandInv
    <3>2. \A q \in Passes : At(q, "wire") => pass[q].cid # c
      BY <1>1, <3>1 DEF IInv, AtTheWire, Sending
    <3> QED BY <2>3, <3>1, <3>2 DEF VenueEffect, Sent, Arrives, Trades
  <2>6. ASSUME At(p, "nacking") \/ At(p, "acking") PROVE wired'[c] > 0
    BY <1>1, <2>2, <2>6 DEF OutInv, HandInv
  <2> QED BY <1>5, <2>4, <2>5, <2>6 DEF At
<1> QED
  BY <1>2, <1>3, <1>4, <1>5, PassEffects
  DEF PassEffect, Moves, Fetches, InHand, IdlePass, IInv

LEMMA StepOld == IInv /\ OutInv /\ [Next]_vars => OldInv'
<1> SUFFICES ASSUME IInv, OutInv, [Next]_vars, lapses' = 0, NEW c \in Cid,
                    rows'[c].state = "sending", rows'[c].age # "fresh"
             PROVE  /\ venue'[c].at # "flight"
                    /\ rows'[c].age = "old" =>
                         \A p \in Passes :
                           pass'[p].pc \in Fetched /\ c \notin pass'[p].listed
                             => venue'[c].at # "working"
  BY DEF OldInv
<1>1. lapses = 0
  BY StepLapses DEF IInv
<1>2. VenueEffect(c) /\ RowEffect(c)
  BY VenueEffects, RowEffects DEF IInv
<1>3. CASE Ages(c)
  <2>1. rows[c].age # "fresh" => venue[c].at # "flight"
    BY <1>1, <1>3 DEF Ages, OutInv, OldInv
  <2>2. venue'[c].at # "flight"
    BY <1>3, <2>1 DEF Ages
  <2>3. ASSUME rows'[c].age = "old", NEW p \in Passes PROVE pass'[p].pc \notin Fetched
    BY <1>3, <2>3 DEF Ages, Fetched
  <2> QED BY <2>2, <2>3
<1>4. CASE rows'[c].state = rows[c].state /\ rows'[c].age = rows[c].age
  <2>1. venue[c].at # "flight" /\ ~Sent(c)
    BY <1>1, <1>4 DEF OutInv, OldInv, HandInv, Sent
  <2>2. /\ venue'[c].at # "flight"
        /\ venue'[c].at = "working" => venue[c].at = "working"
    BY <1>2, <2>1 DEF VenueEffect, Arrives, Trades
  <2>3. ASSUME rows'[c].age = "old", NEW p \in Passes, pass'[p].pc \in Fetched,
               c \notin pass'[p].listed
        PROVE  venue'[c].at # "working"
    <3>1. CASE Fetches(p)
      BY <2>3, <3>1 DEF Fetches
    <3>2. CASE pass[p].pc \in Fetched /\ c \notin pass[p].listed
      BY <1>1, <1>4, <2>2, <2>3, <3>2 DEF OutInv, OldInv
    <3> QED
      BY <2>3, <3>1, <3>2, PassEffects
      DEF PassEffect, Moves, Records, Sends, At, Fetched, IdlePass, IInv
  <2> QED BY <2>2, <2>3
<1> QED
  BY <1>2, <1>3, <1>4
  DEF RowEffect, Folds, Inserts, Cancels, Acks, AckStates, Nacks, Resolves

THEOREM Outstanding == Spec => [](IInv /\ OutInv)
<1>1. Init => OutInv
  BY InitOut
<1>2. IInv /\ OutInv /\ [Next]_vars => OutInv'
  BY StepVenue, StepListed, StepHand, StepOld DEF OutInv
<1> QED BY Inductive, <1>1, <1>2, PTL DEF Spec

(* The state half of OutstandingCovered. *)
OpenWhileLive ==
  lapses = 0 =>
    \A c \in Cid : venue[c].at \in {"flight", "working"} => rows[c].state \in Open

LEMMA StepOpen ==
  ASSUME ~CancelSwallowed
  PROVE  IInv /\ OutInv /\ OpenWhileLive /\ [Next]_vars => OpenWhileLive'
<1> SUFFICES ASSUME IInv, OutInv, OpenWhileLive, [Next]_vars, lapses' = 0, NEW c \in Cid,
                    venue'[c].at \in {"flight", "working"}
             PROVE  rows'[c].state \in Open
  BY DEF OpenWhileLive
<1>1. lapses = 0
  BY StepLapses DEF IInv
<1>2. VenueEffect(c) /\ RowEffect(c)
  BY VenueEffects, RowEffects DEF IInv
<1>3. CASE Sent(c)
  <2>1. rows[c].state = "sending" /\ UNCHANGED rows
    BY <1>1, <1>3 DEF Sent, OutInv, HandInv
  <2> QED BY <2>1 DEF Open
<1>4. CASE ~Sent(c)
  <2>1. venue[c].at \in {"flight", "working"}
    BY <1>2, <1>4 DEF VenueEffect, Arrives, Trades
  <2>2. rows[c].state \in Open
    BY <1>1, <2>1 DEF OpenWhileLive
  <2>3. ~Folds(c)
    <3>1. venue[c].done \in Nat /\ Qty(c) \in Nat \ {0}
      BY QtyType DEF IInv, TypeOK, VenueOrder
    <3> QED BY <2>1, <3>1 DEF Folds, OutInv, VenueInv
  <2>4. ~Cancels(c)
    BY DEF Cancels
  <2>5. ~Nacks(c)
    BY <1>1, <2>1 DEF Nacks, OutInv, HandInv
  <2>6. Acks(c) => rows'[c].state = "submitted"
    BY <2>1 DEF Acks, AckStates
  <2>7. Resolves(c) => rows'[c].state = "open"
    BY <1>1, <2>1 DEF Resolves, Stale, OutInv, OldInv, At, Fetched
  <2> QED BY <1>2, <2>2, <2>3, <2>4, <2>5, <2>6, <2>7 DEF RowEffect, Inserts, Ages, Open
<1> QED BY <1>3, <1>4

(* A row leaves the outstanding set only on evidence.  While no journal    *)
(* write has failed and no adapter swallows a refused cancel, an order     *)
(* that works at the venue, or is still on its way there, is in the open   *)
(* set the gates read: no ack, fold, refusal, cancel or recovery of any    *)
(* sweep has taken it out, whichever lock was lost and wherever a process  *)
(* died.                                                                   *)
THEOREM Covered == ASSUME ~CancelSwallowed PROVE Spec => []OutstandingCovered
<1>1. Init => OpenWhileLive
  BY DEF Init, OpenWhileLive
<1>2. IInv /\ OutInv /\ OpenWhileLive => OutstandingCovered
  <2> SUFFICES ASSUME IInv, OutInv, OpenWhileLive, lapses = 0, NEW c \in Cid,
                      venue[c].at \in {"flight", "working"}
               PROVE  c \in OpenRows(rows)
    BY DEF OutstandingCovered
  <2>1. /\ rows[c].filled \in Nat /\ stored[c] \in Nat /\ venue[c].done \in Nat
        /\ rows[c].filled <= stored[c] /\ stored[c] <= venue[c].done
        /\ Qty(c) \in Nat \ {0}
    BY QtyType DEF IInv, TypeOK, VenueOrder, Row, NeverOvercounted
  <2>2. venue[c].done < Qty(c)
    BY <2>1 DEF OutInv, VenueInv
  <2> QED BY <2>1, <2>2 DEF OpenWhileLive, OpenRows
<1> QED BY Outstanding, <1>1, <1>2, StepOpen, PTL DEF Spec

-----------------------------------------------------------------------------
(* A filled row stays filled, when the connection lock excludes the other  *)
(* sweeps and every journal write succeeds.                                *)

LockInv ==
  \A p \in Passes : pass[p].pc \notin {"idle", "gathered"} => holder = {p}
HeldInv ==
  \A p \in Passes : pass[p].pc \in InHand => rows[pass[p].cid].state = "sending"

LEMMA StepLock == ASSUME Locked, TypeOK, LockInv, [Next]_vars PROVE LockInv'
<1>1. ASSUME NEW p \in Passes, NEW r, Becomes(p, r),
             holder' = holder, pass[p].pc \notin {"idle", "gathered"}
      PROVE  LockInv'
  BY <1>1 DEF LockInv, Becomes, TypeOK
<1>2. ASSUME NEW p \in Passes, End(p), pass[p].pc # "idle"
      PROVE  LockInv'
  <2>1. pass'[p].pc = "idle" /\ \A q \in Passes : q # p => pass'[q] = pass[q]
    BY <1>2 DEF End, Becomes, TypeOK, IdlePass
  <2> QED BY <1>2, <2>1 DEF LockInv, End
<1>3. ASSUME NEW p \in Passes, SweepStep(p) PROVE LockInv'
  <2>1. CASE Gather(p)
    <3> DEFINE r == [pass[p] EXCEPT !.pc = "gathered", !.model = sleeve,
                                    !.gates = GatesOf(rows, sleeve)]
    <3>1. r.pc = "gathered" /\ Becomes(p, r) /\ UNCHANGED holder
      BY <2>1 DEF Gather, TypeOK, PassState
    <3> HIDE DEF r
    <3> QED BY <3>1 DEF Becomes, TypeOK, LockInv
  <2>2. CASE Acquire(p)
    <3>1. holder = {} /\ holder' = {p}
      BY <2>2 DEF Acquire
    <3>2. \A q \in Passes : q # p => pass'[q] = pass[q]
      BY <2>2 DEF Acquire, Becomes, TypeOK
    <3> QED BY <3>1, <3>2 DEF LockInv
  <2>3. CASE FetchUnanswered(p) \/ ResolveStale(p) \/ \E c \in Cid : CancelUnanswered(p, c)
    BY <1>2, <2>3 DEF FetchUnanswered, ResolveStale, CancelUnanswered, MayCancel, At
  <2>4. CASE Submit(p)
    BY <1>1, <1>2, <2>4 DEF Submit, At, Goto
  <2>5. CASE \E c \in Cid : Cancel(p, c)
    BY <2>5 DEF Cancel, LockInv
  <2>6. CASE RecordSending(p) \/ MarkSubmitted(p) \/ MarkRejected(p)
    BY <1>1, <2>6 DEF RecordSending, MarkSubmitted, MarkRejected, At, Goto, Answered
  <2>7. CASE \/ PollAnswered(p) \/ PollUnanswered(p) \/ FetchAnswered(p)
             \/ LatePollAnswered(p) \/ LatePollUnanswered(p) \/ OrdersDone(p)
    BY <1>1, <2>7
    DEF PollAnswered, PollUnanswered, Regate, FetchAnswered, LatePollAnswered,
        LatePollUnanswered, OrdersDone, At, Goto
  <2>8. CASE NoDelta(p) \/ \E i \in Intents \ Resting : MarketDelta(p, i)
    BY <1>1, <2>8 DEF NoDelta, MarketDelta, At, Leave
  <2>9. CASE \E c \in Cid : PlaceResting(p, c)
    BY <1>1, <2>9 DEF PlaceResting, At
  <2> QED BY <1>3, <2>1, <2>2, <2>3, <2>4, <2>5, <2>6, <2>7, <2>8, <2>9 DEF SweepStep
<1>4. ASSUME NEW p \in Passes, Crash(p) PROVE LockInv'
  BY <1>2, <1>4 DEF Crash, At
<1>5. CASE UNCHANGED <<pass, holder>>
  BY <1>5 DEF LockInv
<1> QED
  BY <1>3, <1>4, <1>5 DEF Next, VenueStep, Arrive, Fill, Close, Age, Tick, vars

(* Under the lock no other sweep writes the row of the order in hand. *)
LEMMA NotInHand ==
  ASSUME LockInv, HeldInv, NEW p \in Passes, pass[p].pc \in InHand
  PROVE  LET c == pass[p].cid IN ~Folds(c) /\ ~Inserts(c) /\ ~Cancels(c) /\ ~Resolves(c)
<1>1. \A q \in Passes : pass[q].pc \notin {"idle", "gathered"} => q = p
  BY DEF LockInv, InHand
<1> QED BY <1>1 DEF Folds, Cancels, Inserts, Resolves, HeldInv, InHand, At

LEMMA StepHeld ==
  ASSUME MaxLapses = 0, IInv, LockInv, HeldInv, [Next]_vars PROVE HeldInv'
<1> SUFFICES ASSUME NEW p \in Passes, pass'[p].pc \in InHand
             PROVE  rows'[pass'[p].cid].state = "sending"
  BY DEF HeldInv
<1>1. lapses' = 0
  BY StepType DEF IInv, TypeOK
<1>2. CASE Records(p)
  BY <1>1, <1>2 DEF Records
<1>3. CASE Sends(p)
  BY <1>3 DEF Sends, HeldInv, InHand, At
<1>4. CASE pass'[p] = pass[p]
  <2> DEFINE c == pass[p].cid
  <2>1. rows[c].state = "sending" /\ c \in Cid
    BY <1>4 DEF HeldInv, IInv, CidKnown, InHand
  <2>2. RowEffect(c)
    BY <2>1, RowEffects DEF IInv
  <2>3. ~Folds(c) /\ ~Inserts(c) /\ ~Cancels(c) /\ ~Resolves(c)
    BY <1>4, NotInHand
  <2>4. ~Acks(c) /\ ~Nacks(c)
    <3>1. ASSUME NEW q \in Passes, At(q, "acking") \/ At(q, "nacking") PROVE q = p
      BY <1>4, <3>1 DEF LockInv, InHand, At
    <3>2. ~At(p, "resting")'
      BY <1>4 DEF InHand, At
    <3> QED BY <3>1, <3>2 DEF Acks, Nacks
  <2> QED BY <1>4, <2>1, <2>2, <2>3, <2>4 DEF RowEffect, Ages
<1> QED
  BY <1>2, <1>3, <1>4, PassEffects DEF PassEffect, Moves, Fetches, InHand, IdlePass, IInv

(* What the ledger says of a fill stays true: under the connection lock,   *)
(* and as long as journal writes succeed, no ack, refusal, cancel or       *)
(* recovery written after a fill was folded takes the row out of filled    *)
(* again.                                                                  *)
THEOREM Final == ASSUME Locked, MaxLapses = 0 PROVE Spec => FilledIsFinal
<1>1. Init => LockInv /\ HeldInv
  BY DEF Init, IdlePass, LockInv, HeldInv, InHand
<1>2. IInv /\ LockInv /\ HeldInv /\ [Next]_vars => LockInv' /\ HeldInv'
  BY StepLock, StepHeld DEF IInv
<1>3. IInv /\ LockInv /\ HeldInv /\ [Next]_vars
        => [\A c \in Cid : rows[c].state = "filled" => rows'[c].state = "filled"]_vars
  <2> SUFFICES ASSUME IInv, LockInv, HeldInv, [Next]_vars, NEW c \in Cid,
                      rows[c].state = "filled"
               PROVE  rows'[c].state = "filled"
    OBVIOUS
  <2>1. RowEffect(c)
    BY RowEffects DEF IInv
  <2>2. \A p \in Passes : pass[p].pc \in InHand => pass[p].cid # c
    BY DEF HeldInv
  <2> QED
    BY <2>1, <2>2
    DEF RowEffect, Folds, Inserts, Cancels, Acks, Nacks, Resolves, Stale, Ages, InHand, At, Open
<1> QED BY Inductive, <1>1, <1>2, <1>3, PTL DEF Spec, FilledIsFinal
=============================================================================
