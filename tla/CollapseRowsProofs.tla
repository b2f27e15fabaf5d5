-------------------------- MODULE CollapseRowsProofs --------------------------
(***************************************************************************)
(* Theorems about CollapseRows, for snapshots of any length over any set   *)
(* of devices: IInv is inductive, and implies what the runs check.         *)
(***************************************************************************)
EXTENDS CollapseRows, TLAPS

(* What the properties rest on: before the decisions nothing is decided, and *)
(* afterwards a device with a fix is pending, sent, skewed or known.         *)
Undecided == pc = "rows" => new = {} /\ skewed = {} /\ pending = {}

Decisions ==
  /\ pc # "rows" =>
       \A d \in Imeis :
         IF latest[d] = 0 THEN d \notin pending
                          ELSE d \in pending \cup new \cup skewed \/ Known(d)
  /\ pc = "done" => pending = {}
  /\ pc = "raised" => \E d \in Imeis :
       /\ latest[d] # 0
       /\ stored[d] = Unusable \/ (~Known(d) /\ Overflows(Kept(d).time))

IInv ==
  /\ TypeOK
  /\ noFix < i
  /\ NewestRowKept
  /\ Undecided
  /\ Decisions

-----------------------------------------------------------------------------

LEMMA Constants ==
  /\ MaxTime \in Nat /\ MaxRows \in Nat /\ Now \in Nat /\ Skew \in Nat
  /\ Offsets \subseteq Int
  /\ Malformed \notin Times /\ NoFix \notin Times
  /\ Absent \notin Times /\ Unusable \notin Times /\ Absent # Unusable
BY RowsAssumption DEF Times

LEMMA Parsing ==
  ASSUME NEW value \in Marks
  PROVE  /\ ParseWatermark(value) \in Times \cup {0} /\ ParseWatermark(value) \in Int
         /\ value \in {Absent, Unusable} => ParseWatermark(value) = 0
BY Constants DEF ParseWatermark, Marks, Times

LEMMA IInvInit == Init => IInv
<1> SUFFICES ASSUME Init PROVE IInv
  OBVIOUS
<1>1. PICK n \in 0..MaxRows : rows \in [1..n -> Row]
  BY DEF Init
<1>2. rows \in Seq(Row) /\ Len(rows) = n /\ n \in Nat
  BY <1>1, Constants
<1>3. TypeOK
  BY <1>1, <1>2, Constants DEF Init, TypeOK
<1>4. noFix < i /\ Undecided /\ Decisions
  BY DEF Init, Undecided, Decisions
<1>5. NewestRowKept
  <2>1. \A d \in Imeis : latest[d] = 0
    BY DEF Init
  <2>2. \A d \in Imeis : ValidRows(d) = {}
    <3>1. i = 1
      BY DEF Init
    <3> QED
      BY <3>1 DEF ValidRows
  <2> QED
    BY <2>1, <2>2 DEF NewestRowKept
<1> QED
  BY <1>3, <1>4, <1>5 DEF IInv

(* Reading a row adds it to the valid rows of its device, if it is valid.    *)
LEMMA ReadRowAdds ==
  ASSUME TypeOK, ReadRow, NEW d \in Imeis
  PROVE  ValidRows(d)' = IF rows[i].imei = d /\ HasValidPosition(rows[i])
                         THEN ValidRows(d) \cup {i} ELSE ValidRows(d)
BY DEF TypeOK, ReadRow, ValidRows, HasValidPosition

LEMMA ReadRowStep == ASSUME IInv, ReadRow PROVE IInv'
<1> DEFINE row == rows[i]
<1>1. TypeOK /\ i \in 1..Len(rows) /\ row \in Row /\ rows' = rows /\ i' = i + 1
  BY DEF IInv, TypeOK, ReadRow
<1>2. TypeOK'
  BY <1>1 DEF TypeOK, ReadRow, Row, IInv
<1>3. noFix' < i' /\ Undecided' /\ Decisions'
  BY <1>1 DEF IInv, TypeOK, ReadRow, Undecided, Decisions
<1>4. NewestRowKept'
  <2> SUFFICES ASSUME NEW d \in Imeis
               PROVE  /\ latest'[d] = 0 <=> ValidRows(d)' = {}
                      /\ latest'[d] # 0 =>
                           /\ latest'[d] \in ValidRows(d)'
                           /\ \A j \in ValidRows(d)' :
                                /\ rows[j].time <= rows[latest'[d]].time
                                /\ j < latest'[d] => rows[j].time < rows[latest'[d]].time
    BY <1>1 DEF NewestRowKept, Kept
  <2>1. /\ latest[d] = 0 <=> ValidRows(d) = {}
        /\ latest[d] # 0 =>
             /\ latest[d] \in ValidRows(d)
             /\ \A j \in ValidRows(d) :
                  /\ rows[j].time <= rows[latest[d]].time
                  /\ j < latest[d] => rows[j].time < rows[latest[d]].time
    BY DEF IInv, NewestRowKept, Kept
  <2>2. \A j \in ValidRows(d) : j \in 1..i-1 /\ rows[j].time \in Int
    BY <1>1, Constants DEF ValidRows, HasValidPosition, Times
  <2>3. CASE ~(row.imei = d /\ HasValidPosition(row))
    <3>1. latest'[d] = latest[d]
      BY <1>1, <2>3 DEF ReadRow, TypeOK
    <3> QED
      BY <1>1, <2>1, <2>3, <3>1, ReadRowAdds
  <2>4. CASE row.imei = d /\ HasValidPosition(row)
    <3>1. ValidRows(d)' = ValidRows(d) \cup {i}
      BY <1>1, <2>4, ReadRowAdds
    <3>2. row.time \in Int
      BY <2>4, Constants DEF HasValidPosition, Times
    <3>3. CASE Newer(row, d)
      <4>1. latest'[d] = i
        BY <1>1, <2>4, <3>3 DEF ReadRow, TypeOK
      <4>2. \A j \in ValidRows(d) : rows[j].time < row.time
        BY <2>1, <2>2, <3>2, <3>3 DEF Newer, Kept
      <4> QED
        BY <1>1, <2>2, <3>1, <3>2, <4>1, <4>2
    <3>4. CASE ~Newer(row, d)
      <4>1. latest'[d] = latest[d] /\ latest[d] # 0
        BY <1>1, <2>4, <3>4 DEF ReadRow, TypeOK, Newer
      <4>2. row.time <= rows[latest[d]].time /\ latest[d] < i
        BY <1>1, <2>1, <2>2, <3>2, <3>4, <4>1 DEF Newer, Kept
      <4> QED
        BY <1>1, <2>1, <2>2, <3>1, <4>1, <4>2
    <3> QED
      BY <3>3, <3>4
  <2> QED
    BY <2>3, <2>4
<1> QED
  BY <1>2, <1>3, <1>4 DEF IInv

(* The later steps leave the rows that were kept alone. *)
LEMMA RestStep ==
  ASSUME IInv, UNCHANGED <<rows, offset, stored, i, latest, noFix>>,
         TypeOK', Undecided', Decisions'
  PROVE  IInv'
BY DEF IInv, NewestRowKept, ValidRows, Kept, HasValidPosition

LEMMA IInvStep == IInv /\ [Next]_vars => IInv'
<1> SUFFICES ASSUME IInv, [Next]_vars PROVE IInv'
  OBVIOUS
<1>1. CASE ReadRow
  BY <1>1, ReadRowStep
<1>2. CASE RowsRead
  <2>1. TypeOK'
    BY <1>2 DEF IInv, TypeOK, RowsRead, Undecided
  <2>2. Undecided' /\ Decisions'
    BY <1>2 DEF IInv, TypeOK, RowsRead, Undecided, Decisions, Known, Kept
  <2> QED
    BY <1>2, <2>1, <2>2, RestStep DEF RowsRead
<1>3. ASSUME NEW d \in Imeis, Decide(d) PROVE IInv'
  <2>1. TypeOK'
    BY <1>3 DEF IInv, TypeOK, Decide
  <2>2. Undecided'
    BY <1>3 DEF Decide, Undecided
  <2>3. Decisions'
    BY <1>3 DEF IInv, Decide, Decisions, Known, Kept
  <2> QED
    BY <1>3, <2>1, <2>2, <2>3, RestStep DEF Decide
<1>4. ASSUME NEW d \in Imeis, DecisionRaises(d) PROVE IInv'
  <2>1. TypeOK' /\ Undecided' /\ Decisions'
    <3>1. TypeOK' /\ Undecided'
      BY <1>4 DEF IInv, TypeOK, DecisionRaises, Undecided
    <3>2. latest[d] # 0 /\ (stored[d] = Unusable \/ (~Known(d) /\ Overflows(Kept(d).time)))
      BY <1>4 DEF IInv, DecisionRaises, Decisions
    <3>3. Decisions'
      BY <1>4, <3>2 DEF IInv, DecisionRaises, Decisions, Known, Kept, Overflows, RecordedAt
    <3> QED
      BY <3>1, <3>3
  <2> QED
    BY <1>4, <2>1, RestStep DEF DecisionRaises
<1>5. CASE Decided
  <2>1. TypeOK' /\ Undecided' /\ Decisions'
    BY <1>5 DEF IInv, TypeOK, Decided, Undecided, Decisions, Known, Kept
  <2> QED
    BY <1>5, <2>1, RestStep DEF Decided
<1>6. CASE UNCHANGED vars
  BY <1>6 DEF IInv, vars, TypeOK, NewestRowKept, Undecided, Decisions, ValidRows,
              HasValidPosition, Known, Kept, Overflows, RecordedAt
<1> QED
  BY <1>1, <1>2, <1>3, <1>4, <1>5, <1>6 DEF Next

THEOREM Inductive == Spec => []IInv
BY IInvInit, IInvStep, PTL DEF Spec

(* A device is sent, skewed or known, never two of them, whatever the rows.  *)
THEOREM TypeCorrect == Spec => []TypeOK
<1>1. IInv => TypeOK
  BY DEF IInv
<1> QED
  BY <1>1, Inductive, PTL

(* The loop keeps the first of the newest valid rows of every device.        *)
THEOREM NewestWins == Spec => []NewestRowKept
<1>1. IInv => NewestRowKept
  BY DEF IInv
<1> QED
  BY <1>1, Inductive, PTL

(* The kept row of a device is a valid one, and at least as new as any other.*)
LEMMA KeptRowsLeaveNoGap == IInv => NoOffsetGap
<1> SUFFICES ASSUME IInv PROVE NoOffsetGap
  OBVIOUS
<1>1. ASSUME pc = "done", NEW d \in Imeis, NEW j \in ValidRows(d), NewRow(d, j)
      PROVE  d \in new \cup skewed
  <2>1. latest[d] # 0 /\ latest[d] \in ValidRows(d) /\ rows[j].time <= Kept(d).time
    BY DEF IInv, NewestRowKept
  <2>2. /\ rows[j].time \in Int /\ Kept(d).time \in Int
        /\ ParseWatermark(stored[d]) \in Int
    BY <2>1, Constants, Parsing DEF IInv, TypeOK, ValidRows, HasValidPosition, Kept, Times
  <2>3. ~Known(d)
    BY <1>1, <2>1, <2>2 DEF Known, NewRow
  <2> QED
    BY <1>1, <2>1, <2>3 DEF IInv, Decisions
<1>2. ASSUME pc = "raised"
      PROVE  \E d \in Imeis : \E j \in ValidRows(d) :
               stored[d] = Unusable \/ (NewRow(d, j) /\ Overflows(rows[j].time))
  <2>1. PICK d \in Imeis : /\ latest[d] # 0
                           /\ stored[d] = Unusable \/ (~Known(d) /\ Overflows(Kept(d).time))
    BY <1>2 DEF IInv, Decisions
  <2>2. latest[d] \in ValidRows(d)
    BY <2>1 DEF IInv, NewestRowKept
  <2>3. Kept(d).time \in Int /\ ParseWatermark(stored[d]) \in Int
    BY <2>2, Constants, Parsing DEF IInv, TypeOK, ValidRows, HasValidPosition, Kept, Times
  <2> QED
    BY <2>1, <2>2, <2>3 DEF Known, Kept, NewRow
<1> QED
  BY <1>1, <1>2 DEF NoOffsetGap

(* No offset makes the pull leave out a fix newer than the watermark without *)
(* counting it, since the kept row is at least as new; and the loop is given *)
(* up only for an unusable value or for a new fix that leaves the calendar,  *)
(* whatever is stored (handlers.py:176-192).                                 *)
THEOREM NoGapByOffset == Spec => []NoOffsetGap
BY KeptRowsLeaveNoGap, Inductive, PTL
=============================================================================
