----------------------------- MODULE CollapseRows -----------------------------
(***************************************************************************)
(* What the pull makes of one live-data snapshot: the row loop at the end  *)
(* of get_live_data (app/actions/client.py) and the two loops of           *)
(* action_pull_observations (app/actions/handlers.py) that collapse the    *)
(* rows to one fix per device and decide which fixes to send.  Rows come   *)
(* in any order, repeat devices, and may be malformed.                     *)
(***************************************************************************)
EXTENDS Integers, Sequences

CONSTANTS
  Imeis,      \* device identifiers
  MaxTime,    \* bound: datetime can represent the times 1..MaxTime
  MaxRows,    \* bound: rows in the snapshot
  Offsets,    \* the gps_utc_offset values an operator may configure
  Now,        \* datetime.now(timezone.utc)
  Skew,       \* MAX_FUTURE_SKEW
  Malformed,  \* a row that does not parse as a TrackitVehicle
  NoFix,      \* one without a time, without a position or at (0, 0)
  Absent,     \* no state of the device, or no ISO time in it
  Unusable    \* not JSON, no JSON object, or a time with a UTC offset

Times == 1..MaxTime
Marks == Times \cup {Absent, Unusable}

(* A raw row: its device, and the time of its fix if it has one. *)
Row == [imei : Imeis, time : Times \cup {Malformed, NoFix}]

ASSUME RowsAssumption ==
  /\ {MaxTime, MaxRows, Now, Skew} \subseteq Nat
  /\ Offsets \subseteq Int
  /\ {Malformed, NoFix} \cap Nat = {} /\ Malformed # NoFix
  /\ {Absent, Unusable} \cap Int = {} /\ Absent # Unusable

VARIABLES
  rows,       \* VehicleData of the response
  offset,     \* the configured offset
  stored,     \* per device, what Redis holds as its state
  i,          \* the rows before i have been read
  latest,     \* latest_by_imei: the index of the row kept (0: none)
  noFix,      \* vehicles_without_position
  skewed,     \* the devices counted in vehicles_future_skewed
  new,        \* the devices of new_items
  pending,    \* the devices still to decide on
  pc

vars == <<rows, offset, stored, i, latest, noFix, skewed, new, pending, pc>>

HasValidPosition(row) == row.time \in Times

Kept(d) == rows[latest[d]]

-----------------------------------------------------------------------------
(* Mutant: the newest row is taken to be the last one. *)
LastRow(row, d) == TRUE

Newer(row, d) == latest[d] = 0 \/ row.time > Kept(d).time

(* One raw row: dropped if it does not parse, counted if it has no fix,      *)
(* kept if it is the first or the newest of its device.                      *)
ReadRow ==
  /\ pc = "rows" /\ i <= Len(rows)
  /\ i' = i + 1
  /\ LET row == rows[i] IN
       /\ noFix' = IF row.time = NoFix THEN noFix + 1 ELSE noFix
       /\ latest' = IF HasValidPosition(row) /\ Newer(row, row.imei)
                    THEN [latest EXCEPT ![row.imei] = i] ELSE latest
  /\ UNCHANGED <<rows, offset, stored, skewed, new, pending, pc>>

RowsRead ==
  /\ pc = "rows" /\ i = Len(rows) + 1
  /\ pc' = "decide"
  /\ pending' = {d \in Imeis : latest[d] # 0}
  /\ UNCHANGED <<rows, offset, stored, i, latest, noFix, skewed, new>>

-----------------------------------------------------------------------------
RecordedAt(time) == time - offset

(* astimezone raises OverflowError for a time datetime cannot represent.     *)
Overflows(time) == RecordedAt(time) \notin Times

TooFarAhead(time) == RecordedAt(time) > Now + Skew

(* What does not parse counts as older than any fix.                         *)
ParseWatermark(value) == IF value \in Times THEN value ELSE 0

(* Mutant: the UTC time is compared with the raw watermark. *)
KnownInUtc(d) == RecordedAt(Kept(d).time) <= ParseWatermark(stored[d])

Known(d) == Kept(d).time <= ParseWatermark(stored[d])

(* Mutant: nothing after the count of a skewed device leaves the loop body.  *)
DecideWithoutContinue(d) ==
  /\ pc = "decide" /\ d \in pending
  /\ stored[d] # Unusable /\ (Known(d) \/ ~Overflows(Kept(d).time))
  /\ pending' = pending \ {d}
  /\ skewed' = IF ~Known(d) /\ TooFarAhead(Kept(d).time) THEN skewed \cup {d} ELSE skewed
  /\ new' = IF Known(d) THEN new ELSE new \cup {d}
  /\ UNCHANGED <<rows, offset, stored, i, latest, noFix, pc>>

(* The decision on one device: known, too far ahead, or new.                 *)
Decide(d) ==
  /\ pc = "decide" /\ d \in pending
  /\ stored[d] # Unusable /\ (Known(d) \/ ~Overflows(Kept(d).time))
  /\ pending' = pending \ {d}
  /\ IF Known(d) THEN UNCHANGED <<skewed, new>>
     ELSE IF TooFarAhead(Kept(d).time) THEN skewed' = skewed \cup {d} /\ UNCHANGED new
     ELSE new' = new \cup {d} /\ UNCHANGED skewed
  /\ UNCHANGED <<rows, offset, stored, i, latest, noFix, pc>>

(* Mutant: the time is converted before it is compared.                      *)
ConvertFirst(d) ==
  /\ pc = "decide" /\ d \in pending
  /\ stored[d] = Unusable \/ Overflows(Kept(d).time)
  /\ pc' = "raised"
  /\ UNCHANGED <<rows, offset, stored, i, latest, noFix, skewed, new, pending>>

(* An exception leaves the loop, and the handler: the state has no get, its  *)
(* time does not compare with a naive one, or the conversion overflows.      *)
DecisionRaises(d) ==
  /\ pc = "decide" /\ d \in pending
  /\ stored[d] = Unusable \/ (~Known(d) /\ Overflows(Kept(d).time))
  /\ pc' = "raised"
  /\ UNCHANGED <<rows, offset, stored, i, latest, noFix, skewed, new, pending>>

Decided ==
  /\ pc = "decide" /\ pending = {}
  /\ pc' = "done"
  /\ UNCHANGED <<rows, offset, stored, i, latest, noFix, skewed, new, pending>>

-----------------------------------------------------------------------------
Init ==
  /\ rows \in UNION {[1..n -> Row] : n \in 0..MaxRows}
  /\ offset \in Offsets
  /\ stored \in [Imeis -> Marks]
  /\ i = 1 /\ latest = [d \in Imeis |-> 0] /\ noFix = 0
  /\ skewed = {} /\ new = {} /\ pending = {}
  /\ pc = "rows"

Next ==
  \/ ReadRow
  \/ RowsRead
  \/ \E d \in Imeis : Decide(d) \/ DecisionRaises(d)
  \/ Decided

Spec == Init /\ [][Next]_vars

-----------------------------------------------------------------------------
(* Every variable has its type, and each device is decided on once.          *)
TypeOK ==
  /\ rows \in Seq(Row) /\ Len(rows) <= MaxRows
  /\ offset \in Offsets
  /\ stored \in [Imeis -> Marks]
  /\ i \in 1..Len(rows) + 1
  /\ latest \in [Imeis -> 0..Len(rows)]
  /\ noFix \in 0..Len(rows)
  /\ skewed \subseteq Imeis /\ new \subseteq Imeis /\ pending \subseteq Imeis
  /\ new \cap skewed = {} /\ pending \cap (new \cup skewed) = {}
  /\ pc \in {"rows", "decide", "done", "raised"}

(* The valid rows of a device among those read so far. *)
ValidRows(d) ==
  {j \in 1..i-1 : rows[j].imei = d /\ HasValidPosition(rows[j])}

(* Whatever the order, the repetitions and the bad rows in between, the row  *)
(* kept for a device is the first of its newest valid ones, and a device has *)
(* one exactly if it has a valid row (handlers.py:152-165).                  *)
NewestRowKept ==
  \A d \in Imeis :
    /\ latest[d] = 0 <=> ValidRows(d) = {}
    /\ latest[d] # 0 =>
         /\ latest[d] \in ValidRows(d)
         /\ \A j \in ValidRows(d) :
              /\ rows[j].time <= Kept(d).time
              /\ j < latest[d] => rows[j].time < Kept(d).time

(* Changing the configured offset never gaps data: every device whose newest *)
(* fix is newer than its watermark, on the device's own clock, is sent or    *)
(* counted as too far ahead (handlers.py:176-177).  The loop is given up, and*)
(* with it the whole fleet, only for a device with a fix whose stored value  *)
(* is unusable (handlers.py:178-181) or whose new fix leaves the calendar    *)
(* under the offset (handlers.py:185); one already recorded costs nothing.   *)
NewRow(d, j) == j \in ValidRows(d) /\ rows[j].time > ParseWatermark(stored[d])

NoOffsetGap ==
  /\ pc = "done" =>
       \A d \in Imeis : (\E j \in ValidRows(d) : NewRow(d, j)) => d \in new \cup skewed
  /\ pc = "raised" =>
       \E d \in Imeis : \E j \in ValidRows(d) :
         stored[d] = Unusable \/ (NewRow(d, j) /\ Overflows(rows[j].time))
=============================================================================
