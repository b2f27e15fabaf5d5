-------------------------- MODULE SkipThrottleProofs --------------------------
(***************************************************************************)
(* Theorems about SkipThrottle for any finite set of overlapping runs.     *)
(* What the runs check is inductive: a step that nothing disturbs moves a  *)
(* run to or from its warning as it opens a window or pays for one, and a  *)
(* failure is off by one at most.                                          *)
(***************************************************************************)
EXTENDS SkipThrottle, FiniteSetTheorems, TLAPS

IInv == TypeOK /\ OneWarningPerWindow

-----------------------------------------------------------------------------
LEMMA Constants ==
  /\ IsFiniteSet(Runs)
  /\ MaxAttempts \in Nat \ {0} /\ MaxFaults \in Nat
BY ThrottleAssumption

LEMMA WarningFinite == IsFiniteSet(Warning) /\ Cardinality(Warning) \in Nat
<1>1. Warning \subseteq Runs
  BY DEF Warning
<1> QED
  BY <1>1, Constants, FS_Subset, FS_CardinalityType

(* A run joins those about to warn, leaves them, or neither. *)
LEMMA WarningMoves ==
  ASSUME TypeOK, NEW r \in Runs, NEW place \in {"idle", "set", "warn"},
         pc' = [pc EXCEPT ![r] = place]
  PROVE  /\ place = "warn" /\ pc[r] # "warn" =>
              Cardinality(Warning') = Cardinality(Warning) + 1
         /\ place # "warn" /\ pc[r] = "warn" =>
              Cardinality(Warning') = Cardinality(Warning) - 1
         /\ (place = "warn" <=> pc[r] = "warn") =>
              Cardinality(Warning') = Cardinality(Warning)
<1>1. ASSUME place = "warn", pc[r] # "warn"
      PROVE  Cardinality(Warning') = Cardinality(Warning) + 1
  <2>1. Warning' = Warning \cup {r} /\ r \notin Warning
    BY <1>1 DEF TypeOK, Warning
  <2>2. Cardinality(Warning \cup {r}) = Cardinality(Warning) + 1
    BY <2>1, WarningFinite, FS_AddElement, Zenon
  <2> QED
    BY <2>1, <2>2
<1>2. ASSUME place # "warn", pc[r] = "warn"
      PROVE  Cardinality(Warning') = Cardinality(Warning) - 1
  <2>1. Warning' = Warning \ {r} /\ r \in Warning
    BY <1>2 DEF TypeOK, Warning
  <2>2. Cardinality(Warning \ {r}) = Cardinality(Warning) - 1
    BY <2>1, WarningFinite, FS_RemoveElement, Zenon
  <2> QED
    BY <2>1, <2>2
<1>3. ASSUME place = "warn" <=> pc[r] = "warn"
      PROVE  Cardinality(Warning') = Cardinality(Warning)
  <2>1. Warning' = Warning
    BY <1>3 DEF TypeOK, Warning
  <2> QED
    BY <2>1
<1> QED
  BY <1>1, <1>2, <1>3

(* By how much the runs about to warn become more.                           *)
Turn(r, place) == IF place = "warn" /\ pc[r] # "warn" THEN 1
                  ELSE IF place # "warn" /\ pc[r] = "warn" THEN -1 ELSE 0

(* A step pays for the turn of the run that it moves, or is a failure and    *)
(* wrong by one.                                                             *)
Paid(r, place) ==
  \/ faults' = faults /\ owed' = owed + Turn(r, place)
  \/ /\ faults' = faults + 1
     /\ owed' <= owed + Turn(r, place) + 1 /\ owed + Turn(r, place) <= owed' + 1

LEMMA PaidKeeps ==
  ASSUME IInv, TypeOK', NEW r \in Runs, NEW place \in {"idle", "set", "warn"},
         pc' = [pc EXCEPT ![r] = place],
         Paid(r, place)
  PROVE  IInv'
<1> DEFINE n == Cardinality(Warning)
           m == Cardinality(Warning')
<1>1. n \in Nat /\ owed \in Int /\ owed' \in Int /\ faults \in Int
  BY Constants, WarningFinite DEF IInv, TypeOK
<1>2. /\ place = "warn" /\ pc[r] # "warn" => m = n + 1
      /\ place # "warn" /\ pc[r] = "warn" => m = n - 1
      /\ (place = "warn" <=> pc[r] = "warn") => m = n
  BY WarningMoves, Zenon DEF IInv
<1>3. -faults <= owed - n /\ owed - n <= faults
  BY DEF IInv, OneWarningPerWindow, Unwarned
<1> HIDE DEF n, m
<1>4. m = n + Turn(r, place) /\ Turn(r, place) \in {-1, 0, 1}
  BY <1>1, <1>2 DEF Turn
<1>5. -faults' <= owed' - m /\ owed' - m <= faults'
  BY <1>1, <1>3, <1>4 DEF Paid
<1>6. OneWarningPerWindow'
  BY <1>5 DEF OneWarningPerWindow, Unwarned, m
<1> QED
  BY <1>6 DEF IInv

LEMMA IInvInit == Init => IInv
<1> SUFFICES ASSUME Init PROVE IInv
  OBVIOUS
<1>1. TypeOK
  BY Constants DEF Init, TypeOK
<1>2. Cardinality(Warning) = 0
  <2>1. Warning = {}
    BY DEF Init, Warning
  <2> QED
    BY <2>1, FS_EmptySet
<1> QED
  BY <1>1, <1>2 DEF Init, IInv, OneWarningPerWindow, Unwarned

(* Trying again keeps the run where it is; giving up moves it. *)
LEMMA RetryMoves ==
  ASSUME TypeOK, NEW r \in Runs, NEW place \in {"idle", "set", "warn"}, RetryOr(r, place)
  PROVE  /\ tries' \in [Runs -> 0..MaxAttempts-1]
         /\ pc' = [pc EXCEPT ![r] = pc[r]] \/ pc' = [pc EXCEPT ![r] = place]
BY Constants DEF TypeOK, RetryOr, Goto

LEMMA SetStep == ASSUME IInv, NEW r \in Runs, SetIfAbsent(r) \/ SetRaises(r) PROVE IInv'
<1>1. TypeOK /\ owed \in Int /\ faults \in Int
  BY Constants DEF IInv, TypeOK
<1>2. CASE SetIfAbsent(r)
  <2>1. PICK place \in {"idle", "warn"} :
          /\ pc' = [pc EXCEPT ![r] = place] /\ pc[r] = "set"
          /\ owed' = IF place = "warn" THEN owed + 1 ELSE owed
    BY <1>2 DEF SetIfAbsent, Goto
  <2>2. TypeOK' /\ faults' = faults
    BY <1>1, <1>2, Constants DEF SetIfAbsent, Goto, TypeOK
  <2>3. Paid(r, place)
    BY <1>1, <2>1, <2>2 DEF Paid, Turn
  <2> QED
    BY <1>1, <2>1, <2>2, <2>3, PaidKeeps, Zenon
<1>3. CASE SetRaises(r)
  <2>1. pc[r] = "set" /\ faults' = faults + 1 /\ faults' \in 0..MaxFaults
    BY <1>1, <1>3, Constants DEF SetRaises, Fault, TypeOK
  <2>2. owed' \in {owed, owed + 1} /\ key' \in {"absent", "told", "untold"}
    BY <1>1, <1>3 DEF SetRaises, TypeOK
  <2>3. RetryOr(r, "warn")
    BY <1>3 DEF SetRaises
  <2>4. PICK place \in {"set", "warn"} : pc' = [pc EXCEPT ![r] = place]
    BY <1>1, <2>1, <2>3, RetryMoves
  <2>5. tries' \in [Runs -> 0..MaxAttempts-1]
    BY <1>1, <2>3, RetryMoves
  <2>6. TypeOK'
    <3>1. owed' \in Int
      BY <1>1, <2>2
    <3>2. pc' \in [Runs -> {"idle", "set", "warn"}]
      BY <1>1, <2>4 DEF TypeOK
    <3>3. key' \in {"absent", "told", "untold"}
      BY <1>1, <2>2 DEF TypeOK
    <3> QED
      BY <2>1, <2>5, <3>1, <3>2, <3>3 DEF TypeOK
  <2>7. CASE owed' = owed
    <3>1. Paid(r, place)
      BY <1>1, <2>1, <2>7 DEF Paid, Turn
    <3> QED
      BY <2>4, <2>6, <3>1, PaidKeeps, Zenon
  <2>8. CASE owed' = owed + 1
    <3>1. Paid(r, place)
      BY <1>1, <2>1, <2>8 DEF Paid, Turn
    <3> QED
      BY <2>4, <2>6, <3>1, PaidKeeps, Zenon
  <2> QED
    BY <2>2, <2>7, <2>8
<1> QED
  BY <1>2, <1>3

LEMMA PublishStep == ASSUME IInv, NEW r \in Runs, Publish(r) \/ PublishRaises(r) PROVE IInv'
<1>1. TypeOK /\ owed \in Int /\ faults \in Int
  BY Constants DEF IInv, TypeOK
<1>2. CASE Publish(r)
  <2>1. pc' = [pc EXCEPT ![r] = "idle"] /\ pc[r] = "warn" /\ owed' = owed - 1
    BY <1>2 DEF Publish, Goto
  <2>2. TypeOK' /\ faults' = faults
    BY <1>1, <1>2, Constants DEF Publish, Goto, TypeOK
  <2>3. Paid(r, "idle")
    BY <1>1, <2>1, <2>2 DEF Paid, Turn
  <2> QED
    BY <1>1, <2>1, <2>2, <2>3, PaidKeeps, Zenon
<1>3. CASE PublishRaises(r)
  <2>1. pc[r] = "warn" /\ faults' = faults + 1 /\ faults' \in 0..MaxFaults
    BY <1>1, <1>3, Constants DEF PublishRaises, Fault, TypeOK
  <2>2. owed' \in {owed, owed - 1} /\ key' = key
    BY <1>3 DEF PublishRaises
  <2>3. RetryOr(r, "idle")
    BY <1>3 DEF PublishRaises
  <2>4. PICK place \in {"idle", "warn"} : pc' = [pc EXCEPT ![r] = place]
    BY <1>1, <2>1, <2>3, RetryMoves
  <2>5. tries' \in [Runs -> 0..MaxAttempts-1]
    BY <1>1, <2>3, RetryMoves
  <2>6. TypeOK'
    <3>1. owed' \in Int
      BY <1>1, <2>2
    <3>2. pc' \in [Runs -> {"idle", "set", "warn"}]
      BY <1>1, <2>4 DEF TypeOK
    <3>3. key' \in {"absent", "told", "untold"}
      BY <1>1, <2>2 DEF TypeOK
    <3> QED
      BY <2>1, <2>5, <3>1, <3>2, <3>3 DEF TypeOK
  <2>7. CASE owed' = owed
    <3>1. Paid(r, place)
      BY <1>1, <2>1, <2>7 DEF Paid, Turn
    <3> QED
      BY <2>4, <2>6, <3>1, PaidKeeps, Zenon
  <2>8. CASE owed' = owed - 1
    <3>1. Paid(r, place)
      BY <1>1, <2>1, <2>8 DEF Paid, Turn
    <3> QED
      BY <2>4, <2>6, <3>1, PaidKeeps, Zenon
  <2> QED
    BY <2>2, <2>7, <2>8
<1> QED
  BY <1>2, <1>3

LEMMA IInvStep == IInv /\ [Next]_vars => IInv'
<1> SUFFICES ASSUME IInv, [Next]_vars PROVE IInv'
  OBVIOUS
<1>0. TypeOK /\ owed \in Int /\ faults \in Int
  BY Constants DEF IInv, TypeOK
<1>1. ASSUME NEW r \in Runs, Skip(r) PROVE IInv'
  <2>1. pc' = [pc EXCEPT ![r] = "set"] /\ pc[r] = "idle" /\ owed' = owed /\ faults' = faults
    BY <1>1 DEF Skip, Goto
  <2>2. TypeOK'
    BY <1>0, <1>1, Constants DEF Skip, Goto, TypeOK
  <2>3. Paid(r, "set")
    BY <1>0, <2>1 DEF Paid, Turn
  <2> QED
    BY <2>1, <2>2, <2>3, PaidKeeps, Zenon
<1>2. ASSUME NEW r \in Runs, Crash(r) PROVE IInv'
  <2>1. pc' = [pc EXCEPT ![r] = "idle"] /\ faults' = faults + 1 /\ owed' = owed
    BY <1>2 DEF Crash, Goto, Fault
  <2>2. TypeOK'
    BY <1>0, <1>2, Constants DEF Crash, Goto, Fault, TypeOK
  <2>3. Paid(r, "idle")
    BY <1>0, <2>1 DEF Paid, Turn
  <2> QED
    BY <2>1, <2>2, <2>3, PaidKeeps, Zenon
<1>3. CASE Expire
  BY <1>3 DEF Expire, IInv, TypeOK, OneWarningPerWindow, Unwarned, Warning
<1>4. CASE UNCHANGED vars
  BY <1>4 DEF vars, IInv, TypeOK, OneWarningPerWindow, Unwarned, Warning
<1> QED
  BY <1>1, <1>2, <1>3, <1>4, SetStep, PublishStep DEF Next, Proceed

THEOREM Inductive == Spec => []IInv
BY IInvInit, IInvStep, PTL DEF Spec

(* Type correctness: in particular no call is tried more than MaxAttempts    *)
(* times.                                                                    *)
THEOREM TypeCorrect == Spec => []TypeOK
<1>1. IInv => TypeOK
  BY DEF IInv
<1> QED
  BY <1>1, Inductive, PTL

(* However many runs overlap, each throttle window has its one warning, up   *)
(* to one more or less for every failed call or process that died            *)
(* (action_runner.py:146-180, state.py:30-47).                               *)
THEOREM Throttled == Spec => []OneWarningPerWindow
<1>1. IInv => OneWarningPerWindow
  BY DEF IInv
<1> QED
  BY <1>1, Inductive, PTL
=============================================================================
