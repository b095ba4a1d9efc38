-------------------------- MODULE SlipDetection_proofs --------------------------
(***************************************************************************)
(* Proofs about SlipDetection: LockTimeBounds relates the lock time the    *)
(* driver stored to the one of the receiver and is inductive; that no loss *)
(* goes unflagged, and that no flag is a false alarm, follows from it.     *)
(***************************************************************************)
EXTENDS SlipDetection, TLAPS

LEMMA LeastFact ==
  ASSUME NEW a \in Nat, NEW b \in Nat
  PROVE  Least(a, b) \in 0 .. b /\ Least(a, b) <= a /\ (a > 0 /\ b > 0 => Least(a, b) > 0)
                     /\ (b <= a => Least(a, b) = b) /\ (a <= b => Least(a, b) = a)
BY DEF Least

LEMMA InitFacts == Init => TypeOK /\ LockTimeBounds
<1> SUFFICES ASSUME Init PROVE TypeOK /\ LockTimeBounds
    OBVIOUS
<1>1. NoTrack \in Tracks /\ ~NoTrack.seen
      BY SlipAssumption DEF NoTrack, Tracks
<1>2. /\ lock \in [Signals -> 0 .. MaxLock]
      /\ age \in [Signals -> 0 .. MaxAge]
      /\ store \in [Signals -> Tracks]
      BY <1>1, SlipAssumption DEF Init, Everywhere
<1>3. /\ tracked \in [Signals -> BOOLEAN] /\ broken \in [Signals -> BOOLEAN]
      /\ locked \in [Signals -> BOOLEAN]
      /\ phase \in [Signals -> BOOLEAN] /\ half \in [Signals -> BOOLEAN]
      /\ slip \in [Signals -> BOOLEAN] /\ ticked \in BOOLEAN
      BY Zenon DEF Init, Everywhere
<1>4. LockTimeBounds
      BY <1>1 DEF Init, Everywhere, LockTimeBounds
<1> QED BY <1>2, <1>3, <1>4 DEF TypeOK

(* A step of the receiver or the driver keeps every variable in its type. *)
LEMMA TypeStep == TypeOK /\ [Next]_vars => TypeOK'
<1> SUFFICES ASSUME TypeOK, [Next]_vars PROVE TypeOK'
    OBVIOUS
<1> USE SlipAssumption DEF TypeOK
<1>1. CASE Tick
  <2>1. lock' \in [Signals -> 0 .. MaxLock]
        BY <1>1, LeastFact DEF Tick
  <2>2. age' \in [Signals -> 0 .. MaxAge]
        BY <1>1, LeastFact DEF Tick
  <2>3. ticked' \in BOOLEAN /\ UNCHANGED <<tracked, locked, phase, half, store, slip, broken>>
        BY <1>1 DEF Tick, driver
  <2> QED BY <2>1, <2>2, <2>3
<1>2. CASE ParseMeas
  <2>1. \A s \in Signals : Block(s) \in Tracks
        BY DEF Block, Tracks
  <2>2. store' \in [Signals -> Tracks]
        BY <1>2, <2>1 DEF ParseMeas, Remember
  <2>3. slip' \in [Signals -> BOOLEAN]
        BY <1>2, Zenon DEF ParseMeas, Slip, Interrupted
  <2>4. age' \in [Signals -> 0 .. MaxAge]
        BY <1>2 DEF ParseMeas
  <2>5. ticked' \in BOOLEAN /\ broken' \in [Signals -> BOOLEAN]
        BY <1>2, Zenon DEF ParseMeas
  <2>6. UNCHANGED <<tracked, locked, lock, phase, half>>
        BY <1>2 DEF ParseMeas
  <2> QED BY <2>2, <2>3, <2>4, <2>5, <2>6
<1>3. ASSUME NEW s \in Signals, Acquire(s) PROVE TypeOK'
      BY <1>3 DEF Acquire, driver
<1>4. ASSUME NEW s \in Signals, LockCarrier(s) PROVE TypeOK'
      BY <1>4 DEF LockCarrier, driver
<1>5. ASSUME NEW s \in Signals, LoseLock(s) PROVE TypeOK'
  <2>1. tracked' \in [Signals -> BOOLEAN] /\ locked' \in [Signals -> BOOLEAN]
        /\ broken' \in [Signals -> BOOLEAN]
        BY <1>5, Zenon DEF LoseLock
  <2>2. lock' \in [Signals -> 0 .. MaxLock]
        BY <1>5 DEF LoseLock
  <2>3. UNCHANGED <<phase, half, ticked, store, slip, age>>
        BY <1>5, Zenon DEF LoseLock, driver
  <2> QED BY <2>1, <2>2, <2>3
<1>6. ASSUME NEW s \in Signals, ChangeStatus(s) PROVE TypeOK'
      BY <1>6 DEF ChangeStatus, driver
<1>7. CASE UNCHANGED vars
      BY <1>7 DEF vars, receiver, driver
<1> QED BY <1>1, <1>2, <1>3, <1>4, <1>5, <1>6, <1>7 DEF Next

(* The bounds survive the passing of time, a message, and each event of    *)
(* the receiver.                                                           *)
LEMMA BoundsStep == TypeOK /\ LockTimeBounds /\ [Next]_vars => LockTimeBounds'
<1> SUFFICES ASSUME TypeOK, LockTimeBounds, [Next]_vars PROVE LockTimeBounds'
    OBVIOUS
<1> USE SlipAssumption DEF TypeOK, LockTimeBounds
<1>1. CASE Tick
  <2> SUFFICES ASSUME NEW s \in Signals
      PROVE  /\ ~locked'[s] => lock'[s] = 0
             /\ locked'[s] => tracked'[s]
             /\ IF store'[s].seen
                THEN IF broken'[s] THEN lock'[s] <= age'[s]
                     ELSE locked'[s] /\ store'[s].lock <= lock'[s] /\ (ticked' => lock'[s] > 0)
                ELSE store'[s] = NoTrack
      OBVIOUS
  <2>1. store'[s] = store[s] /\ broken'[s] = broken[s] /\ tracked'[s] = tracked[s] /\ locked'[s] = locked[s]
        BY <1>1 DEF Tick, driver
  <2>2. /\ age'[s] = Least(age[s] + 1, MaxAge)
        /\ lock'[s] = IF locked[s] THEN Least(lock[s] + 1, MaxLock) ELSE 0
        BY <1>1 DEF Tick
  <2>3. store[s].lock \in 0 .. MaxLock
        BY DEF Tracks
  <2> QED BY <2>1, <2>2, <2>3 DEF Least
<1>2. CASE ParseMeas
  <2> SUFFICES ASSUME NEW s \in Signals
      PROVE  /\ ~locked'[s] => lock'[s] = 0
             /\ locked'[s] => tracked'[s]
             /\ IF store'[s].seen
                THEN IF broken'[s] THEN lock'[s] <= age'[s]
                     ELSE locked'[s] /\ store'[s].lock <= lock'[s] /\ (ticked' => lock'[s] > 0)
                ELSE store'[s] = NoTrack
      OBVIOUS
  <2>1. tracked'[s] = tracked[s] /\ locked'[s] = locked[s] /\ lock'[s] = lock[s] /\ ticked' = FALSE
        BY <1>2 DEF ParseMeas
  <2>2. CASE tracked[s]
    <3>1. store'[s] = Block(s) /\ broken'[s] = ~locked[s] /\ age'[s] = 0
          BY <1>2, <2>2 DEF ParseMeas, Remember
    <3>2. store'[s].seen /\ store'[s].lock = lock[s]
          BY <3>1 DEF Block
    <3>3. CASE locked[s]
      <4>1. ~broken'[s] /\ locked'[s] /\ tracked'[s]
            BY <2>1, <2>2, <3>1, <3>3
      <4>2. store'[s].lock <= lock'[s]
            BY <2>1, <3>2
      <4> QED BY <2>1, <3>2, <4>1, <4>2
    <3>4. CASE ~locked[s]
          BY <2>1, <2>2, <3>1, <3>2, <3>4
    <3> QED BY <3>3, <3>4
  <2>3. CASE ~tracked[s]
    <3>1. store'[s] = store[s] /\ broken'[s] = broken[s] /\ age'[s] = age[s]
          BY <1>2, <2>3 DEF ParseMeas
    <3> QED BY <2>1, <3>1
  <2> QED BY <2>2, <2>3
<1>3. ASSUME NEW s \in Signals, Acquire(s) PROVE LockTimeBounds'
      BY <1>3 DEF Acquire, driver
<1>4. ASSUME NEW s \in Signals, LockCarrier(s) PROVE LockTimeBounds'
      BY <1>4 DEF LockCarrier, driver
<1>5. ASSUME NEW s \in Signals, LoseLock(s) PROVE LockTimeBounds'
      BY <1>5 DEF LoseLock, driver
<1>6. ASSUME NEW s \in Signals, ChangeStatus(s) PROVE LockTimeBounds'
      BY <1>6 DEF ChangeStatus, driver
<1>7. CASE UNCHANGED vars
      BY <1>7 DEF vars, receiver, driver
<1> QED BY <1>1, <1>2, <1>3, <1>4, <1>5, <1>6, <1>7 DEF Next

-----------------------------------------------------------------------------
(* The stored and the present lock time of every slot stay related as      *)
(* LockTimeBounds says, for every number of signals and every saturation   *)
(* of the receiver's counter.                                              *)
THEOREM BoundsHold == Spec => [](TypeOK /\ LockTimeBounds)
<1>1. Init => TypeOK /\ LockTimeBounds
      BY InitFacts
<1>2. (TypeOK /\ LockTimeBounds) /\ [Next]_vars => (TypeOK /\ LockTimeBounds)'
      BY TypeStep, BoundsStep
<1> QED BY <1>1, <1>2, PTL DEF Spec

(* A loss of lock that the lock times can reveal is flagged with the next  *)
(* block that parse_meas_msg sees, and so is every block of a signal that  *)
(* is tracked without its carrier.                                         *)
THEOREM LossFlaggedHolds == Spec => LossFlagged
<1>1. TypeOK /\ LockTimeBounds /\ [Next]_vars =>
        [\A s \in Signals :
           (/\ ParseMeas /\ tracked[s] /\ store[s].seen /\ broken[s]
            /\ age[s] < store[s].lock \/ ~locked[s]) => slip'[s]]_vars
  <2> SUFFICES ASSUME TypeOK, LockTimeBounds, NEW s \in Signals,
                      ParseMeas, tracked[s], store[s].seen, broken[s],
                      age[s] < store[s].lock \/ ~locked[s]
      PROVE  slip'[s]
      OBVIOUS
  <2>1. age[s] \in Nat /\ lock[s] \in Nat /\ store[s].lock \in Nat
        BY SlipAssumption DEF TypeOK, Tracks
  <2>2. lock[s] <= age[s] /\ (~locked[s] => lock[s] = 0)
        BY DEF LockTimeBounds
  <2>3. lock[s] = 0 \/ lock[s] < store[s].lock
        BY <2>1, <2>2
  <2>4. Slip(store[s], Block(s))
        BY <2>3 DEF Slip, Interrupted, Block
  <2>5. slip'[s] = Slip(store[s], Block(s))
        BY DEF ParseMeas
  <2> QED BY <2>4, <2>5
<1> QED BY <1>1, BoundsHold, PTL DEF Spec, LossFlagged

(* parse_meas_msg flags no slip while the carrier stays in lock and the    *)
(* status bits stay as they are, whatever messages were lost meanwhile.    *)
THEOREM NoFalseAlarmHolds == Spec => NoFalseAlarm
<1>1. TypeOK /\ LockTimeBounds /\ [Next]_vars =>
        [\A s \in Signals : (ParseMeas /\ tracked[s] /\ slip'[s]) =>
           /\ store[s].seen
           /\ broken[s] \/ phase[s] # store[s].phase \/ half[s] # store[s].half]_vars
  <2> SUFFICES ASSUME TypeOK, LockTimeBounds, NEW s \in Signals, ParseMeas, tracked[s], slip'[s]
      PROVE  /\ store[s].seen
             /\ broken[s] \/ phase[s] # store[s].phase \/ half[s] # store[s].half
      OBVIOUS
  <2>1. slip'[s] = Slip(store[s], Block(s))
        BY DEF ParseMeas, TypeOK
  <2>2. Slip(store[s], Block(s))
        BY <2>1
  <2>3. store[s].seen /\ (\/ lock[s] = 0 \/ lock[s] < store[s].lock
                          \/ store[s].phase # phase[s] \/ store[s].half # half[s])
        BY <2>2 DEF Slip, Interrupted, Block
  <2>4. ticked
        BY DEF ParseMeas
  <2>5. lock[s] \in Nat /\ store[s].lock \in Nat
        BY SlipAssumption DEF TypeOK, Tracks
  <2>6. ~broken[s] => store[s].lock <= lock[s] /\ lock[s] > 0
        BY <2>3, <2>4 DEF LockTimeBounds
  <2> QED BY <2>3, <2>5, <2>6
<1> QED BY <1>1, BoundsHold, PTL DEF Spec, NoFalseAlarm
=============================================================================
