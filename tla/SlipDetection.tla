----------------------------- MODULE SlipDetection -----------------------------
(***************************************************************************)
(* How the driver finds out that the carrier phase of a signal was         *)
(* interrupted: the part of parse_meas_msg                                 *)
(* (src/gnss_message_parser/ublox_message_processor_helper.cpp) that       *)
(* compares a block of an UBX-RXM-RAWX message with what it remembers of   *)
(* the same slot of the satellite, against a receiver that tracks, loses   *)
(* and acquires the signal and may fail to deliver messages.  A signal may *)
(* be tracked by its code alone: then it is in every message, with a lock  *)
(* time of zero, until the carrier is in lock.                             *)
(*                                                                         *)
(* Time is counted in units of the lock time.  A signal stands for a slot  *)
(* of a satellite, the key of signal_track_lock_times_ and                 *)
(* signal_track_state_; the two maps always hold the same keys.            *)
(***************************************************************************)
EXTENDS Naturals

CONSTANTS
  Signals,   \* slots of satellites in view
  MaxLock,   \* the lock time at which the receiver stops counting
  MaxAge     \* bound: how far the time between two blocks is counted

ASSUME SlipAssumption == MaxLock \in Nat \ {0} /\ MaxAge \in Nat /\ MaxLock <= MaxAge

VARIABLES
  tracked,  \* the receiver tracks the signal: its messages have a block of it
  locked,   \* and its carrier is in lock
  lock,     \* the lock time of the carrier
  phase,    \* trkStat bit 1: the phase is valid
  half,     \* trkStat bit 3: half a cycle was subtracted
  store,    \* what the driver remembers of the slot
  slip,     \* the slip flag of the last block of the signal
  ticked,   \* time has passed since the last message
  age,      \* history: time since the last block that was parsed
  broken    \* history: the carrier was out of lock at that block or since

receiver == <<tracked, locked, lock, phase, half, ticked>>
driver   == <<store, slip>>
vars     == <<receiver, driver, age, broken>>

Tracks  == [seen : BOOLEAN, lock : 0 .. MaxLock, phase : BOOLEAN, half : BOOLEAN]
NoTrack == [seen |-> FALSE, lock |-> 0, phase |-> FALSE, half |-> FALSE]

TypeOK ==
  /\ tracked \in [Signals -> BOOLEAN]
  /\ locked \in [Signals -> BOOLEAN]
  /\ lock \in [Signals -> 0 .. MaxLock]
  /\ phase \in [Signals -> BOOLEAN]
  /\ half \in [Signals -> BOOLEAN]
  /\ store \in [Signals -> Tracks]
  /\ slip \in [Signals -> BOOLEAN]
  /\ ticked \in BOOLEAN
  /\ age \in [Signals -> 0 .. MaxAge]
  /\ broken \in [Signals -> BOOLEAN]

Everywhere(v) == [s \in Signals |-> v]

Init ==
  /\ tracked = Everywhere(FALSE) /\ locked = Everywhere(FALSE) /\ lock = Everywhere(0)
  /\ phase = Everywhere(FALSE) /\ half = Everywhere(FALSE)
  /\ store = Everywhere(NoTrack) /\ slip = Everywhere(FALSE)
  /\ ticked = FALSE
  /\ age = Everywhere(0) /\ broken = Everywhere(FALSE)

Least(a, b) == IF a <= b THEN a ELSE b

-----------------------------------------------------------------------------
(* The receiver *)

(* only a carrier in lock has a lock time that grows *)
Tick ==
  /\ lock' = [s \in Signals |-> IF locked[s] THEN Least(lock[s] + 1, MaxLock) ELSE 0]
  /\ age' = [s \in Signals |-> Least(age[s] + 1, MaxAge)]
  /\ ticked' = TRUE
  /\ UNCHANGED <<tracked, locked, phase, half, driver, broken>>

(* the code first *)
Acquire(s) ==
  /\ ~tracked[s]
  /\ tracked' = [tracked EXCEPT ![s] = TRUE]
  /\ UNCHANGED <<locked, lock, phase, half, ticked, driver, age, broken>>

LockCarrier(s) ==
  /\ tracked[s] /\ ~locked[s]
  /\ locked' = [locked EXCEPT ![s] = TRUE]
  /\ UNCHANGED <<tracked, lock, phase, half, ticked, driver, age, broken>>

(* the carrier alone, or the signal *)
LoseLock(s) ==
  /\ tracked[s]
  /\ \/ locked[s] /\ UNCHANGED tracked
     \/ tracked' = [tracked EXCEPT ![s] = FALSE]
  /\ locked' = [locked EXCEPT ![s] = FALSE]
  /\ lock' = [lock EXCEPT ![s] = 0]
  /\ broken' = [broken EXCEPT ![s] = TRUE]
  /\ UNCHANGED <<phase, half, ticked, driver, age>>

ChangeStatus(s) ==
  /\ \/ phase' = [phase EXCEPT ![s] = ~@] /\ UNCHANGED half
     \/ half' = [half EXCEPT ![s] = ~@] /\ UNCHANGED phase
  /\ UNCHANGED <<tracked, locked, lock, ticked, driver, age, broken>>

-----------------------------------------------------------------------------
(* The driver *)

Block(s) == [seen |-> TRUE, lock |-> lock[s], phase |-> phase[s], half |-> half[s]]

(* Variant for mutation: the lock time is rounded up *)
RememberRoundedUp(block) == [block EXCEPT !.lock = Least(@ + 1, MaxLock)]

(* the lock time in seconds and the low four bits of trkStat *)
Remember(block) == block

(* Variant for mutation: a lock time that has not grown tells a loss *)
InterruptedOrEqual(prev, block) == block.lock = 0 \/ block.lock <= prev.lock

(* Variant for mutation: only a lock time of zero tells a loss *)
InterruptedAtZero(prev, block) == block.lock = 0

(* "lockTime" is zero or has gone back *)
Interrupted(prev, block) == block.lock = 0 \/ block.lock < prev.lock

(* the first block of a slot only initialises it *)
Slip(prev, block) ==
  /\ prev.seen
  /\ \/ Interrupted(prev, block)
     \/ prev.phase # block.phase
     \/ prev.half # block.half

(* A message with a block for every tracked signal.  The messages that do  *)
(* not arrive, are refused or come before the receiver has its time leave  *)
(* no trace; some time passes between two messages.                        *)
ParseMeas ==
  /\ ticked /\ ticked' = FALSE
  /\ slip' = [s \in Signals |-> IF tracked[s] THEN Slip(store[s], Block(s)) ELSE slip[s]]
  /\ store' = [s \in Signals |-> IF tracked[s] THEN Remember(Block(s)) ELSE store[s]]
  /\ age' = [s \in Signals |-> IF tracked[s] THEN 0 ELSE age[s]]
  /\ broken' = [s \in Signals |-> IF tracked[s] THEN ~locked[s] ELSE broken[s]]
  /\ UNCHANGED <<tracked, locked, lock, phase, half>>

Next ==
  \/ Tick
  \/ ParseMeas
  \/ \E s \in Signals : Acquire(s) \/ LockCarrier(s) \/ LoseLock(s) \/ ChangeStatus(s)

Spec == Init /\ [][Next]_vars

-----------------------------------------------------------------------------
(* However many messages were lost meanwhile, a carrier that was not in    *)
(* lock all the time since the last block that was parsed is flagged with  *)
(* the next one, unless it is in lock again and the slot had been in lock  *)
(* for no longer than the time since that block: then the new lock time    *)
(* may have caught up and the loss cannot be told.                         *)
LossFlagged ==
  [][\A s \in Signals :
       (/\ ParseMeas /\ tracked[s] /\ store[s].seen /\ broken[s]
        /\ age[s] < store[s].lock \/ ~locked[s]) => slip'[s]]_vars

(* A slip flag has a cause: the carrier was not in lock all the time since *)
(* the last block that was parsed, or a bit of the status differs from the *)
(* one sent then.  A signal tracked by its code alone has the first cause  *)
(* in every message: line 165 flags each of its blocks but the first, and  *)
(* the first of the carrier that is then in lock.                          *)
NoFalseAlarm ==
  [][\A s \in Signals :
       (ParseMeas /\ tracked[s] /\ slip'[s]) =>
         /\ store[s].seen
         /\ broken[s] \/ phase[s] # store[s].phase \/ half[s] # store[s].half]_vars

(* What the two rest on: while the lock holds the stored lock time is a    *)
(* lower bound of the present one, and after a loss the present one is no  *)
(* longer than the time since the block.                                   *)
LockTimeBounds ==
  \A s \in Signals :
    /\ ~locked[s] => lock[s] = 0
    /\ locked[s] => tracked[s]
    /\ IF store[s].seen
       THEN IF broken[s] THEN lock[s] <= age[s]
            ELSE locked[s] /\ store[s].lock <= lock[s] /\ (ticked => lock[s] > 0)
       ELSE store[s] = NoTrack
=============================================================================
