---------------------------- MODULE ObsChain_proofs ----------------------------
(***************************************************************************)
(* Proofs about UbxSignals and ObsChain.                                   *)
(***************************************************************************)
EXTENDS ObsChain, SequenceTheorems, WellFoundedInduction, TLAPS

USE DEF N_SAT_GPS, N_SAT_GLO, N_SAT_GAL, N_SAT_BDS, MAX_SAT, N_FREQ

(* A number given out by sat_no stays below MAX_SAT, the size of every     *)
(* buffer it indexes, and satsys takes it back to where it came from.      *)
LEMMA SatNumbers ==
  ASSUME NEW sys, NEW prn \in Nat, sat_no(sys, prn) # 0
  PROVE  /\ sys \in Systems
         /\ sat_no(sys, prn) \in Sats
         /\ satsys(sat_no(sys, prn)) = [sys |-> sys, prn |-> prn]
<1>1. CASE sys = "GPS"
  <2>1. sat_no(sys, prn) = prn /\ prn \in 1 .. 32
        BY <1>1 DEF sat_no
  <2> QED BY <1>1, <2>1 DEF satsys, Sats, Systems
<1>2. CASE sys = "GLO"
  <2>1. sat_no(sys, prn) = 32 + prn /\ prn \in 1 .. 27
        BY <1>2 DEF sat_no
  <2> QED BY <1>2, <2>1 DEF satsys, Sats, Systems
<1>3. CASE sys = "GAL"
  <2>1. sat_no(sys, prn) = 59 + prn /\ prn \in 1 .. 38
        BY <1>3 DEF sat_no
  <2> QED BY <1>3, <2>1 DEF satsys, Sats, Systems
<1>4. CASE sys = "BDS"
  <2>1. sat_no(sys, prn) = 97 + prn /\ prn \in 1 .. 63
        BY <1>4 DEF sat_no
  <2> QED BY <1>4, <2>1 DEF satsys, Sats, Systems
<1>5. CASE sys \notin {"GPS", "GLO", "GAL", "BDS"}
      BY <1>5 DEF sat_no
<1> QED BY <1>1, <1>2, <1>3, <1>4, <1>5

(* The code of a usable slot is one of the codes of the receiver. *)
LEMMA UsableCode ==
  ASSUME NEW sys, NEW sigid, Usable(sig_idx(sys, ubx_sig(sys, sigid)))
  PROVE  ubx_sig(sys, sigid) \in {row[3] : row \in SignalCodes}
<1>1. CASE \E row \in SignalCodes : row[1] = sys /\ row[2] = sigid
      BY <1>1 DEF ubx_sig
<1>2. CASE ~ \E row \in SignalCodes : row[1] = sys /\ row[2] = sigid
  <2>1. ubx_sig(sys, sigid) = "NONE"
        BY <1>2 DEF ubx_sig
  <2>2. ~ \E row \in SignalSlots : row[1] = sys /\ row[2] = "NONE"
        BY DEF SignalSlots
  <2> QED BY <2>1, <2>2 DEF sig_idx, Usable
<1> QED BY <1>1, <1>2

(* No code of the receiver belongs to the third slot. *)
LEMMA UsableSlot ==
  ASSUME NEW sys, NEW code, Usable(sig_idx(sys, code))
  PROVE  sig_idx(sys, code) \in {1, 2}
<1>1. CASE \E row \in SignalSlots : row[1] = sys /\ row[2] = code
  <2>1. \E row \in SignalSlots : sig_idx(sys, code) = row[3]
        BY <1>1 DEF sig_idx
  <2>2. \A row \in SignalSlots : row[3] \in {1, 2, N_FREQ + 1}
        BY DEF SignalSlots
  <2> QED BY <2>1, <2>2 DEF Usable
<1>2. CASE ~ \E row \in SignalSlots : row[1] = sys /\ row[2] = code
      BY <1>2, SMTT(60) DEF sig_idx, Usable
<1> QED BY <1>1, <1>2, SMTT(60)

(* A carrier is a natural number of units. *)
LEMMA CarrierType ==
  ASSUME NEW sys, NEW sid \in 1 .. N_FREQ, NEW fcn \in -7 .. 6
  PROVE  sig_freq(sys, sid, fcn) \in Nat
<1> USE DEF lam_carr, freq_glo, dfrq_glo, freq_bds, FREQ1, FREQ2, FREQ5, FREQ6, FREQ7, FREQ8, FREQ9,
            FREQ1_GLO, DFRQ1_GLO, FREQ2_GLO, DFRQ2_GLO, FREQ3_GLO, FREQ1_BDS, FREQ2_BDS, FREQ3_BDS
<1>1. sid = 1 \/ sid = 2 \/ sid = 3
      BY SMTT(60)
<1>2. CASE sys = "GLO"
      BY <1>1, <1>2, SMTT(60) DEF sig_freq
<1>3. CASE sys = "BDS"
      BY <1>1, <1>3, SMTT(60) DEF sig_freq
<1>4. CASE sys \notin {"GLO", "BDS"}
      BY <1>1, <1>4, SMTT(60) DEF sig_freq
<1> QED BY <1>2, <1>3, <1>4, SMTT(60)

(* A carrier lies in band 0 only for slot 1 and in band 1 only for slot 2. *)
LEMMA CarrierBand ==
  ASSUME NEW sys \in Systems, NEW sid \in 1 .. N_FREQ, NEW fcn \in -7 .. 6, NEW band \in Bands,
         sig_freq(sys, sid, fcn) \in BandRange(sys, band)
  PROVE  sid = band + 1
<1> USE DEF lam_carr, freq_glo, dfrq_glo, freq_bds, FREQ1, FREQ2, FREQ5, FREQ6, FREQ7, FREQ8, FREQ9,
            FREQ1_GLO, DFRQ1_GLO, FREQ2_GLO, DFRQ2_GLO, FREQ3_GLO, FREQ1_BDS, FREQ2_BDS, FREQ3_BDS, Bands
<1>1. sid = 1 \/ sid = 2 \/ sid = 3
      BY SMTT(60)
<1>2. CASE sys = "GLO"
  <2> DEFINE f == sig_freq(sys, sid, fcn)
  <2>1. /\ f \in Int
        /\ sid = 1 => 3196125 <= f /\ f <= 3210750
        /\ sid = 2 => 2485875 <= f /\ f <= 2497250
        /\ sid = 3 => f = 2404050
        BY <1>1, <1>2, SMTT(30) DEF sig_freq
  <2>2. /\ FREQ1_GLO - 7 * DFRQ1_GLO = 3196125 /\ FREQ1_GLO + 6 * DFRQ1_GLO = 3210750
        /\ FREQ2_GLO - 7 * DFRQ2_GLO = 2485875 /\ FREQ2_GLO + 6 * DFRQ2_GLO = 2497250
        BY SMTT(60)
  <2>3. f \in BandRange(sys, band)
        BY SMTT(60)
  <2>4. /\ band = 0 => 3196125 <= f /\ f <= 3210750
        /\ band = 1 => 2485875 <= f /\ f <= 2497250
    <3> DEFINE lo1 == FREQ1_GLO - 7 * DFRQ1_GLO
               hi1 == FREQ1_GLO + 6 * DFRQ1_GLO
               lo2 == FREQ2_GLO - 7 * DFRQ2_GLO
               hi2 == FREQ2_GLO + 6 * DFRQ2_GLO
    <3> HIDE DEF f, FREQ1, FREQ2, FREQ7, FREQ1_GLO, DFRQ1_GLO, FREQ2_GLO, DFRQ2_GLO, FREQ1_BDS, FREQ2_BDS
    <3>1. BandRange(sys, band) = IF band = 0 THEN lo1 .. hi1 ELSE lo2 .. hi2
          BY <1>2, SMTT(60) DEF BandRange
    <3>2. lo1 = 3196125 /\ hi1 = 3210750 /\ lo2 = 2485875 /\ hi2 = 2497250
          BY <2>2, SMTT(60)
    <3> HIDE DEF lo1, hi1, lo2, hi2
    <3>3. CASE band = 0
      <4>1. f \in lo1 .. hi1
            BY <2>3, <3>1, <3>3, SMTT(60)
      <4> QED BY <2>1, <3>2, <3>3, <4>1, SMTT(60)
    <3>4. CASE band = 1
      <4>1. f \in lo2 .. hi2
            BY <2>3, <3>1, <3>4, SMTT(60)
      <4> QED BY <2>1, <3>2, <3>4, <4>1, SMTT(60)
    <3> QED BY <3>3, <3>4, SMTT(60)
  <2>5. band = 0 \/ band = 1
        BY SMTT(60)
  <2> HIDE DEF f
  <2> QED BY <1>1, <2>1, <2>4, <2>5, SMTT(30)
<1>3. CASE sys = "BDS"
      BY <1>1, <1>3, SMTT(60) DEF sig_freq, BandRange
<1>4. CASE sys = "GPS"
      BY <1>1, <1>4, SMTT(60) DEF sig_freq, BandRange
<1>5. CASE sys = "GAL"
      BY <1>1, <1>5, SMTT(60) DEF sig_freq, BandRange
<1> QED BY <1>2, <1>3, <1>4, <1>5, SMTT(60) DEF Systems

(* The carrier of either slot lies in the band of the slot, that of        *)
(* Galileo's second excepted.                                              *)
LEMMA SlotBand ==
  ASSUME NEW sys \in Systems, NEW sid \in {1, 2}, NEW fcn \in -7 .. 6,
         ~ (sys = "GAL" /\ sid = 2)
  PROVE  sig_freq(sys, sid, fcn) \in BandRange(sys, sid - 1)
<1> USE DEF lam_carr, freq_glo, dfrq_glo, freq_bds, FREQ1, FREQ2, FREQ5, FREQ6, FREQ7, FREQ8, FREQ9,
            FREQ1_GLO, DFRQ1_GLO, FREQ2_GLO, DFRQ2_GLO, FREQ3_GLO, FREQ1_BDS, FREQ2_BDS, FREQ3_BDS
<1>1. CASE sys = "GLO"
  <2> DEFINE lo1 == FREQ1_GLO - 7 * DFRQ1_GLO
             hi1 == FREQ1_GLO + 6 * DFRQ1_GLO
             lo2 == FREQ2_GLO - 7 * DFRQ2_GLO
             hi2 == FREQ2_GLO + 6 * DFRQ2_GLO
             f1  == FREQ1_GLO + DFRQ1_GLO * fcn
             f2  == FREQ2_GLO + DFRQ2_GLO * fcn
  <2>1. f1 \in lo1 .. hi1 /\ f2 \in lo2 .. hi2
    <3>1. fcn \in Int /\ -7 <= fcn /\ fcn <= 6
          BY SMTT(60)
    <3>2. /\ lo1 = 3204000 - 7 * 1125 /\ f1 = 3204000 + 1125 * fcn /\ hi1 = 3204000 + 6 * 1125
          /\ lo2 = 2492000 - 7 * 875 /\ f2 = 2492000 + 875 * fcn /\ hi2 = 2492000 + 6 * 875
          BY <3>1, SMTT(60)
    <3> HIDE DEF lo1, hi1, lo2, hi2, f1, f2
    <3>3. /\ lo1 \in Int /\ f1 \in Int /\ hi1 \in Int /\ lo1 <= f1 /\ f1 <= hi1
          /\ lo2 \in Int /\ f2 \in Int /\ hi2 \in Int /\ lo2 <= f2 /\ f2 <= hi2
          BY <3>1, <3>2, SMTT(60)
    <3> QED BY <3>3, SMTT(60)
  <2>2. /\ sid = 1 => sig_freq(sys, sid, fcn) = f1
        /\ sid = 2 => sig_freq(sys, sid, fcn) = f2
        BY <1>1, SMTT(60) DEF sig_freq
  <2> HIDE DEF FREQ1, FREQ2, FREQ7, FREQ1_GLO, DFRQ1_GLO, FREQ2_GLO, DFRQ2_GLO, FREQ1_BDS, FREQ2_BDS
  <2>3. \A band \in {0, 1} : BandRange(sys, band) = IF band = 0 THEN lo1 .. hi1 ELSE lo2 .. hi2
        BY <1>1, SMTT(60) DEF BandRange
  <2> HIDE DEF lo1, hi1, lo2, hi2, f1, f2
  <2>4. /\ sid = 1 => BandRange(sys, sid - 1) = lo1 .. hi1
        /\ sid = 2 => BandRange(sys, sid - 1) = lo2 .. hi2
        BY <2>3, SMTT(60)
  <2> QED BY <2>1, <2>2, <2>4, Zenon
<1>2. CASE sys = "BDS"
      BY <1>2, SMTT(60) DEF sig_freq, BandRange
<1>3. CASE sys = "GPS"
      BY <1>3, SMTT(60) DEF sig_freq, BandRange
<1>4. CASE sys = "GAL"
      BY <1>4, SMTT(60) DEF sig_freq, BandRange
<1> QED BY <1>1, <1>2, <1>3, <1>4, SMTT(60) DEF Systems
-----------------------------------------------------------------------------
(* a signal of satellite s, named and tuned as the tables say *)
SignalOf(s, g) ==
  /\ g \in Signals /\ g.sid \in {1, 2}
  /\ g.of = satsys(s)
  /\ g.freq = sig_freq(satsys(s).sys, g.sid, g.fcn)

(* The inductive invariant: what is stored under a satellite belongs to    *)
(* it, what is published is what is stored, and a row is made of what is   *)
(* published.                                                              *)
IInv ==
  /\ blocks \in 0 .. MaxBlocks
  /\ obs \in [Sats -> Seq(Signals)]
  /\ \A s \in Sats : \A i \in DOMAIN obs[s] : SignalOf(s, obs[s][i])
  /\ topic # Nothing => /\ DOMAIN topic \subseteq Seen
                        /\ \A s \in DOMAIN topic : topic[s] = obs[s]
  /\ rows # Nothing =>
       /\ topic # Nothing
       /\ DOMAIN rows \subseteq DOMAIN topic
       /\ \A s \in DOMAIN rows :
            /\ rows[s].name = satsys(s)
            /\ rows[s].channel = get_glo_freqo(s)
            /\ \A b \in Bands : rows[s].band[b] = index_freq(s, b)

LEMMA InitIInv == Init => IInv
<1> SUFFICES ASSUME Init PROVE IInv
    OBVIOUS
<1>1. blocks \in 0 .. MaxBlocks
      BY ChainAssumption DEF Init
<1>2. obs \in [Sats -> Seq(Signals)] /\ \A s \in Sats : DOMAIN obs[s] = {}
      BY EmptySeq DEF Init
<1> QED BY <1>1, <1>2 DEF Init, IInv

(* Appending a signal of satellite t to its own observations. *)
LEMMA AppendSignal ==
  ASSUME IInv, NEW t \in Sats, NEW g, SignalOf(t, g),
         obs' = [obs EXCEPT ![t] = Append(@, g)]
  PROVE  /\ obs' \in [Sats -> Seq(Signals)]
         /\ \A s \in Sats : \A i \in DOMAIN obs'[s] : SignalOf(s, obs'[s][i])
<1>1. g \in Signals /\ obs[t] \in Seq(Signals)
      BY DEF SignalOf, IInv
<1>2. /\ Append(obs[t], g) \in Seq(Signals)
      /\ Len(Append(obs[t], g)) = Len(obs[t]) + 1
      /\ \A i \in 1 .. Len(obs[t]) : Append(obs[t], g)[i] = obs[t][i]
      /\ Append(obs[t], g)[Len(obs[t]) + 1] = g
      BY <1>1, AppendProperties
<1>3. obs' \in [Sats -> Seq(Signals)] /\ obs'[t] = Append(obs[t], g)
      /\ \A s \in Sats \ {t} : obs'[s] = obs[s]
      BY <1>2 DEF IInv
<1>4. ASSUME NEW i \in DOMAIN obs'[t] PROVE SignalOf(t, obs'[t][i])
  <2>1. Len(obs[t]) \in Nat /\ DOMAIN obs[t] = 1 .. Len(obs[t])
        BY <1>1, LenProperties
  <2>2. i \in 1 .. Len(obs[t]) + 1
        BY <1>2, <1>3, LenProperties
  <2>3. CASE i = Len(obs[t]) + 1
        BY <1>2, <1>3, <2>3
  <2>4. CASE i \in 1 .. Len(obs[t])
    <3>1. obs'[t][i] = obs[t][i]
          BY <1>2, <1>3, <2>4
    <3> QED BY <2>1, <2>4, <3>1 DEF IInv
  <2> QED BY <2>1, <2>2, <2>3, <2>4
<1>5. ASSUME NEW s \in Sats, s # t, NEW i \in DOMAIN obs'[s] PROVE SignalOf(s, obs'[s][i])
      BY <1>3, <1>5 DEF IInv
<1> QED BY <1>3, <1>4, <1>5

(* A block is skipped or appended to its satellite. *)
LEMMA ParseStep == IInv /\ ParseBlock => IInv'
<1> SUFFICES ASSUME IInv, ParseBlock PROVE IInv'
    OBVIOUS
<1>1. topic = Nothing /\ topic' = Nothing /\ rows = Nothing /\ rows' = Nothing
      BY DEF ParseBlock, IInv
<1>2. blocks' \in 0 .. MaxBlocks
      BY ChainAssumption DEF ParseBlock, IInv
<1>3. PICK gnssId \in GnssIds, prn \in SvIds, sigId \in SigIds :
        \E freqId \in FreqIdsOf(ubx_sys(gnssId)) :
          obs' = WithBlock(ubx_sys(gnssId), prn, sigId, freqId)
      BY DEF ParseBlock
<1>8. PICK freqId \in FreqIdsOf(ubx_sys(gnssId)) :
        obs' = WithBlock(ubx_sys(gnssId), prn, sigId, freqId)
      BY <1>3
<1> DEFINE sys  == ubx_sys(gnssId)
           sat  == sat_no(sys, prn)
           code == ubx_sig(sys, sigId)
           sid  == sig_idx(sys, code)
           g    == Observation(sys, prn, code, sid, freqId - 7)
<1>4. prn \in Nat /\ freqId - 7 \in -7 .. 6
      BY ChainAssumption DEF FreqIdsOf
<1> HIDE DEF sys
<1>5. obs' = WithBlock(sys, prn, sigId, freqId)
      BY <1>8 DEF sys
<1>6. CASE sat = 0 \/ ~Usable(sid)
  <2>1. obs' = obs
        BY <1>5, <1>6 DEF WithBlock
  <2> QED BY <1>1, <1>2, <2>1 DEF IInv
<1>7. CASE sat # 0 /\ Usable(sid)
  <2>1. obs' = [obs EXCEPT ![sat] = Append(@, g)]
        BY <1>5, <1>7 DEF WithBlock
  <2>2. sys \in Systems /\ sat \in Sats /\ satsys(sat) = [sys |-> sys, prn |-> prn]
        BY <1>4, <1>7, SatNumbers
  <2>3. sid \in 1 .. N_FREQ /\ sid \in {1, 2} /\ code \in {row[3] : row \in SignalCodes}
        BY <1>7, UsableCode, UsableSlot DEF Usable
  <2>4. SignalOf(sat, g)
    <3> HIDE DEF sat, code, sid
    <3>1. sig_freq(sys, sid, freqId - 7) \in Nat
          BY <1>4, <2>3, CarrierType
    <3> QED BY <1>4, <2>2, <2>3, <3>1 DEF SignalOf, Signals, Observation
  <2>5. /\ obs' \in [Sats -> Seq(Signals)]
        /\ \A s \in Sats : \A i \in DOMAIN obs'[s] : SignalOf(s, obs'[s][i])
    <3> HIDE DEF sat, g
    <3> QED BY <2>1, <2>2, <2>4, AppendSignal
  <2> QED BY <1>1, <1>2, <2>5 DEF IInv
<1> QED BY <1>6, <1>7

LEMMA PublishStep == IInv /\ PublishObservations => IInv'
<1> SUFFICES ASSUME IInv, PublishObservations PROVE IInv'
    OBVIOUS
<1>1. rows = Nothing /\ rows' = Nothing
      BY DEF PublishObservations, IInv
<1>2. blocks' = blocks /\ obs' = obs
      BY DEF PublishObservations
<1>3. DOMAIN topic' \subseteq Seen' /\ \A s \in DOMAIN topic' : topic'[s] = obs'[s]
      BY <1>2 DEF PublishObservations, Seen
<1> QED BY <1>1, <1>2, <1>3 DEF IInv

(* A set of natural numbers that is not empty has a least element. *)
LEMMA LeastElement ==
  ASSUME NEW T, T \subseteq Nat, T # {}
  PROVE  \E i \in T : \A j \in T : i <= j
<1>1. PICK i \in T : \A j \in T : ~ (<<j, i>> \in OpToRel(<, Nat))
      BY NatLessThanWellFounded, WFMin, Zenon
<1>2. \A j \in T : i <= j
  <2> SUFFICES ASSUME NEW j \in T PROVE i <= j
      OBVIOUS
  <2>1. ~ (j < i)
        BY <1>1, Zenon DEF OpToRel
  <2> QED BY <2>1
<1> QED BY <1>2

(* What index_freq finds is a published signal in the band. *)
LEMMA IndexFreq ==
  ASSUME NEW s, DOMAIN topic[s] \subseteq Nat, NEW b, index_freq(s, b) # 0
  PROVE  /\ index_freq(s, b) \in DOMAIN topic[s]
         /\ topic[s][index_freq(s, b)].freq \in BandRange(satsys(s).sys, b)
<1> DEFINE hits == {i \in DOMAIN topic[s] : topic[s][i].freq \in BandRange(satsys(s).sys, b)}
<1>1. index_freq(s, b) = IF hits = {} THEN 0 ELSE CHOOSE i \in hits : \A j \in hits : i <= j
      BY DEF index_freq
<1>2. hits # {} => \E i \in hits : \A j \in hits : i <= j
      BY LeastElement
<1>3. index_freq(s, b) \in hits
  <2> HIDE DEF hits
  <2> QED BY <1>1, <1>2
<1> QED BY <1>3

LEMMA WriteStep == IInv /\ WriteRinex => IInv'
<1> SUFFICES ASSUME IInv, WriteRinex PROVE IInv'
    OBVIOUS
<1>1. blocks' = blocks /\ obs' = obs /\ topic' = topic /\ topic # Nothing
      BY DEF WriteRinex
<1>2. DOMAIN rows' = DOMAIN topic
      BY DEF WriteRinex
<1>3. ASSUME NEW s \in DOMAIN rows'
      PROVE  /\ rows'[s].name = satsys(s)
             /\ rows'[s].channel = get_glo_freqo(s)
             /\ \A b \in Bands : rows'[s].band[b] = index_freq(s, b)
      BY <1>3 DEF WriteRinex
<1>4. \A s : get_glo_freqo(s)' = get_glo_freqo(s)
      BY <1>1 DEF get_glo_freqo
<1>5. \A s, b : index_freq(s, b)' = index_freq(s, b)
      BY <1>1 DEF index_freq
<1> QED BY <1>1, <1>2, <1>3, <1>4, <1>5 DEF IInv, Seen

LEMMA IInvInvariant == Spec => []IInv
<1>1. IInv /\ UNCHANGED vars => IInv'
  <2> SUFFICES ASSUME IInv, UNCHANGED vars PROVE IInv'
      OBVIOUS
  <2>1. topic' = topic /\ obs' = obs /\ rows' = rows /\ blocks' = blocks
        BY DEF vars
  <2>2. \A s : get_glo_freqo(s)' = get_glo_freqo(s)
        BY <2>1 DEF get_glo_freqo
  <2>3. \A s, b : index_freq(s, b)' = index_freq(s, b)
        BY <2>1 DEF index_freq
  <2> QED BY <2>1, <2>2, <2>3 DEF IInv, Seen
<1>2. IInv /\ [Next]_vars => IInv'
      BY <1>1, ParseStep, PublishStep, WriteStep DEF Next
<1> QED BY InitIInv, <1>2, PTL DEF Spec

-----------------------------------------------------------------------------
(* Types are kept for every message, whatever numbers its blocks hold. *)
THEOREM TypeCorrect == Spec => []TypeOK
<1>1. IInv => TypeOK
      BY DEF IInv, TypeOK, SignalOf
<1> QED BY <1>1, IInvInvariant, PTL

(* From the receiver's block to the row of the file, every signal of every *)
(* message stays with its satellite: sat_no and satsys are inverse.        *)
THEOREM NameOfSatelliteHolds == Spec => []NameOfSatellite
<1>1. IInv => NameOfSatellite
  <2> SUFFICES ASSUME IInv, NEW s \in Written, NEW i \in DOMAIN topic[s]
      PROVE  topic[s][i].of = rows[s].name
      BY DEF NameOfSatellite
  <2>1. rows # Nothing /\ s \in DOMAIN rows
        BY DEF Written
  <2>2. s \in DOMAIN topic /\ rows[s].name = satsys(s)
        BY <2>1 DEF IInv
  <2>3. s \in Sats /\ topic[s] = obs[s]
        BY <2>1, <2>2 DEF IInv, Seen
  <2> QED BY <2>2, <2>3 DEF IInv, SignalOf
<1> QED BY <1>1, IInvInvariant, PTL

(* No column of the file holds a signal of another slot, for every system, *)
(* every slot and every GLONASS channel.                                   *)
THEOREM BandOfSlotHolds == Spec => []BandOfSlot
<1>1. IInv => BandOfSlot
  <2> SUFFICES ASSUME IInv, NEW s \in Written, NEW b \in Bands, rows[s].band[b] # 0
      PROVE  topic[s][rows[s].band[b]].sid = b + 1
      BY DEF BandOfSlot
  <2> DEFINE g == topic[s][rows[s].band[b]]
  <2>1. rows # Nothing /\ s \in DOMAIN rows
        BY DEF Written
  <2>6. s \in DOMAIN topic /\ rows[s].band[b] = index_freq(s, b)
        BY <2>1 DEF IInv
  <2>3. s \in Sats /\ topic[s] = obs[s] /\ DOMAIN topic[s] \subseteq Nat
        BY <2>1, <2>6, LenProperties DEF IInv, Seen
  <2>2. rows[s].band[b] \in DOMAIN topic[s] /\ g.freq \in BandRange(satsys(s).sys, b)
        BY <2>3, <2>6, IndexFreq
  <2>4. SignalOf(s, g)
        BY <2>2, <2>3 DEF IInv
  <2>5. satsys(s).sys \in Systems /\ g.sid \in 1 .. N_FREQ /\ g.fcn \in -7 .. 6
        BY <2>4 DEF SignalOf, Signals
  <2> QED BY <2>2, <2>4, <2>5, CarrierBand DEF SignalOf
<1> QED BY <1>1, IInvInvariant, PTL

(* What a row is made of: published signals of the row's satellite.        *)
LEMMA RowSource ==
  ASSUME IInv, NEW s \in Written
  PROVE  /\ rows[s].channel = get_glo_freqo(s)
         /\ \A b \in Bands : rows[s].band[b] = index_freq(s, b)
         /\ Len(topic[s]) \in Nat \ {0} /\ DOMAIN topic[s] = 1 .. Len(topic[s])
         /\ \A i \in DOMAIN topic[s] : SignalOf(s, topic[s][i])
<1>1. rows # Nothing /\ s \in DOMAIN rows
      BY DEF Written
<1>2. s \in DOMAIN topic /\ topic # Nothing
      BY <1>1 DEF IInv
<1>3. s \in Sats /\ topic[s] = obs[s] /\ obs[s] # <<>> /\ obs[s] \in Seq(Signals)
      BY <1>2 DEF IInv, Seen
<1>4. Len(topic[s]) \in Nat \ {0} /\ DOMAIN topic[s] = 1 .. Len(topic[s])
      BY <1>3, LenProperties, EmptySeq
<1> QED BY <1>1, <1>3, <1>4 DEF IInv

(* No signal is lost on the way to the file but Galileo E5b, whatever the  *)
(* channels of the GLONASS satellites.                                     *)
THEOREM EverySlotWrittenHolds == Spec => []EverySlotWritten
<1>1. IInv => EverySlotWritten
  <2> SUFFICES ASSUME IInv, NEW s \in Written, NEW i \in DOMAIN topic[s], ~ WrongCarrier(topic[s][i])
      PROVE  rows[s].band[topic[s][i].sid - 1] # 0
      BY DEF EverySlotWritten
  <2> DEFINE g == topic[s][i]
             b == g.sid - 1
             hits == {k \in DOMAIN topic[s] : topic[s][k].freq \in BandRange(satsys(s).sys, b)}
  <2>1. SignalOf(s, g) /\ DOMAIN topic[s] \subseteq Nat \ {0}
        BY RowSource
  <2>2. /\ g.sid \in {1, 2} /\ g.fcn \in -7 .. 6 /\ satsys(s).sys \in Systems
        /\ ~ (satsys(s).sys = "GAL" /\ g.sid = 2)
        BY <2>1 DEF SignalOf, Signals, WrongCarrier
  <2>3. g.freq \in BandRange(satsys(s).sys, b)
    <3> HIDE DEF g
    <3> QED BY <2>1, <2>2, SlotBand DEF SignalOf
  <2>4. b \in Bands
        BY <2>2 DEF Bands
  <2>5. rows[s].band[b] = index_freq(s, b)
        BY <2>4, RowSource
  <2>6. hits # {} /\ hits \subseteq Nat \ {0}
        BY <2>1, <2>3
  <2>7. index_freq(s, b) = IF hits = {} THEN 0 ELSE CHOOSE k \in hits : \A j \in hits : k <= j
        BY DEF index_freq
  <2> HIDE DEF hits, b
  <2>8. \E k \in hits : \A j \in hits : k <= j
        BY <2>6, LeastElement
  <2>9. rows[s].band[b] \in hits
        BY <2>5, <2>6, <2>7, <2>8
  <2>10. rows[s].band[b] # 0
        BY <2>6, <2>9
  <2> QED BY <2>10 DEF b
<1> QED BY <1>1, IInvInvariant, PTL

(* The carrier of a GLONASS signal gives its channel back. *)
LEMMA ChannelOfCarrier ==
  ASSUME NEW sid \in {1, 2}, NEW fcn \in -7 .. 6, NEW f, f = sig_freq("GLO", sid, fcn)
  PROVE  /\ f \in Int
         /\ sid = 1 => /\ FREQ1_GLO - 8 * DFRQ1_GLO < f /\ f < FREQ1_GLO + 7 * DFRQ1_GLO
                       /\ Rounded(f - FREQ1_GLO, DFRQ1_GLO) = fcn
         /\ sid = 2 => /\ ~ (FREQ1_GLO - 8 * DFRQ1_GLO < f /\ f < FREQ1_GLO + 7 * DFRQ1_GLO)
                       /\ FREQ2_GLO - 8 * DFRQ2_GLO < f /\ f < FREQ2_GLO + 7 * DFRQ2_GLO
                       /\ Rounded(f - FREQ2_GLO, DFRQ2_GLO) = fcn
<1> USE DEF freq_glo, dfrq_glo, FREQ1_GLO, DFRQ1_GLO, FREQ2_GLO, DFRQ2_GLO, FREQ3_GLO
<1>1. CASE sid = 1
  <2>1. f = 3204000 + 1125 * fcn
        BY <1>1, SMTT(30) DEF sig_freq
  <2>2. Rounded(f - FREQ1_GLO, DFRQ1_GLO) = fcn
        BY <2>1, SMTT(30) DEF Rounded
  <2> QED BY <1>1, <2>1, <2>2, SMTT(30)
<1>2. CASE sid = 2
  <2>1. f = 2492000 + 875 * fcn
        BY <1>2, SMTT(30) DEF sig_freq
  <2>2. Rounded(f - FREQ2_GLO, DFRQ2_GLO) = fcn
        BY <2>1, SMTT(30) DEF Rounded
  <2> QED BY <1>2, <2>1, <2>2, SMTT(30)
<1> QED BY <1>1, <1>2

(* The header gives the channel of every GLONASS satellite, for each of    *)
(* the fourteen and whichever of its signals came first.                   *)
THEOREM ChannelRecoveredHolds == Spec => []ChannelRecovered
<1>1. IInv => ChannelRecovered
  <2> SUFFICES ASSUME IInv, NEW s \in Written, satsys(s).sys = "GLO"
      PROVE  rows[s].channel = {topic[s][1].fcn}
      BY DEF ChannelRecovered
  <2> DEFINE f(i) == topic[s][i].freq
             In(x, base, step) == base - 8 * step < x /\ x < base + 7 * step
             hits == {i \in DOMAIN topic[s] :
                        In(f(i), FREQ1_GLO, DFRQ1_GLO) \/ In(f(i), FREQ2_GLO, DFRQ2_GLO)}
             first == CHOOSE k \in hits : \A j \in hits : k <= j
             g == topic[s][1]
  <2>1. SignalOf(s, g) /\ 1 \in DOMAIN topic[s] /\ DOMAIN topic[s] \subseteq Nat \ {0}
        BY RowSource
  <2>2. /\ g.sid \in {1, 2} /\ g.fcn \in -7 .. 6 /\ f(1) = sig_freq("GLO", g.sid, g.fcn)
        BY <2>1 DEF SignalOf, Signals
  <2>3. /\ In(f(1), FREQ1_GLO, DFRQ1_GLO) \/ In(f(1), FREQ2_GLO, DFRQ2_GLO)
        /\ (IF In(f(1), FREQ1_GLO, DFRQ1_GLO) THEN Rounded(f(1) - FREQ1_GLO, DFRQ1_GLO)
            ELSE Rounded(f(1) - FREQ2_GLO, DFRQ2_GLO)) = g.fcn
    <3> HIDE DEF g, f
    <3> QED BY <2>2, ChannelOfCarrier
  <2>4. 1 \in hits /\ hits \subseteq Nat \ {0}
        BY <2>1, <2>3
  <2>5. first = 1
    <3>1. \E k \in hits : \A j \in hits : k <= j
      <4> HIDE DEF hits
      <4> QED BY <2>4
    <3>2. first \in hits /\ \A j \in hits : first <= j
      <4> HIDE DEF hits
      <4> QED BY <3>1, Zenon
    <3> HIDE DEF hits, first
    <3> QED BY <2>4, <3>2
  <2>6. rows[s].channel =
          IF satsys(s).sys # "GLO" \/ hits = {} THEN {}
          ELSE {IF In(f(first), FREQ1_GLO, DFRQ1_GLO) THEN Rounded(f(first) - FREQ1_GLO, DFRQ1_GLO)
                ELSE Rounded(f(first) - FREQ2_GLO, DFRQ2_GLO)}
        BY RowSource DEF get_glo_freqo
  <2> HIDE DEF hits, first, f, In, g
  <2> QED BY <2>3, <2>4, <2>5, <2>6 DEF g
<1> QED BY <1>1, IInvInvariant, PTL
=============================================================================
