-------------------------------- MODULE ObsChain --------------------------------
(***************************************************************************)
(* An epoch of raw observations on its way through the system:             *)
(* parse_meas_msg of the driver                                            *)
(* (src/gnss_message_parser/ublox_message_processor_helper.cpp) turns the  *)
(* blocks of an UBX-RXM-RAWX message into observations, publishObservations *)
(* (ros_handler.cpp) selects constellations, and obs2rinex                 *)
(* (src/gnss_comm/src/rinex_helper.cpp), which bag2rinex calls with what   *)
(* was recorded, writes a row of two bands for every satellite.            *)
(*                                                                         *)
(* Of an observation its carrier and its code are kept, and where it ends  *)
(* up: the measured values only travel along.                              *)
(***************************************************************************)
EXTENDS UbxSignals, Sequences

CONSTANTS
  GnssIds, SvIds, SigIds, FreqIds,  \* what the blocks of a message may hold
  Selected,                         \* systems of the raw observation mask
  MaxBlocks                         \* bound: blocks of a message

ASSUME ChainAssumption ==
  /\ GnssIds \subseteq Nat /\ SvIds \subseteq Nat
  /\ SigIds \subseteq Nat /\ FreqIds \subseteq 0 .. 13
  /\ Selected \subseteq Systems /\ MaxBlocks \in Nat

VARIABLES
  blocks,   \* blocks of the message taken so far
  obs,      \* obs_meas: the signals of each satellite seen
  topic,    \* what was published, or Nothing
  rows      \* the rows of the file, or Nothing

vars == <<blocks, obs, topic, rows>>

Bands   == {0, 1}
Sats    == 1 .. MAX_SAT
Nothing == <<>>

(* of is history: the satellite as the receiver named it *)
Signals == [of   : [sys : Systems, prn : Nat],
            code : {row[3] : row \in SignalCodes},
            sid  : 1 .. N_FREQ,
            fcn  : -7 .. 6,
            freq : Nat]

Seen == {s \in Sats : obs[s] # <<>>}

TypeOK ==
  /\ blocks \in 0 .. MaxBlocks
  /\ \A s \in Sats : \A i \in DOMAIN obs[s] : obs[s][i] \in Signals
  /\ topic # Nothing => DOMAIN topic \subseteq Seen
  /\ rows # Nothing => DOMAIN rows \subseteq DOMAIN topic

Init ==
  /\ blocks = 0
  /\ obs = [s \in Sats |-> <<>>]
  /\ topic = Nothing
  /\ rows = Nothing

-----------------------------------------------------------------------------
Observation(sys, prn, code, sid, fcn) ==
  [of |-> [sys |-> sys, prn |-> prn], code |-> code, sid |-> sid, fcn |-> fcn,
   freq |-> sig_freq(sys, sid, fcn)]

(* obs_meas with one more block; those of an unknown system, satellite or  *)
(* signal are skipped                                                      *)
WithBlock(sys, prn, sigId, freqId) ==
  LET sat  == sat_no(sys, prn)
      code == ubx_sig(sys, sigId)
      sid  == sig_idx(sys, code)
  IN  IF sat = 0 \/ ~Usable(sid) THEN obs
      ELSE [obs EXCEPT ![sat] = Append(@, Observation(sys, prn, code, sid, freqId - 7))]

(* only GLONASS has channels *)
FreqIdsOf(sys) == IF sys = "GLO" THEN FreqIds ELSE {7}

ParseBlock ==
  /\ topic = Nothing /\ blocks < MaxBlocks
  /\ blocks' = blocks + 1
  /\ \E gnssId \in GnssIds, prn \in SvIds, sigId \in SigIds :
       \E freqId \in FreqIdsOf(ubx_sys(gnssId)) :
         obs' = WithBlock(ubx_sys(gnssId), prn, sigId, freqId)
  /\ UNCHANGED <<topic, rows>>

(* publishObservations: an epoch that is empty, or is after the selection, *)
(* is not published                                                        *)
PublishObservations ==
  LET filtered == {s \in Seen : satsys(s).sys \in Selected}
  IN  /\ topic = Nothing /\ filtered # {}
      /\ topic' = [s \in filtered |-> obs[s]]
      /\ UNCHANGED <<blocks, obs, rows>>

(* Variant for mutation: a band of GLONASS is its centre *)
BandRangeGloCentre(sys, band) ==
  IF sys = "GLO" THEN IF band = 0 THEN FREQ1_GLO .. FREQ1_GLO ELSE FREQ2_GLO .. FREQ2_GLO
  ELSE IF band = 0 THEN {FREQ1, FREQ1_BDS} ELSE {FREQ2, FREQ7, FREQ2_BDS}

(* index_freq: the carriers that belong to a band *)
BandRange(sys, band) ==
  CASE sys = "GPS" -> IF band = 0 THEN FREQ1 .. FREQ1 ELSE FREQ2 .. FREQ2
    [] sys = "GLO" -> IF band = 0 THEN FREQ1_GLO - 7 * DFRQ1_GLO .. FREQ1_GLO + 6 * DFRQ1_GLO
                      ELSE FREQ2_GLO - 7 * DFRQ2_GLO .. FREQ2_GLO + 6 * DFRQ2_GLO
    [] sys = "GAL" -> IF band = 0 THEN FREQ1 .. FREQ1 ELSE FREQ7 .. FREQ7
    [] sys = "BDS" -> IF band = 0 THEN FREQ1_BDS .. FREQ1_BDS ELSE FREQ2_BDS .. FREQ2_BDS
    [] OTHER -> {0}

(* index_freq: the first signal in the band, 0 for none *)
index_freq(s, band) ==
  LET hits == {i \in DOMAIN topic[s] : topic[s][i].freq \in BandRange(satsys(s).sys, band)}
  IN  IF hits = {} THEN 0 ELSE CHOOSE i \in hits : \A j \in hits : i <= j

Rounded(num, den) == IF num >= 0 THEN (2 * num + den) \div (2 * den)
                     ELSE -((den - 2 * num) \div (2 * den))

(* Variant for mutation: the first band decides alone *)
get_glo_freqoFirstBand(s) == {Rounded(topic[s][1].freq - FREQ1_GLO, DFRQ1_GLO)}

(* get_glo_freqo: the channels its observations give; emplace keeps the    *)
(* first                                                                   *)
get_glo_freqo(s) ==
  LET f(i) == topic[s][i].freq
      In(x, base, step) == base - 8 * step < x /\ x < base + 7 * step
      hits == {i \in DOMAIN topic[s] : In(f(i), FREQ1_GLO, DFRQ1_GLO) \/ In(f(i), FREQ2_GLO, DFRQ2_GLO)}
      i == CHOOSE k \in hits : \A j \in hits : k <= j
  IN  IF satsys(s).sys # "GLO" \/ hits = {} THEN {}
      ELSE {IF In(f(i), FREQ1_GLO, DFRQ1_GLO) THEN Rounded(f(i) - FREQ1_GLO, DFRQ1_GLO)
            ELSE Rounded(f(i) - FREQ2_GLO, DFRQ2_GLO)}

(* obs2rinex: a row with the columns of both bands, each the index of the  *)
(* signal written there, 0 for blanks; the header gives the channels.      *)
(* sat2str names the satellite.                                            *)
WriteRinex ==
  /\ topic # Nothing /\ rows = Nothing
  /\ rows' = [s \in DOMAIN topic |->
                [name |-> satsys(s),
                 band |-> [b \in Bands |-> index_freq(s, b)],
                 channel |-> get_glo_freqo(s)]]
  /\ UNCHANGED <<blocks, obs, topic>>

Next == ParseBlock \/ PublishObservations \/ WriteRinex

Spec == Init /\ [][Next]_vars

-----------------------------------------------------------------------------
Written == IF rows = Nothing THEN {} ELSE DOMAIN rows

(* The name of a row is the one the receiver gave to the satellite of     *)
(* every signal in it: no two satellites share a number, and none comes    *)
(* back from its number as another.                                        *)
NameOfSatellite ==
  \A s \in Written : \A i \in DOMAIN topic[s] : topic[s][i].of = rows[s].name

(* Each column holds a signal of its own slot. *)
BandOfSlot ==
  \A s \in Written : \A b \in Bands :
    rows[s].band[b] # 0 => topic[s][rows[s].band[b]].sid = b + 1

(* helper line 1484: the carrier of the second Galileo slot, E5b, is taken *)
(* from the second entry of lam_carr, which is that of L2                  *)
WrongCarrier(signal) == signal.of.sys = "GAL" /\ signal.sid = 2

(* A satellite's signal is found again in the column of its slot, that of  *)
(* Galileo E5b excepted: no carrier, and no channel of GLONASS, falls out  *)
(* of the ranges by which obs2rinex tells the bands.                       *)
EverySlotWritten ==
  \A s \in Written : \A i \in DOMAIN topic[s] :
    \/ rows[s].band[topic[s][i].sid - 1] # 0
    \/ WrongCarrier(topic[s][i])

(* The channel of a GLONASS satellite in the header is the one the         *)
(* receiver reported with the satellite's first signal.                    *)
ChannelRecovered ==
  \A s \in Written : satsys(s).sys = "GLO" => rows[s].channel = {topic[s][1].fcn}
=============================================================================
