------------------------------- MODULE UbxSignals -------------------------------
(***************************************************************************)
(* The tables by which the driver names satellites and signals: sat_no and *)
(* satsys (src/gnss_comm/src/gnss_utility.cpp), ubx_sys, ubx_sig, sig_idx  *)
(* and sig_freq                                                            *)
(* (src/gnss_message_parser/ublox_message_processor_helper.cpp), with the  *)
(* constants of gnss_constant.hpp.  A frequency is counted in units of     *)
(* 500 Hz, of which all of them are multiples.                             *)
(***************************************************************************)
EXTENDS Integers

Systems == {"GPS", "GLO", "GAL", "BDS"}

N_FREQ    == 3
N_SAT_GPS == 32
N_SAT_GLO == 27
N_SAT_GAL == 38
N_SAT_BDS == 63
MAX_SAT   == N_SAT_GPS + N_SAT_GLO + N_SAT_GAL + N_SAT_BDS

-----------------------------------------------------------------------------
(* Variant for mutation: BeiDou begins where Galileo does *)
sat_noOverlapping(sys, prn) ==
  CASE sys = "GPS" /\ prn \in 1 .. N_SAT_GPS -> prn
    [] sys = "GLO" /\ prn \in 1 .. N_SAT_GLO -> N_SAT_GPS + prn
    [] sys = "GAL" /\ prn \in 1 .. N_SAT_GAL -> N_SAT_GPS + N_SAT_GLO + prn
    [] sys = "BDS" /\ prn \in 1 .. N_SAT_BDS -> N_SAT_GPS + N_SAT_GLO + prn
    [] OTHER -> 0

(* system and number within the system to satellite number, 0 for none *)
sat_no(sys, prn) ==
  CASE sys = "GPS" /\ prn \in 1 .. N_SAT_GPS -> prn
    [] sys = "GLO" /\ prn \in 1 .. N_SAT_GLO -> N_SAT_GPS + prn
    [] sys = "GAL" /\ prn \in 1 .. N_SAT_GAL -> N_SAT_GPS + N_SAT_GLO + prn
    [] sys = "BDS" /\ prn \in 1 .. N_SAT_BDS -> N_SAT_GPS + N_SAT_GLO + N_SAT_GAL + prn
    [] OTHER -> 0

(* Variant for mutation: the systems after GLONASS begin one too early *)
satsysShifted(sat) ==
  LET afterGps == sat - N_SAT_GPS
      afterGlo == afterGps - (N_SAT_GLO - 1)
      afterGal == afterGlo - N_SAT_GAL
  IN  CASE sat <= 0 \/ sat > MAX_SAT -> [sys |-> "NONE", prn |-> 0]
        [] sat \in 1 .. N_SAT_GPS -> [sys |-> "GPS", prn |-> sat]
        [] afterGps \in 1 .. N_SAT_GLO - 1 -> [sys |-> "GLO", prn |-> afterGps]
        [] afterGlo \in 1 .. N_SAT_GAL -> [sys |-> "GAL", prn |-> afterGlo]
        [] OTHER -> [sys |-> "BDS", prn |-> afterGal]

(* satellite number to system and number within the system *)
satsys(sat) ==
  LET afterGps == sat - N_SAT_GPS
      afterGlo == afterGps - N_SAT_GLO
      afterGal == afterGlo - N_SAT_GAL
  IN  CASE sat <= 0 \/ sat > MAX_SAT -> [sys |-> "NONE", prn |-> 0]
        [] sat \in 1 .. N_SAT_GPS -> [sys |-> "GPS", prn |-> sat]
        [] afterGps \in 1 .. N_SAT_GLO -> [sys |-> "GLO", prn |-> afterGps]
        [] afterGlo \in 1 .. N_SAT_GAL -> [sys |-> "GAL", prn |-> afterGlo]
        [] OTHER -> [sys |-> "BDS", prn |-> afterGal]

-----------------------------------------------------------------------------
(* constellation number of the receiver to system *)
ubx_sys(gnssid) ==
  CASE gnssid = 0 -> "GPS" [] gnssid = 1 -> "SBS" [] gnssid = 2 -> "GAL"
    [] gnssid = 3 -> "BDS" [] gnssid = 5 -> "QZS" [] gnssid = 6 -> "GLO"
    [] OTHER -> "NONE"

SignalCodes == {
  <<"GPS", 0, "L1C">>, <<"GPS", 3, "L2L">>, <<"GPS", 4, "L2M">>,
  <<"GLO", 0, "L1C">>, <<"GLO", 2, "L2C">>,
  <<"GAL", 0, "L1C">>, <<"GAL", 1, "L1B">>, <<"GAL", 5, "L7I">>, <<"GAL", 6, "L7Q">>,
  <<"BDS", 0, "L1I">>, <<"BDS", 1, "L1I">>, <<"BDS", 2, "L7I">>, <<"BDS", 3, "L7I">>}

(* signal number of the receiver to the code of the observation *)
ubx_sig(sys, sigid) ==
  IF \E row \in SignalCodes : row[1] = sys /\ row[2] = sigid
  THEN (CHOOSE row \in SignalCodes : row[1] = sys /\ row[2] = sigid)[3]
  ELSE "NONE"

SignalSlots == {
  <<"GPS", "L1C", 1>>, <<"GPS", "L2L", 2>>, <<"GPS", "L2M", N_FREQ + 1>>,
  <<"GLO", "L1C", 1>>, <<"GLO", "L2C", 2>>,
  <<"GAL", "L1C", 1>>, <<"GAL", "L1B", N_FREQ + 1>>, <<"GAL", "L7I", 2>>, <<"GAL", "L7Q", 2>>,
  <<"BDS", "L1I", 1>>, <<"BDS", "L7I", 2>>}

(* code to the slot of the satellite in which the signal is tracked *)
sig_idx(sys, code) ==
  IF \E row \in SignalSlots : row[1] = sys /\ row[2] = code
  THEN (CHOOSE row \in SignalSlots : row[1] = sys /\ row[2] = code)[3]
  ELSE 0

(* Variant for mutation: only an unknown signal is skipped *)
UsableKnown(sid) == sid # 0

(* a slot that parse_meas_msg accepts *)
Usable(sid) == sid \in 1 .. N_FREQ

-----------------------------------------------------------------------------
FREQ1     == 3150840
FREQ2     == 2455200
FREQ5     == 2352900
FREQ6     == 2557500
FREQ7     == 2414280
FREQ8     == 2383590
FREQ9     == 4984056
FREQ1_GLO == 3204000
DFRQ1_GLO == 1125
FREQ2_GLO == 2492000
DFRQ2_GLO == 875
FREQ3_GLO == 2404050
FREQ1_BDS == 3122196
FREQ2_BDS == 2414280
FREQ3_BDS == 2537040

lam_carr == <<FREQ1, FREQ2, FREQ5, FREQ6, FREQ7, FREQ8, FREQ9>>
freq_glo == <<FREQ1_GLO, FREQ2_GLO, FREQ3_GLO, 0>>
dfrq_glo == <<DFRQ1_GLO, DFRQ2_GLO, 0, 0>>
freq_bds == <<FREQ1_BDS, FREQ2_BDS, FREQ3_BDS, FREQ2_BDS>>

(* Variant for mutation: slots that begin at 1 index tables that begin at 0 *)
sig_freqOffByOne(sys, sid, fcn) ==
  CASE sys = "GLO" -> freq_glo[sid + 1] + dfrq_glo[sid + 1] * fcn
    [] sys = "BDS" -> freq_bds[sid + 1]
    [] OTHER       -> lam_carr[sid + 1]

(* Carrier of a slot; fcn is the channel of a GLONASS satellite.  The      *)
(* table lam_carr holds wave lengths, in the order of GPS, and serves      *)
(* Galileo too; dividing by the wave length gives the very frequency back. *)
sig_freq(sys, sid, fcn) ==
  CASE sys = "GLO" -> freq_glo[sid] + dfrq_glo[sid] * fcn
    [] sys = "BDS" -> freq_bds[sid]
    [] OTHER       -> lam_carr[sid]
=============================================================================
