------------------------- MODULE SubframeDispatch_proofs -------------------------
(***************************************************************************)
(* SubframeDispatch for every set of satellites, every system that is      *)
(* published, every cycle of Galileo words and any number of subframes,    *)
(* losses and changes of the data.                                         *)
(***************************************************************************)
EXTENDS SubframeDispatch, TLAPS

-----------------------------------------------------------------------------
(* GPS: the subframes of the current frame, as far as it was received      *)
(* without a hole, are in their slots.                                     *)
GpsInv ==
  /\ Gps!TypeOK
  /\ streak \in {1, 2} =>
       \A i \in 1 .. streak : subfrm[i].id = i /\ subfrm[i].z = count - streak + i - 1

LEMMA GpsParse ==
  ASSUME GpsInv, Gps!ParseSubframe
  PROVE  GpsInv' /\ Gps!FromCurrentFrame /\ Gps!CompleteFrameDecoded
<1> USE DEF Gps!Ids, Gps!Parts
<1> DEFINE id  == Gps!IdOf(count)
           sub == [id |-> id, z |-> count, issue |-> issue]
<1>1. id \in 1 .. 5 /\ id \in 0 .. 5 /\ count \in Nat /\ count' = count + 1
      BY DEF GpsInv, Gps!TypeOK, Gps!IdOf, Gps!ParseSubframe, Gps!Sent
<1>2. /\ issue \in Gps!Issues /\ issue' = issue
      /\ subfrm \in [1 .. 5 -> Gps!Subframes] /\ \A i \in 1 .. 5 : subfrm[i].id \in {0, i}
      /\ published \in [parts : [1 .. 3 -> Gps!Subframes], toe : BOOLEAN]
      /\ streak \in 0 .. 5
      BY DEF GpsInv, Gps!TypeOK, Gps!ParseSubframe
<1>3. /\ subfrm' = [subfrm EXCEPT ![id] = sub]
      /\ published' = IF id = 3 /\ Gps!Received(subfrm') THEN Gps!Decoded(subfrm') ELSE published
      BY DEF Gps!ParseSubframe, Gps!DecodeSubframe
<1>4. streak' = IF id = 1 THEN 1 ELSE IF streak = id - 1 THEN id ELSE 0
      BY DEF Gps!ParseSubframe
<1>5. sub \in Gps!Subframes /\ sub.id = id /\ sub.z = count /\ sub.issue = issue
      BY <1>1, <1>2 DEF Gps!Subframes
<1> HIDE DEF id, sub
<1>6. /\ subfrm' \in [1 .. 5 -> Gps!Subframes] /\ subfrm'[id] = sub
      /\ \A i \in 1 .. 5 : i # id => subfrm'[i] = subfrm[i]
      BY <1>1, <1>2, <1>3, <1>5
<1>7. \A i \in 1 .. 5 : subfrm'[i].id \in {0, i}
      BY <1>2, <1>5, <1>6
<1>8. Gps!Decoded(subfrm') \in [parts : [1 .. 3 -> Gps!Subframes], toe : BOOLEAN]
  <2>1. [i \in 1 .. 3 |-> subfrm'[i]] \in [1 .. 3 -> Gps!Subframes]
        BY <1>6
  <2>2. Gps!SameIssue(subfrm') \in BOOLEAN
        BY DEF Gps!SameIssue
  <2> QED BY <2>1, <2>2, Zenon DEF Gps!Decoded
<1>9. published' \in [parts : [1 .. 3 -> Gps!Subframes], toe : BOOLEAN]
      BY <1>2, <1>3, <1>8, Zenon
<1>10. Gps!TypeOK'
      BY <1>1, <1>2, <1>4, <1>6, <1>7, <1>9 DEF Gps!TypeOK, Gps!Issues, Gps!Subframes
<1>11. streak' \in {1, 2} =>
         \A i \in 1 .. streak' : subfrm'[i].id = i /\ subfrm'[i].z = count' - streak' + i - 1
  <2>1. CASE id = 1
        BY <1>1, <1>4, <1>5, <1>6, <2>1
  <2>2. CASE id = 2 /\ streak = 1
    <3>1. subfrm[1].id = 1 /\ subfrm[1].z = count - 1
          BY <1>1, <2>2 DEF GpsInv
    <3>2. streak' = 2 /\ subfrm'[1] = subfrm[1] /\ subfrm'[2] = sub
          BY <1>4, <1>6, <2>2
    <3> QED BY <1>1, <1>5, <2>2, <3>1, <3>2
  <2>3. CASE id = 2 /\ streak # 1
        BY <1>2, <1>4, <2>3
  <2>4. CASE id \notin {1, 2}
        BY <1>1, <1>4, <2>4
  <2> QED BY <2>1, <2>2, <2>3, <2>4
<1>12. Gps!FromCurrentFrame
  <2> SUFFICES ASSUME published' # published, NEW i \in 1 .. 3
               PROVE  published'.parts[i].z = count - 3 + i
      BY DEF Gps!FromCurrentFrame
  <2>1. id = 3 /\ Gps!Received(subfrm') /\ published' = Gps!Decoded(subfrm')
        BY <1>3
  <2>2. published'.parts[i] = subfrm'[i]
        BY <2>1 DEF Gps!Decoded
  <2>3. subfrm'[3].z = count
        BY <1>5, <1>6, <2>1
  <2>4. subfrm'[1].z + 1 = subfrm'[2].z /\ subfrm'[2].z + 1 = subfrm'[3].z
        BY <2>1 DEF Gps!Received
  <2>5. subfrm'[1].z \in Nat /\ subfrm'[2].z \in Nat
        BY <1>6 DEF Gps!Subframes
  <2> QED BY <1>1, <2>2, <2>3, <2>4, <2>5
<1>13. Gps!CompleteFrameDecoded
  <2> SUFFICES ASSUME streak' = 3
               PROVE  published'.parts[3] = [id |-> 3, z |-> count, issue |-> issue]
      BY DEF Gps!CompleteFrameDecoded
  <2>1. id = 3 /\ streak = 2
        BY <1>1, <1>2, <1>4
  <2>2. /\ subfrm[1].id = 1 /\ subfrm[1].z = count - 2
        /\ subfrm[2].id = 2 /\ subfrm[2].z = count - 1
        BY <1>1, <2>1 DEF GpsInv
  <2>3. subfrm'[1] = subfrm[1] /\ subfrm'[2] = subfrm[2] /\ subfrm'[3] = sub
        BY <1>6, <2>1
  <2>4. Gps!Received(subfrm')
        BY <1>1, <1>5, <2>1, <2>2, <2>3 DEF Gps!Received
  <2>5. published'.parts[3] = sub
        BY <1>3, <2>1, <2>3, <2>4 DEF Gps!Decoded
  <2> QED BY <2>1, <2>5 DEF sub
<1> QED BY <1>10, <1>11, <1>12, <1>13 DEF GpsInv

(* The other steps set streak to 0 or leave the slots alone. *)
LEMMA GpsOther ==
  ASSUME GpsInv, Gps!MissSubframe \/ Gps!Upload
  PROVE  GpsInv' /\ Gps!FromCurrentFrame /\ Gps!CompleteFrameDecoded
<1>1. count \in Nat /\ issue \in 0 .. MaxIssue /\ streak \in 0 .. 5
      BY DEF GpsInv, Gps!TypeOK, Gps!Issues
<1>2. subfrm' = subfrm /\ published' = published
      BY DEF Gps!MissSubframe, Gps!Upload
<1>3. /\ count' \in Nat /\ issue' \in 0 .. MaxIssue /\ streak' \in 0 .. 5
      /\ streak' = 0 \/ (streak' = streak /\ count' = count)
  <2>1. CASE Gps!MissSubframe
        BY <1>1, <2>1 DEF Gps!MissSubframe, Gps!Sent
  <2>2. CASE Gps!Upload
        BY <1>1, <2>2, DispatchAssumption DEF Gps!Upload
  <2> QED BY <2>1, <2>2
<1>4. Gps!TypeOK'
      BY <1>2, <1>3 DEF GpsInv, Gps!TypeOK, Gps!Issues, Gps!Ids, Gps!Parts, Gps!Subframes
<1>5. GpsInv'
      BY <1>1, <1>2, <1>3, <1>4 DEF GpsInv
<1>6. Gps!FromCurrentFrame
      BY <1>2 DEF Gps!FromCurrentFrame
<1>7. ~ (count' = count + 1 /\ streak' = 3)
      BY <1>1, <1>3
<1> QED BY <1>5, <1>6, <1>7 DEF Gps!CompleteFrameDecoded

-----------------------------------------------------------------------------
(* BeiDou D1: what was received later is of no earlier generation. *)
D1Slots(slot, n, g) ==
  /\ \A i \in 1 .. 5 : slot[i].frn = i => slot[i].sow + 6 <= 6 * n /\ slot[i].issue <= g
  /\ \A i, j \in 1 .. 5 :
       slot[i].frn = i /\ slot[j].frn = j /\ slot[i].sow <= slot[j].sow
         => slot[i].issue <= slot[j].issue

D1Inv == D1!TypeOK /\ D1Slots(subfrm, count, issue) /\ D1!PublishedOneIssue

LEMMA D1Types ==
  ASSUME D1Inv
  PROVE  /\ count \in Nat /\ issue \in Nat /\ issue <= MaxIssue
         /\ subfrm \in [1 .. 5 -> D1!Subframes] /\ \A i \in 1 .. 5 : subfrm[i].frn \in {0, i}
         /\ flags \subseteq 1 .. 5 /\ flags # 1 .. 3
         /\ published \in [1 .. 3 -> D1!Subframes]
         /\ streak \in 0 .. 5
BY DispatchAssumption DEF D1Inv, D1!TypeOK, D1!Ids, D1!Parts, D1!Issues

LEMMA D1Parse ==
  ASSUME D1Inv, D1!ParseSubframe
  PROVE  D1Inv' /\ D1!FromCurrentFrame
<1> USE DEF D1!Ids, D1!Parts
<1> DEFINE k    == D1!IdOf(count)
           sub  == [frn |-> k, sow |-> D1!Sow(count), issue |-> issue]
           slot == [subfrm EXCEPT ![k] = sub]
<1>1. /\ count \in Nat /\ issue \in Nat /\ issue <= MaxIssue
      /\ subfrm \in [1 .. 5 -> D1!Subframes] /\ \A i \in 1 .. 5 : subfrm[i].frn \in {0, i}
      /\ flags \subseteq 1 .. 5 /\ flags # 1 .. 3
      /\ published \in [1 .. 3 -> D1!Subframes]
      /\ streak \in 0 .. 5
      BY D1Types
<1>2. k \in 1 .. 5 /\ count' = count + 1 /\ issue' = issue /\ MaxIssue \in Nat
      BY <1>1, DispatchAssumption DEF D1!IdOf, D1!ParseSubframe, D1!Sent
<1>3. IF flags \union {k} # 1 .. 3
      THEN flags' = flags \union {k} /\ subfrm' = slot /\ published' = published
      ELSE D1!DecodeEphem(slot)
      BY DEF D1!ParseSubframe, D1!DecodeSubframe
<1>4. streak' \in 0 .. 5
      BY <1>1, <1>2 DEF D1!ParseSubframe
<1>5. /\ sub \in D1!Subframes /\ sub.frn = k /\ sub.sow = 6 * count /\ sub.issue = issue
      BY <1>1, <1>2 DEF D1!Subframes, D1!Sow, D1!Issues
<1> HIDE DEF k, sub
<1>6. /\ slot \in [1 .. 5 -> D1!Subframes] /\ slot[k] = sub
      /\ \A i \in 1 .. 5 : i # k => slot[i] = subfrm[i]
      BY <1>1, <1>2, <1>5
<1> HIDE DEF slot
<1>7. /\ \A i \in 1 .. 5 : slot[i].frn \in {0, i}
      /\ \A i \in 1 .. 5 : slot[i].sow \in Nat /\ slot[i].issue \in Nat
      /\ \A i \in 1 .. 5 : subfrm[i].sow \in Nat /\ subfrm[i].issue \in Nat
      BY <1>1, <1>5, <1>6 DEF D1!Subframes, D1!Issues
<1>8. D1Slots(slot, count + 1, issue)
  <2>1. \A i \in 1 .. 5 : subfrm[i].frn = i => subfrm[i].sow + 6 <= 6 * count /\ subfrm[i].issue <= issue
        BY DEF D1Inv, D1Slots
  <2>2. ASSUME NEW i \in 1 .. 5, slot[i].frn = i
        PROVE  slot[i].sow + 6 <= 6 * (count + 1) /\ slot[i].issue <= issue
        BY <1>1, <1>5, <1>6, <1>7, <2>1, <2>2
  <2>3. ASSUME NEW i \in 1 .. 5, NEW j \in 1 .. 5,
               slot[i].frn = i, slot[j].frn = j, slot[i].sow <= slot[j].sow
        PROVE  slot[i].issue <= slot[j].issue
    <3>1. CASE j = k
          BY <1>5, <1>6, <2>2, <2>3, <3>1
    <3>2. CASE i = k /\ j # k
      <4>1. slot[j].sow + 6 <= 6 * count /\ slot[i].sow = 6 * count
            BY <1>5, <1>6, <2>1, <2>3, <3>2
      <4> QED BY <1>1, <1>7, <2>3, <4>1
    <3>3. CASE i # k /\ j # k
      <4>1. slot[i] = subfrm[i] /\ slot[j] = subfrm[j]
            BY <1>6, <3>3
      <4> QED BY <2>3, <4>1 DEF D1Inv, D1Slots
    <3> QED BY <3>1, <3>2, <3>3
  <2> QED BY <2>2, <2>3 DEF D1Slots
<1>9. CASE flags \union {k} # 1 .. 3
  <2>1. flags' = flags \union {k} /\ subfrm' = slot /\ published' = published
        BY <1>3, <1>9
  <2>2. D1!TypeOK'
    <3>1. flags' \subseteq 1 .. 5 /\ flags' # 1 .. 3
          BY <1>1, <1>2, <1>9, <2>1
    <3> QED BY <1>1, <1>2, <1>4, <1>6, <1>7, <2>1, <3>1 DEF D1!TypeOK, D1!Issues, D1!Subframes
  <2>3. D1Slots(subfrm, count, issue)'
        BY <1>2, <1>8, <2>1 DEF D1Slots
  <2>4. D1!PublishedOneIssue'
        BY <2>1 DEF D1Inv, D1!PublishedOneIssue
  <2> QED BY <2>1, <2>2, <2>3, <2>4 DEF D1Inv, D1!FromCurrentFrame
<1>10. CASE flags \union {k} = 1 .. 3 /\ D1!Consistent(slot)
  <2>1. /\ flags' = {} /\ subfrm' = slot
        /\ published' = [i \in 1 .. 3 |-> slot[i]]
        BY <1>3, <1>10 DEF D1!DecodeEphem
  <2>2. /\ slot[1].frn = 1 /\ slot[2].frn = 2 /\ slot[3].frn = 3
        /\ slot[2].sow = slot[1].sow + 6 /\ slot[3].sow = slot[2].sow + 6
        /\ slot[1].issue = slot[3].issue
        BY <1>10 DEF D1!Consistent
  <2>3. slot[1].issue = slot[2].issue /\ slot[2].issue = slot[3].issue
    <3>1. slot[1].issue <= slot[2].issue /\ slot[2].issue <= slot[3].issue
          BY <1>7, <1>8, <2>2 DEF D1Slots
    <3> QED BY <1>7, <2>2, <3>1
  <2>4. slot[1].sow = 6 * (count - 2) /\ slot[2].sow = 6 * (count - 1) /\ slot[3].sow = 6 * count
    <3>1. k \in 1 .. 3
          BY <1>10
    <3>2. slot[3].sow + 6 <= 6 * (count + 1)
          BY <1>8, <2>2 DEF D1Slots
    <3>3. slot[k].sow = 6 * count
          BY <1>5, <1>6
    <3>4. k = 1 \/ k = 2 \/ k = 3
          BY <3>1
    <3> QED BY <1>1, <1>7, <2>2, <3>2, <3>3, <3>4
  <2>5. D1!FromCurrentFrame
    <3> SUFFICES ASSUME NEW i \in 1 .. 3 PROVE published'[i].sow = D1!Sow(count - 3 + i)
        BY DEF D1!FromCurrentFrame
    <3>1. published'[i] = slot[i]
          BY <2>1
    <3>2. i = 1 \/ i = 2 \/ i = 3
          OBVIOUS
    <3> QED BY <1>1, <2>4, <3>1, <3>2 DEF D1!Sow
  <2>6. D1!TypeOK'
    <3>1. published' \in [1 .. 3 -> D1!Subframes]
          BY <1>6, <2>1
    <3>2. flags' \subseteq 1 .. 5 /\ flags' # 1 .. 3
          BY <2>1
    <3> QED BY <1>1, <1>2, <1>4, <1>6, <1>7, <2>1, <3>1, <3>2 DEF D1!TypeOK, D1!Issues, D1!Subframes
  <2>7. D1Slots(subfrm, count, issue)'
        BY <1>2, <1>8, <2>1 DEF D1Slots
  <2>8. D1!PublishedOneIssue'
        BY <2>1, <2>3 DEF D1!PublishedOneIssue
  <2> QED BY <2>5, <2>6, <2>7, <2>8 DEF D1Inv
<1>11. CASE flags \union {k} = 1 .. 3 /\ ~ D1!Consistent(slot)
  <2>1. /\ flags' = {} /\ published' = published
        /\ subfrm' = [i \in 1 .. 5 |-> IF i \in 1 .. 3 THEN D1!Blank ELSE slot[i]]
        BY <1>3, <1>11 DEF D1!DecodeEphem
  <2>2. D1!Blank \in D1!Subframes /\ D1!Blank.frn = 0
        BY <1>2 DEF D1!Blank, D1!Subframes, D1!Issues
  <2>3. /\ \A i \in 1 .. 3 : subfrm'[i] = D1!Blank
        /\ \A i \in 4 .. 5 : subfrm'[i] = slot[i]
        /\ subfrm' \in [1 .. 5 -> D1!Subframes]
        BY <1>6, <2>1, <2>2
  <2>4. D1!TypeOK'
    <3>1. flags' \subseteq 1 .. 5 /\ flags' # 1 .. 3
          BY <2>1
    <3>2. \A i \in 1 .. 5 : subfrm'[i].frn \in {0, i}
          BY <1>7, <2>2, <2>3
    <3> QED BY <1>1, <1>2, <1>4, <2>1, <2>3, <3>1, <3>2 DEF D1!TypeOK, D1!Issues, D1!Subframes
  <2>5. D1Slots(subfrm, count, issue)'
    <3>1. \A i \in 1 .. 5 : subfrm'[i].frn = i => subfrm'[i] = slot[i]
          BY <2>2, <2>3
    <3> QED BY <1>2, <1>8, <3>1 DEF D1Slots
  <2>6. D1!PublishedOneIssue'
        BY <2>1 DEF D1Inv, D1!PublishedOneIssue
  <2> QED BY <2>1, <2>4, <2>5, <2>6 DEF D1Inv, D1!FromCurrentFrame
<1> QED BY <1>9, <1>10, <1>11

LEMMA D1Other ==
  ASSUME D1Inv, D1!MissSubframe \/ D1!Upload
  PROVE  D1Inv' /\ D1!FromCurrentFrame
<1>1. /\ count \in Nat /\ issue \in Nat /\ issue <= MaxIssue /\ MaxIssue \in Nat
      /\ subfrm \in [1 .. 5 -> D1!Subframes]
      BY D1Types, DispatchAssumption
<1>2. subfrm' = subfrm /\ published' = published /\ flags' = flags /\ streak' = 0
      BY DEF D1!MissSubframe, D1!Upload
<1>3. /\ count' \in Nat /\ issue' \in Nat /\ issue' <= MaxIssue
      /\ count <= count' /\ issue <= issue'
      BY <1>1 DEF D1!MissSubframe, D1!Upload, D1!Sent
<1>4. D1!TypeOK'
      BY <1>1, <1>2, <1>3 DEF D1Inv, D1!TypeOK, D1!Issues, D1!Ids, D1!Parts, D1!Subframes
<1>5. D1Slots(subfrm, count, issue)'
  <2>1. \A i \in 1 .. 5 : subfrm[i].sow \in Nat /\ subfrm[i].issue \in Nat
        BY <1>1 DEF D1!Subframes, D1!Issues
  <2> QED BY <1>1, <1>2, <1>3, <2>1 DEF D1Inv, D1Slots
<1> QED BY <1>2, <1>4, <1>5 DEF D1Inv, D1!PublishedOneIssue, D1!FromCurrentFrame

-----------------------------------------------------------------------------
(* BeiDou D2: the pages of the current cycle, as far as it was received    *)
(* without a hole, are in their slots and of the present generation.       *)
D2Inv ==
  /\ D2!TypeOK
  /\ streak \in 1 .. 9 =>
       \A i \in D2!Used : i <= streak =>
         /\ subfrm[i].pgn = i /\ subfrm[i].issue = issue
         /\ subfrm[i].sow = 3 * (count - streak + i - 1)

LEMMA D2Types ==
  ASSUME D2Inv
  PROVE  /\ count \in Nat /\ issue \in Nat /\ issue <= MaxIssue /\ MaxIssue \in Nat
         /\ subfrm \in [1 .. 10 -> D2!Pages] /\ \A i \in 1 .. 10 : subfrm[i].pgn \in {0, i}
         /\ published \in [D2!Used -> D2!Pages]
         /\ streak \in 0 .. 10
BY DispatchAssumption DEF D2Inv, D2!TypeOK, D2!PageNumbers, D2!LastPage, D2!Issues

LEMMA D2Parse ==
  ASSUME D2Inv, D2!ParsePage
  PROVE  D2Inv' /\ D2!FromCurrentCycle /\ D2!CompleteCycleDecoded
<1> USE DEF D2!LastPage
<1> DEFINE k   == D2!PageOf(count)
           pg  == [pgn |-> k, sow |-> D2!Sow(count), issue |-> issue]
           all == [i \in D2!Used |-> subfrm'[i]]
<1>1. /\ count \in Nat /\ issue \in Nat /\ issue <= MaxIssue /\ MaxIssue \in Nat
      /\ subfrm \in [1 .. 10 -> D2!Pages] /\ \A i \in 1 .. 10 : subfrm[i].pgn \in {0, i}
      /\ published \in [D2!Used -> D2!Pages]
      /\ streak \in 0 .. 10
      BY D2Types
<1>2. k \in 1 .. 10 /\ count' = count + 1 /\ issue' = issue
      BY <1>1 DEF D2!PageOf, D2!ParsePage, D2!Sent
<1>3. /\ subfrm' = [subfrm EXCEPT ![k] = pg]
      /\ published' = IF k = 10 /\ D2!Consistent(subfrm') THEN all ELSE published
      BY DEF D2!ParsePage, D2!DecodePage
<1>4. streak' = IF k = 1 THEN 1 ELSE IF streak = k - 1 THEN k ELSE 0
      BY DEF D2!ParsePage
<1>5. pg \in D2!Pages /\ pg.pgn = k /\ pg.sow = 3 * count /\ pg.issue = issue
      BY <1>1, <1>2 DEF D2!Pages, D2!Sow, D2!Issues
<1>6. D2!Used = {1, 3, 4, 5, 6, 7, 8, 9, 10}
      BY DEF D2!Used, D2!PageNumbers
<1> HIDE DEF k, pg
<1>7. /\ subfrm' \in [1 .. 10 -> D2!Pages] /\ subfrm'[k] = pg
      /\ \A i \in 1 .. 10 : i # k => subfrm'[i] = subfrm[i]
      BY <1>1, <1>2, <1>3, <1>5
<1>8. \A i \in 1 .. 10 : subfrm'[i].pgn \in {0, i}
      BY <1>1, <1>5, <1>7
<1>9. all \in [D2!Used -> D2!Pages] /\ \A i \in D2!Used : all[i] = subfrm'[i]
      BY <1>6, <1>7
<1> HIDE DEF all
<1>10. published' \in [D2!Used -> D2!Pages]
      BY <1>1, <1>3, <1>9, Zenon
<1>11. D2!TypeOK'
  <2>1. streak' \in 0 .. 10
        BY <1>2, <1>4
  <2> QED BY <1>1, <1>2, <1>7, <1>8, <1>10, <2>1
          DEF D2!TypeOK, D2!PageNumbers, D2!Pages, D2!Issues, D2!Used
(* the pages up to this one *)
<1>12. streak' \in 1 .. 10 =>
         \A i \in D2!Used : i <= streak' =>
           /\ subfrm'[i].pgn = i /\ subfrm'[i].issue = issue
           /\ subfrm'[i].sow = 3 * (count - streak' + i)
  <2> SUFFICES ASSUME streak' \in 1 .. 10, NEW i \in D2!Used, i <= streak'
               PROVE  /\ subfrm'[i].pgn = i /\ subfrm'[i].issue = issue
                      /\ subfrm'[i].sow = 3 * (count - streak' + i)
      OBVIOUS
  <2>1. streak' = k /\ (k = 1 \/ streak = k - 1) /\ i \in 1 .. 10
        BY <1>2, <1>4, <1>6
  <2>2. CASE i = k
        BY <1>1, <1>5, <1>7, <2>1, <2>2
  <2>3. CASE i # k
    <3>1. streak = k - 1 /\ streak \in 1 .. 9 /\ i <= streak
          BY <1>2, <2>1, <2>3
    <3>2. /\ subfrm[i].pgn = i /\ subfrm[i].issue = issue
          /\ subfrm[i].sow = 3 * (count - streak + i - 1)
          BY <3>1 DEF D2Inv
    <3>3. subfrm'[i] = subfrm[i]
          BY <1>7, <2>1, <2>3
    <3> QED BY <1>1, <1>2, <2>1, <3>1, <3>2, <3>3
  <2> QED BY <2>2, <2>3
<1>13. D2Inv'
  <2> SUFFICES ASSUME streak' \in 1 .. 9, NEW i \in D2!Used, i <= streak'
               PROVE  /\ subfrm'[i].pgn = i /\ subfrm'[i].issue = issue'
                      /\ subfrm'[i].sow = 3 * (count' - streak' + i - 1)
      BY <1>11 DEF D2Inv, D2!Used, D2!PageNumbers
  <2>1. i \in 1 .. 10
        BY <1>6
  <2> QED BY <1>1, <1>2, <1>12, <2>1
<1>14. D2!FromCurrentCycle
  <2> SUFFICES ASSUME published' # published, NEW i \in D2!Used
               PROVE  published'[i].sow = D2!Sow(count - 10 + i)
      BY DEF D2!FromCurrentCycle
  <2>1. k = 10 /\ D2!Consistent(subfrm') /\ published'[i] = subfrm'[i]
        BY <1>3, <1>9
  <2>2. /\ subfrm'[3].sow = subfrm'[1].sow + 6
        /\ \A j \in 4 .. 10 : subfrm'[j].sow = subfrm'[j - 1].sow + 3
        BY <2>1 DEF D2!Consistent
  <2>3. /\ subfrm'[4].sow = subfrm'[3].sow + 3 /\ subfrm'[5].sow = subfrm'[4].sow + 3
        /\ subfrm'[6].sow = subfrm'[5].sow + 3 /\ subfrm'[7].sow = subfrm'[6].sow + 3
        /\ subfrm'[8].sow = subfrm'[7].sow + 3 /\ subfrm'[9].sow = subfrm'[8].sow + 3
        /\ subfrm'[10].sow = subfrm'[9].sow + 3
        BY <2>2
  <2>4. \A j \in 1 .. 10 : subfrm'[j].sow \in Nat
        BY <1>7 DEF D2!Pages
  <2>5. subfrm'[10].sow = 3 * count
        BY <1>5, <1>7, <2>1
  <2>6. subfrm'[i].sow = 3 * (count - 10 + i)
        BY <1>1, <1>6, <2>2, <2>3, <2>4, <2>5
  <2> QED BY <2>1, <2>6 DEF D2!Sow
<1>15. D2!CompleteCycleDecoded
  <2> SUFFICES ASSUME streak' = 10
               PROVE  published'[10].sow = D2!Sow(count)
      BY DEF D2!CompleteCycleDecoded
  <2>1. k = 10
        BY <1>1, <1>2, <1>4
  <2>2. \A i \in {1, 3, 4, 5, 6, 7, 8, 9, 10} :
          /\ subfrm'[i].pgn = i /\ subfrm'[i].issue = issue
          /\ subfrm'[i].sow = 3 * (count - 10 + i)
        BY <1>6, <1>12
  <2>3. /\ subfrm'[1].sow = 3 * (count - 9) /\ subfrm'[3].sow = 3 * (count - 7)
        /\ subfrm'[3].sow = subfrm'[1].sow + 6
        BY <1>1, <2>2
  <2>4. ASSUME NEW i \in 4 .. 10 PROVE subfrm'[i].sow = subfrm'[i - 1].sow + 3
    <3>1. i - 1 \in {3, 4, 5, 6, 7, 8, 9} /\ i \in {4, 5, 6, 7, 8, 9, 10}
          OBVIOUS
    <3>2. subfrm'[i].sow = 3 * (count - 10 + i) /\ subfrm'[i - 1].sow = 3 * (count - 10 + (i - 1))
          BY <2>2, <3>1
    <3> QED BY <1>1, <3>2
  <2>5. D2!Consistent(subfrm')
        BY <1>6, <2>2, <2>3, <2>4 DEF D2!Consistent, D2!ToePage
  <2>6. published'[10] = subfrm'[10]
        BY <1>3, <1>6, <1>9, <2>1, <2>5
  <2> QED BY <1>1, <2>2, <2>6 DEF D2!Sow
<1> QED BY <1>13, <1>14, <1>15

LEMMA D2Other ==
  ASSUME D2Inv, D2!MissPage \/ D2!Upload
  PROVE  D2Inv' /\ D2!FromCurrentCycle /\ D2!CompleteCycleDecoded
<1> USE DEF D2!LastPage
<1>1. /\ count \in Nat /\ issue \in Nat /\ issue <= MaxIssue /\ MaxIssue \in Nat
      /\ streak \in 0 .. 10
      BY D2Types
<1>2. subfrm' = subfrm /\ published' = published
      BY DEF D2!MissPage, D2!Upload
<1>3. /\ count' \in Nat /\ issue' \in Nat /\ issue' <= MaxIssue
      /\ \/ streak' = 0
         \/ streak' = 2 /\ streak = 1 /\ count' = count + 1 /\ issue' = issue
  <2>1. CASE D2!MissPage
        BY <1>1, <2>1 DEF D2!MissPage, D2!Sent
  <2>2. CASE D2!Upload
        BY <1>1, <2>2 DEF D2!Upload
  <2> QED BY <2>1, <2>2
<1>4. D2!TypeOK'
      BY <1>1, <1>2, <1>3 DEF D2Inv, D2!TypeOK, D2!Issues, D2!PageNumbers, D2!Pages, D2!Used
<1>5. D2Inv'
  <2> SUFFICES ASSUME streak' \in 1 .. 9, NEW i \in D2!Used, i <= streak'
               PROVE  /\ subfrm'[i].pgn = i /\ subfrm'[i].issue = issue'
                      /\ subfrm'[i].sow = 3 * (count' - streak' + i - 1)
      BY <1>4 DEF D2Inv, D2!Used, D2!PageNumbers
  <2>1. streak' = 2 /\ streak = 1 /\ count' = count + 1 /\ issue' = issue /\ i = 1
        BY <1>3 DEF D2!Used, D2!PageNumbers
  <2>2. /\ subfrm[i].pgn = i /\ subfrm[i].issue = issue
        /\ subfrm[i].sow = 3 * (count - streak + i - 1)
        BY <2>1 DEF D2Inv
  <2> QED BY <1>1, <1>2, <2>1, <2>2
<1>6. streak' # 10
      BY <1>3
<1> QED BY <1>2, <1>5, <1>6 DEF D2!FromCurrentCycle, D2!CompleteCycleDecoded

-----------------------------------------------------------------------------
(* Galileo: the flags stand for words that were received since word 2 and  *)
(* since the last ephemeris was published.                                 *)
GalInv ==
  /\ Gal!TypeOK
  /\ \A t \in flags : subfrm[t].at < count
  /\ 2 \in flags => \A t \in flags : subfrm[2].at <= subfrm[t].at
  /\ \A u \in 0 .. 5 : published[u] # Gal!Blank =>
       published[u].at < count /\ \A t \in flags : published[u].at < subfrm[t].at
  /\ Gal!PublishedOneIssue
  /\ Gal!PublishedSinceWord2

LEMMA GalTypes ==
  ASSUME GalInv
  PROVE  /\ count \in Nat /\ issue \in Nat /\ issue <= MaxIssue /\ MaxIssue \in Nat
         /\ subfrm \in [0 .. 6 -> Gal!Words]
         /\ flags \subseteq 0 .. 6 /\ \A t \in flags : subfrm[t].type = t
         /\ published \in [0 .. 5 -> Gal!Words]
         /\ Len(Order) \in Nat \ {0} /\ streak \in 0 .. Len(Order)
         /\ \A n \in 1 .. Len(Order) : Order[n] \in Nat
BY DispatchAssumption DEF GalInv, Gal!TypeOK, Gal!Types, Gal!Used, Gal!Issues

(* A word of type 0 to 6 is stored. *)
LEMMA GalStore ==
  ASSUME GalInv, NEW word \in Gal!Words, word.at = count,
         Gal!StoreWord(word), count' = count + 1, issue' = issue, streak' \in 0 .. Len(Order)
  PROVE  GalInv' /\ Gal!NothingRepeated
<1> USE DEF Gal!Types, Gal!Used
<1> DEFINE k    == word.type
           slot == [subfrm EXCEPT ![k] = word]
           new  == Gal!FlagsWith(k)
<1>1. /\ count \in Nat /\ issue \in Nat /\ issue <= MaxIssue /\ MaxIssue \in Nat
      /\ subfrm \in [0 .. 6 -> Gal!Words]
      /\ flags \subseteq 0 .. 6 /\ \A t \in flags : subfrm[t].type = t
      /\ published \in [0 .. 5 -> Gal!Words]
      BY GalTypes
<1>2. k \in 0 .. 6 /\ word.iod \in 0 .. MaxIssue
      BY DEF Gal!Words, Gal!Issues
<1>3. /\ new = IF k = 2 THEN {2} ELSE flags \union {k}
      /\ new \subseteq flags \union {k} /\ k \in new
      BY DEF Gal!FlagsWith
<1>4. IF new = 0 .. 6 /\ Gal!Decodable(slot)
      THEN /\ published' = [t \in 0 .. 5 |-> slot[t]]
           /\ subfrm' = Gal!Cleared /\ flags' = {}
      ELSE subfrm' = slot /\ flags' = new /\ published' = published
      BY DEF Gal!StoreWord
<1>5. /\ slot \in [0 .. 6 -> Gal!Words] /\ slot[k] = word
      /\ \A t \in 0 .. 6 : t # k => slot[t] = subfrm[t]
      BY <1>1, <1>2
<1> HIDE DEF slot, new
<1>6. /\ \A t \in 0 .. 6 : slot[t].at \in Nat /\ subfrm[t].at \in Nat
      /\ \A u \in 0 .. 5 : published[u].at \in Nat
      BY <1>1, <1>5 DEF Gal!Words
<1>7. new \subseteq 0 .. 6 /\ \A t \in new : slot[t].type = t
      BY <1>1, <1>2, <1>3, <1>5
<1>8. \A t \in new : slot[t].at < count + 1
  <2>1. \A t \in flags : subfrm[t].at < count
        BY DEF GalInv
  <2> SUFFICES ASSUME NEW t \in new PROVE slot[t].at < count + 1
      OBVIOUS
  <2>2. t \in 0 .. 6 /\ (t = k \/ t \in flags)
        BY <1>3, <1>7
  <2>3. CASE t = k
        BY <1>1, <1>5, <2>3
  <2>4. CASE t # k
    <3>1. slot[t] = subfrm[t] /\ t \in 0 .. 6
          BY <1>5, <2>2, <2>4
    <3>2. subfrm[t].at < count /\ subfrm[t].at \in Nat
          BY <1>6, <2>1, <2>2, <2>4, <3>1
    <3> QED BY <1>1, <3>1, <3>2
  <2> QED BY <2>3, <2>4
<1>9. 2 \in new => \A t \in new : slot[2].at <= slot[t].at
  <2>1. CASE k = 2
        BY <1>1, <1>3, <1>5, <2>1
  <2>2. CASE k # 2 /\ 2 \in new
    <3>1. 2 \in flags /\ \A t \in flags : subfrm[2].at <= subfrm[t].at
          BY <1>3, <2>2 DEF GalInv
    <3>2. slot[2] = subfrm[2] /\ slot[2].at < count
          BY <1>5, <2>2, <3>1 DEF GalInv
    <3> SUFFICES ASSUME NEW t \in new PROVE slot[2].at <= slot[t].at
        OBVIOUS
    <3>3. t \in 0 .. 6 /\ (t = k \/ t \in flags)
          BY <1>3, <1>7
    <3>4. CASE t = k
      <4>1. slot[t].at = count
            BY <1>5, <3>4, Zenon
      <4>2. slot[2].at \in Nat
            BY <1>6
      <4> QED BY <1>1, <3>2, <4>1, <4>2
    <3>5. CASE t # k
          BY <1>5, <3>1, <3>2, <3>3, <3>5
    <3> QED BY <3>4, <3>5
  <2> QED BY <2>1, <2>2
<1>10. \A u \in 0 .. 5 : published[u] # Gal!Blank =>
         published[u].at < count /\ \A t \in new : published[u].at < slot[t].at
  <2> SUFFICES ASSUME NEW u \in 0 .. 5, published[u] # Gal!Blank
               PROVE  published[u].at < count /\ \A t \in new : published[u].at < slot[t].at
      OBVIOUS
  <2>1. published[u].at < count /\ \A t \in flags : published[u].at < subfrm[t].at
        BY DEF GalInv
  <2> QED BY <1>1, <1>3, <1>5, <1>7, <2>1
<1>11. CASE new = 0 .. 6 /\ Gal!Decodable(slot)
  <2>1. /\ published' = [t \in 0 .. 5 |-> slot[t]]
        /\ subfrm' = Gal!Cleared /\ flags' = {}
        BY <1>4, <1>11
  <2>2. /\ \A t \in 0 .. 5 : published'[t] = slot[t]
        /\ published' \in [0 .. 5 -> Gal!Words]
        BY <1>5, <2>1
  <2>3. Gal!Cleared \in [0 .. 6 -> Gal!Words]
        BY <1>1 DEF Gal!Cleared, Gal!Blank, Gal!Words, Gal!Issues
  <2>4. Gal!TypeOK'
        BY <1>1, <2>1, <2>2, <2>3 DEF Gal!TypeOK, Gal!Issues, Gal!Words
  <2>5. Gal!PublishedOneIssue'
    <3>1. \A t \in 2 .. 4 : slot[t].iod = slot[1].iod
          BY <1>11 DEF Gal!Decodable
    <3> QED BY <2>2, <3>1 DEF Gal!PublishedOneIssue
  <2>6. Gal!PublishedSinceWord2'
        BY <1>9, <1>11, <2>2 DEF Gal!PublishedSinceWord2
  <2>7. \A u \in 0 .. 5 : published'[u].at < count'
        BY <1>8, <1>11, <2>2
  <2>8. GalInv'
        BY <2>1, <2>4, <2>5, <2>6, <2>7 DEF GalInv
  <2>9. Gal!NothingRepeated
        BY <1>10, <1>11, <2>2, SMTT(60) DEF Gal!NothingRepeated
  <2> QED BY <2>8, <2>9
<1>12. CASE ~ (new = 0 .. 6 /\ Gal!Decodable(slot))
  <2>1. subfrm' = slot /\ flags' = new /\ published' = published
        BY <1>4, <1>12
  <2>2. Gal!TypeOK'
        BY <1>1, <1>5, <1>7, <2>1 DEF Gal!TypeOK, Gal!Issues, Gal!Words
  <2>3. \A t \in flags' : subfrm'[t].at < count'
        BY <1>8, <2>1
  <2>4. 2 \in flags' => \A t \in flags' : subfrm'[2].at <= subfrm'[t].at
        BY <1>9, <2>1
  <2>5. \A u \in 0 .. 5 : published'[u] # Gal!Blank =>
          published'[u].at < count' /\ \A t \in flags' : published'[u].at < subfrm'[t].at
    <3> SUFFICES ASSUME NEW u \in 0 .. 5, published[u] # Gal!Blank
                 PROVE  published[u].at < count + 1 /\ \A t \in new : published[u].at < slot[t].at
        BY <2>1
    <3>1. published[u].at < count /\ \A t \in new : published[u].at < slot[t].at
          BY <1>10
    <3>2. published[u].at \in Nat
          BY <1>6
    <3> QED BY <1>1, <3>1, <3>2
  <2>6. Gal!PublishedOneIssue' /\ Gal!PublishedSinceWord2'
        BY <2>1 DEF GalInv, Gal!PublishedOneIssue, Gal!PublishedSinceWord2
  <2>7. GalInv'
        BY <2>2, <2>3, <2>4, <2>5, <2>6 DEF GalInv, Gal!Blank
  <2> QED BY <2>1, <2>7 DEF Gal!NothingRepeated
<1> QED BY <1>11, <1>12

(* A word that is skipped or missed, and a change of the data, leave the   *)
(* collection alone.                                                       *)
LEMMA GalKept ==
  ASSUME GalInv, UNCHANGED <<subfrm, flags, published>>, count' \in Nat, count <= count',
         issue' \in 0 .. MaxIssue, streak' \in 0 .. Len(Order)
  PROVE  GalInv' /\ Gal!NothingRepeated
<1> USE DEF Gal!Types, Gal!Used
<1>1. /\ count \in Nat /\ subfrm \in [0 .. 6 -> Gal!Words] /\ flags \subseteq 0 .. 6
      /\ published \in [0 .. 5 -> Gal!Words]
      BY GalTypes
<1>2. /\ \A t \in flags : subfrm[t].at \in Nat
      /\ \A u \in 0 .. 5 : published[u].at \in Nat
      BY <1>1 DEF Gal!Words
<1>3. Gal!TypeOK'
      BY DEF GalInv, Gal!TypeOK, Gal!Issues, Gal!Words
<1>4. \A t \in flags' : subfrm'[t].at < count'
      BY <1>1, <1>2, SMTT(60) DEF GalInv
<1>5. \A u \in 0 .. 5 : published'[u] # Gal!Blank =>
        published'[u].at < count' /\ \A t \in flags' : published'[u].at < subfrm'[t].at
  <2> SUFFICES ASSUME NEW u \in 0 .. 5, published[u] # Gal!Blank
               PROVE  published[u].at < count' /\ \A t \in flags : published[u].at < subfrm[t].at
      OBVIOUS
  <2>1. published[u].at < count /\ \A t \in flags : published[u].at < subfrm[t].at
        BY DEF GalInv
  <2> QED BY <1>1, <1>2, <2>1, SMTT(60)
<1>6. Gal!PublishedOneIssue' /\ Gal!PublishedSinceWord2'
      BY DEF GalInv, Gal!PublishedOneIssue, Gal!PublishedSinceWord2
<1>7. GalInv'
      BY <1>3, <1>4, <1>5, <1>6 DEF GalInv, Gal!Blank
<1> QED BY <1>7 DEF Gal!NothingRepeated

(* the word that is parsed *)
GalWord(timed) ==
  [type |-> Gal!TypeAt(count), at |-> count, iod |-> issue, timed |-> timed]

LEMMA GalPlace ==
  ASSUME GalInv
  PROVE  /\ Gal!PlaceOf(count) \in 1 .. Len(Order)
         /\ Gal!TypeAt(count) = Order[Gal!PlaceOf(count)] /\ Gal!TypeAt(count) \in Nat
<1>1. count \in Nat /\ Len(Order) \in Nat \ {0} /\ \A n \in 1 .. Len(Order) : Order[n] \in Nat
      BY GalTypes
<1>2. Gal!PlaceOf(count) \in 1 .. Len(Order)
      BY <1>1 DEF Gal!PlaceOf
<1>3. Gal!TypeAt(count) = Order[Gal!PlaceOf(count)]
      BY DEF Gal!PlaceOf, Gal!TypeAt
<1> QED BY <1>1, <1>2, <1>3

LEMMA GalParse ==
  ASSUME GalInv, Gal!ParseWord
  PROVE  GalInv' /\ Gal!NothingRepeated
<1>1. PICK timed \in BOOLEAN :
       /\ Gal!DecodeSubframe(GalWord(timed))
       /\ streak' = IF Gal!TypeAt(count) = 0 /\ ~timed THEN 0
                    ELSE IF Gal!PlaceOf(count) = 1 THEN 1
                    ELSE IF streak = Gal!PlaceOf(count) - 1 THEN Gal!PlaceOf(count) ELSE 0
      BY Zenon DEF Gal!ParseWord, GalWord
<1>2. /\ count \in Nat /\ issue \in Nat /\ issue <= MaxIssue /\ MaxIssue \in Nat
      /\ Len(Order) \in Nat \ {0}
      BY GalTypes
<1>3. count' = count + 1 /\ issue' = issue
      BY DEF Gal!ParseWord, Gal!Sent
<1>4. streak' \in 0 .. Len(Order)
  <2>1. streak' \in {0, 1, Gal!PlaceOf(count)}
        BY <1>1, Zenon
  <2> QED BY <1>2, <2>1, GalPlace
<1> DEFINE word == GalWord(timed)
<1>5. CASE Gal!TypeAt(count) > 6
  <2>1. word.type > 6
        BY <1>5 DEF GalWord
  <2> HIDE DEF word
  <2>2. UNCHANGED <<subfrm, flags, published>>
        BY <1>1, <2>1 DEF Gal!DecodeSubframe, word
  <2> QED BY <1>2, <1>3, <1>4, <2>2, GalKept
<1>6. CASE ~ (Gal!TypeAt(count) > 6)
  <2>1. word.type = Gal!TypeAt(count) /\ word.at = count
        BY DEF GalWord
  <2>2. Gal!TypeAt(count) \in 0 .. 6
        BY <1>6, GalPlace
  <2>3. issue \in 0 .. MaxIssue
        BY <1>2
  <2>4. word \in Gal!Words
        BY <1>2, <2>2, <2>3 DEF GalWord, Gal!Words, Gal!Types, Gal!Issues
  <2> HIDE DEF word
  <2>5. Gal!StoreWord(word)
        BY <1>1, <1>6, <2>1 DEF Gal!DecodeSubframe, word
  <2> QED BY <1>3, <1>4, <2>1, <2>4, <2>5, GalStore
<1> QED BY <1>5, <1>6

LEMMA GalOther ==
  ASSUME GalInv, Gal!MissWord \/ Gal!Upload
  PROVE  GalInv' /\ Gal!NothingRepeated
<1>1. /\ count \in Nat /\ issue \in Nat /\ issue <= MaxIssue /\ MaxIssue \in Nat
      /\ Len(Order) \in Nat \ {0}
      BY GalTypes
<1>2. UNCHANGED <<subfrm, flags, published>> /\ streak' \in 0 .. Len(Order)
      BY <1>1 DEF Gal!MissWord, Gal!Upload
<1>3. count' \in Nat /\ count <= count' /\ issue' \in 0 .. MaxIssue
      BY <1>1 DEF Gal!MissWord, Gal!Upload, Gal!Sent
<1> QED BY <1>2, <1>3, GalKept

-----------------------------------------------------------------------------
(* Galileo, a cycle received without a hole: until the last of the types   *)
(* is there the flags are those of its words, all of the present issue;    *)
(* with it the ephemeris goes out, and no word 2 comes before the next     *)
(* cycle.                                                                  *)
TypesUpTo(p) == {t \in 0 .. 6 : \E i \in 1 .. p : Order[i] = t}

Collecting ==
  /\ flags = TypesUpTo(streak) /\ flags # 0 .. 6
  /\ subfrm[2].at = count - streak
  /\ \A t \in flags : subfrm[t].iod = issue
  /\ 0 \in flags => subfrm[0].timed

CyclePublished ==
  /\ 2 \notin flags
  /\ published[2].at = count - streak /\ published[2].type = 2

GalCycle == streak # 0 => Collecting \/ CyclePublished

(* At the end of the cycle it is not collecting any more. *)
LEMMA GalCycleComplete ==
  ASSUME GalInv, GalCycle', streak' \in Nat
  PROVE  Gal!CompleteCycleDecoded
<1> SUFFICES ASSUME count' = count + 1, streak' = Len(Order)
             PROVE  published'[2].at = count + 1 - Len(Order) /\ published'[2].type = 2
    BY DEF Gal!CompleteCycleDecoded
<1>1. Len(Order) \in Nat \ {0} /\ count \in Nat
      BY GalTypes
<1>2. TypesUpTo(Len(Order)) = 0 .. 6
      BY CycleAssumption DEF TypesUpTo
<1>3. TypesUpTo(streak)' = TypesUpTo(streak')
      BY DEF TypesUpTo
<1>4. ~ Collecting'
      BY <1>2, <1>3, Zenon DEF Collecting
<1>5. CyclePublished'
      BY <1>1, <1>4 DEF GalCycle
<1> QED BY <1>1, <1>5 DEF CyclePublished

(* what StoreWord does with a word other than 2 *)
LEMMA GalStoreCycle ==
  ASSUME GalInv, NEW timed \in BOOLEAN, NEW word, word = GalWord(timed),
         word.type \in (0 .. 6) \ {2}, word.type = 0 => timed,
         Gal!StoreWord(word), count' = count + 1, issue' = issue,
         streak \in Nat \ {0}, streak' = streak + 1, Order[streak + 1] = word.type,
         Collecting \/ CyclePublished
  PROVE  Collecting' \/ CyclePublished'
<1> USE DEF Gal!Types, Gal!Used
<1> DEFINE k    == word.type
           slot == [subfrm EXCEPT ![k] = word]
           new  == flags \union {k}
<1>1. /\ count \in Nat /\ issue \in Nat
      /\ subfrm \in [0 .. 6 -> Gal!Words]
      /\ flags \subseteq 0 .. 6 /\ \A t \in flags : subfrm[t].type = t
      BY GalTypes
<1>2. Gal!FlagsWith(k) = new
      BY DEF Gal!FlagsWith
<1>3. IF new = 0 .. 6 /\ Gal!Decodable(slot)
      THEN /\ published' = [t \in 0 .. 5 |-> slot[t]]
           /\ subfrm' = Gal!Cleared /\ flags' = {}
      ELSE subfrm' = slot /\ flags' = new /\ published' = published
      BY <1>2 DEF Gal!StoreWord
<1>4. k \in 0 .. 6 /\ k # 2 /\ word.iod = issue /\ word.timed = timed
      BY DEF GalWord
<1>5. slot[k] = word /\ \A t \in 0 .. 6 : t # k => slot[t] = subfrm[t]
      BY <1>1, <1>4
<1> HIDE DEF slot, new
<1>6. count' - streak' = count - streak
      BY <1>1
<1>7. CASE CyclePublished
  <2>1. 2 \notin new /\ new # 0 .. 6
        BY <1>4, <1>7 DEF new, CyclePublished
  <2>2. flags' = new /\ published' = published
        BY <1>3, <2>1
  <2> QED BY <1>6, <1>7, <2>1, <2>2 DEF CyclePublished
<1>8. CASE Collecting
  <2>1. new = TypesUpTo(streak + 1)
    <3>1. flags = TypesUpTo(streak)
          BY <1>8 DEF Collecting
    <3>2. \A i \in 1 .. streak + 1 : i \in 1 .. streak \/ i = streak + 1
          OBVIOUS
    <3>3. \A i \in 1 .. streak : i \in 1 .. streak + 1
          OBVIOUS
    <3>4. streak + 1 \in 1 .. streak + 1
          OBVIOUS
    <3> QED BY <1>4, <3>1, <3>2, <3>3, <3>4 DEF new, TypesUpTo
  <2>2. slot[2] = subfrm[2] /\ subfrm[2].at = count - streak
        BY <1>4, <1>5, <1>8 DEF Collecting
  <2>3. \A t \in new : slot[t].iod = issue
    <3>1. \A t \in flags : subfrm[t].iod = issue
          BY <1>8 DEF Collecting
    <3> SUFFICES ASSUME NEW t \in new PROVE slot[t].iod = issue
        OBVIOUS
    <3>2. t = k \/ (t \in flags /\ t \in 0 .. 6)
          BY <1>1 DEF new
    <3>3. CASE t = k
          BY <1>4, <1>5, <3>3, Zenon
    <3>4. CASE t # k
          BY <1>5, <3>1, <3>2, <3>4
    <3> QED BY <3>3, <3>4
  <2>4. 0 \in new => slot[0].timed
    <3>1. CASE k = 0
      <4>1. slot[0] = word /\ timed
            BY <1>5, <3>1, Zenon
      <4> QED BY <1>4, <4>1, Zenon
    <3>2. CASE k # 0
      <4>1. slot[0] = subfrm[0]
            BY <1>5, <3>2
      <4> QED BY <1>8, <3>2, <4>1, Zenon DEF new, Collecting
    <3> QED BY <3>1, <3>2
  <2>5. CASE new = 0 .. 6
    <3>1. \A t \in 0 .. 5 : slot[t].type = t
      <4> SUFFICES ASSUME NEW t \in 0 .. 5 PROVE slot[t].type = t
          OBVIOUS
      <4>1. t \in 0 .. 6 /\ (t = k \/ t \in flags)
            BY <2>5 DEF new
      <4>2. CASE t = k
            BY <1>5, <4>2, Zenon
      <4>3. CASE t # k
            BY <1>1, <1>5, <4>1, <4>3
      <4> QED BY <4>2, <4>3
    <3>2. \A t \in 2 .. 4 : slot[t].iod = slot[1].iod
      <4>1. \A t \in 0 .. 6 : slot[t].iod = issue
            BY <2>3, <2>5
      <4> QED BY <4>1
    <3>3. slot[0].timed
          BY <2>4, <2>5
    <3>4. Gal!Decodable(slot)
          BY <3>1, <3>2, <3>3, Zenon DEF Gal!Decodable
    <3>5. published'[2] = slot[2] /\ flags' = {}
          BY <1>3, <2>5, <3>4
    <3> QED BY <1>6, <2>2, <3>1, <3>5 DEF CyclePublished
  <2>6. CASE new # 0 .. 6
    <3>1. subfrm' = slot /\ flags' = new
          BY <1>3, <2>6
    <3>2. TypesUpTo(streak)' = TypesUpTo(streak + 1)
          BY DEF TypesUpTo
    <3>3. flags' = TypesUpTo(streak)' /\ flags' # 0 .. 6
          BY <2>1, <2>6, <3>1, <3>2, Zenon
    <3>4. subfrm'[2].at = count' - streak' /\ \A t \in flags' : subfrm'[t].iod = issue'
          BY <1>6, <2>2, <2>3, <3>1
    <3>5. 0 \in flags' => subfrm'[0].timed
          BY <2>4, <3>1, Zenon
    <3> QED BY <3>3, <3>4, <3>5, Zenon DEF Collecting
  <2> QED BY <2>5, <2>6
<1> QED BY <1>7, <1>8

LEMMA GalParseCycle ==
  ASSUME GalInv, GalCycle, Gal!ParseWord
  PROVE  GalCycle' /\ Gal!CompleteCycleDecoded
<1> USE DEF Gal!Types, Gal!Used
<1> DEFINE p == Gal!PlaceOf(count)
           k == Gal!TypeAt(count)
<1>1. PICK timed \in BOOLEAN :
       /\ Gal!DecodeSubframe(GalWord(timed))
       /\ streak' = IF k = 0 /\ ~timed THEN 0
                    ELSE IF p = 1 THEN 1 ELSE IF streak = p - 1 THEN p ELSE 0
      BY Zenon DEF Gal!ParseWord, GalWord
<1>2. /\ count \in Nat /\ Len(Order) \in Nat \ {0} /\ streak \in 0 .. Len(Order)
      /\ subfrm \in [0 .. 6 -> Gal!Words] /\ flags \subseteq 0 .. 6
      BY GalTypes
<1>3. count' = count + 1 /\ issue' = issue
      BY DEF Gal!ParseWord, Gal!Sent
<1>4. p \in 1 .. Len(Order) /\ k = Order[p] /\ k \in Nat
      BY GalPlace
<1> DEFINE word == GalWord(timed)
<1>5. word.type = k
      BY DEF GalWord
<1> HIDE DEF p, k, word
<1>6. IF k > 6 THEN UNCHANGED <<subfrm, flags, published>> ELSE Gal!StoreWord(word)
      BY <1>1, <1>5 DEF Gal!DecodeSubframe, word
<1> SUFFICES GalCycle'
  <2>1. streak' \in Nat
        BY <1>1, <1>4
  <2> QED BY <2>1, GalCycleComplete
<1>7. CASE streak' = 0
      BY <1>7 DEF GalCycle
<1>8. CASE streak' # 0 /\ p = 1
  <2>1. k = 2 /\ streak' = 1
        BY <1>1, <1>4, <1>8, CycleAssumption
  <2>2. Gal!StoreWord(word)
        BY <1>6, <2>1
  <2>3. Gal!FlagsWith(word.type) = {2} /\ {2} # 0 .. 6
        BY <1>5, <2>1 DEF Gal!FlagsWith
  <2>4. flags' = {2} /\ subfrm' = [subfrm EXCEPT ![2] = word]
        BY <1>5, <2>1, <2>2, <2>3 DEF Gal!StoreWord
  <2>5. subfrm'[2] = word
        BY <1>2, <2>4
  <2>6. word.at = count /\ word.iod = issue
        BY DEF word, GalWord
  <2>7. TypesUpTo(streak)' = {2}
    <3>1. TypesUpTo(streak)' = TypesUpTo(1)
          BY <2>1 DEF TypesUpTo
    <3>2. TypesUpTo(1) = {2}
          BY CycleAssumption, SMTT(60) DEF TypesUpTo
    <3> QED BY <3>1, <3>2
  <2>8. Collecting'
    <3>1. subfrm'[2].at = count' - streak' /\ \A t \in flags' : subfrm'[t].iod = issue'
          BY <1>2, <1>3, <2>1, <2>4, <2>5, <2>6
    <3>2. 0 \notin flags' /\ flags' = TypesUpTo(streak)' /\ flags' # 0 .. 6
          BY <2>3, <2>4, <2>7
    <3> QED BY <3>1, <3>2, Zenon DEF Collecting
  <2> QED BY <2>8 DEF GalCycle
<1>9. CASE streak' # 0 /\ p # 1
  <2>1. streak' = p /\ streak = p - 1 /\ (k = 0 => timed)
        BY <1>1, <1>9, Zenon
  <2>2. streak \in Nat \ {0} /\ streak' = streak + 1 /\ p = streak + 1
        BY <1>4, <1>9, <2>1
  <2>3. Collecting \/ CyclePublished
        BY <2>2 DEF GalCycle
  <2>4. k # 2
        BY <1>4, <1>9, CycleAssumption
  <2>5. CASE k > 6
    <3>1. UNCHANGED <<subfrm, flags, published>>
          BY <1>6, <2>5
    <3>2. count' - streak' = count - streak
          BY <1>2, <1>3, <2>2
    <3>3. TypesUpTo(streak)' = TypesUpTo(streak)
      <4>1. TypesUpTo(streak)' = TypesUpTo(streak + 1)
            BY <2>2 DEF TypesUpTo
      <4>2. ASSUME NEW t \in 0 .. 6
            PROVE  (\E i \in 1 .. streak + 1 : Order[i] = t) <=> (\E i \in 1 .. streak : Order[i] = t)
        <5>1. Order[streak + 1] # t
              BY <1>4, <2>2, <2>5
        <5>2. \A i \in 1 .. streak + 1 : i \in 1 .. streak \/ i = streak + 1
              BY <2>2
        <5>3. \A i \in 1 .. streak : i \in 1 .. streak + 1
              BY <2>2
        <5> QED BY <5>1, <5>2, <5>3, Zenon
      <4> QED BY <4>1, <4>2, Zenon DEF TypesUpTo
    <3>4. Collecting => Collecting'
          BY <1>3, <3>1, <3>2, <3>3, Zenon DEF Collecting
    <3>5. CyclePublished => CyclePublished'
          BY <3>1, <3>2, Zenon DEF CyclePublished
    <3> QED BY <2>3, <3>4, <3>5 DEF GalCycle
  <2>6. CASE ~ (k > 6)
    <3>1. word.type \in (0 .. 6) \ {2} /\ Order[streak + 1] = word.type
          BY <1>4, <1>5, <2>2, <2>4, <2>6
    <3>2. word.type = 0 => timed
          BY <1>5, <2>1, Zenon
    <3>3. Gal!StoreWord(word) /\ word = GalWord(timed)
          BY <1>6, <2>6 DEF word
    <3>4. Collecting' \/ CyclePublished'
          BY <1>3, <2>2, <2>3, <3>1, <3>2, <3>3, GalStoreCycle, Zenon
    <3> QED BY <3>4 DEF GalCycle
  <2> QED BY <2>5, <2>6
<1> QED BY <1>7, <1>8, <1>9

LEMMA GalOtherCycle ==
  ASSUME GalInv, Gal!MissWord \/ Gal!Upload
  PROVE  GalCycle' /\ Gal!CompleteCycleDecoded
<1>1. streak' = 0
      BY DEF Gal!MissWord, Gal!Upload
<1>2. Len(Order) # 0
      BY GalTypes
<1> QED BY <1>1, <1>2 DEF GalCycle, Gal!CompleteCycleDecoded

-----------------------------------------------------------------------------
(* A number given out by sat_no is that of one satellite of one system.    *)
LEMMA SatNumbers ==
  ASSUME NEW sys, NEW prn \in Nat, sat_no(sys, prn) # 0
  PROVE  /\ sys \in Systems /\ prn \in 1 .. N_SAT_BDS
         /\ satsys(sat_no(sys, prn)) = [sys |-> sys, prn |-> prn]
<1> USE DEF N_SAT_GPS, N_SAT_GLO, N_SAT_GAL, N_SAT_BDS, MAX_SAT, Systems
<1>1. CASE sys = "GPS"
  <2>1. sat_no(sys, prn) = prn /\ prn \in 1 .. 32
        BY <1>1 DEF sat_no
  <2> QED BY <1>1, <2>1 DEF satsys
<1>2. CASE sys = "GLO"
  <2>1. sat_no(sys, prn) = 32 + prn /\ prn \in 1 .. 27
        BY <1>2 DEF sat_no
  <2> QED BY <1>2, <2>1 DEF satsys
<1>3. CASE sys = "GAL"
  <2>1. sat_no(sys, prn) = 59 + prn /\ prn \in 1 .. 38
        BY <1>3 DEF sat_no
  <2> QED BY <1>3, <2>1 DEF satsys
<1>4. CASE sys = "BDS"
  <2>1. sat_no(sys, prn) = 97 + prn /\ prn \in 1 .. 63
        BY <1>4 DEF sat_no
  <2> QED BY <1>4, <2>1 DEF satsys
<1>5. CASE sys \notin {"GPS", "GLO", "GAL", "BDS"}
      BY <1>5 DEF sat_no
<1> QED BY <1>1, <1>2, <1>3, <1>4, <1>5

LEMMA NameOfNumber ==
  ASSUME NEW n \in Names, Numbered(n)
  PROVE  /\ SysOf(n) \in Systems /\ n.svId \in 1 .. N_SAT_BDS
         /\ satsys(SatOf(n)) = [sys |-> SysOf(n), prn |-> n.svId]
<1>1. n \in [gnssId : 0 .. 255, svId : 0 .. 255]
      BY DispatchAssumption, Zenon
<1>2. n.svId \in Nat
      BY <1>1
<1> QED BY <1>2, SatNumbers, Zenon DEF Numbered, SatOf

(* So two satellites with one number are one. *)
LEMMA OneOfNumber ==
  ASSUME NEW n \in Names, NEW m \in Names, Numbered(n), SatOf(n) = SatOf(m)
  PROVE  n = m
<1>1. Numbered(m)
      BY DEF Numbered
<1>2. [sys |-> SysOf(n), prn |-> n.svId] = [sys |-> SysOf(m), prn |-> m.svId]
      BY <1>1, NameOfNumber
<1>3. SysOf(n) = SysOf(m) /\ n.svId = m.svId
      BY <1>2
<1>4. n \in [gnssId : 0 .. 255, svId : 0 .. 255] /\ m \in [gnssId : 0 .. 255, svId : 0 .. 255]
      BY DispatchAssumption, Zenon
<1>5. n.gnssId \in {0, 2, 3, 6} /\ m.gnssId \in {0, 2, 3, 6}
  <2>1. SysOf(n) \in Systems /\ SysOf(m) \in Systems
        BY <1>1, NameOfNumber
  <2> QED BY <2>1 DEF SysOf, ubx_sys, Systems
<1>6. n.gnssId = m.gnssId
      BY <1>3, <1>5 DEF SysOf, ubx_sys
<1> QED BY <1>3, <1>4, <1>6

-----------------------------------------------------------------------------
(* The inductive invariant: the decoder of the format has its own, nobody  *)
(* else writes, and what is on the topic has the name of the satellite.    *)
NameOf(n) == [sys |-> SysOf(n), prn |-> n.svId]

Formats == {"LNAV", "D1", "D2", "I/NAV"}

DecoderInv ==
  /\ Is("LNAV") => GpsInv /\ flags = {}
  /\ Is("D1") => D1Inv
  /\ Is("D2") => D2Inv /\ flags = {}
  /\ Is("I/NAV") => GalInv /\ GalCycle
  /\ Format(sv) \notin Formats => published = None

NamesInv ==
  /\ sv \in Watched /\ writers \subseteq {sv}
  /\ topic = None \/ (topic = NameOf(sv) /\ topic \in [sys : Published, prn : 1 .. N_SAT_BDS])
  /\ missed \in 0 .. MaxMissed /\ up \in BOOLEAN

IInv == DecoderInv /\ NamesInv

(* what a step owes to the action properties *)
DecoderStep ==
  /\ Is("LNAV") => Gps!FromCurrentFrame /\ Gps!CompleteFrameDecoded
  /\ Is("D1") => D1!FromCurrentFrame
  /\ Is("D2") => D2!FromCurrentCycle /\ D2!CompleteCycleDecoded
  /\ Is("I/NAV") => Gal!CompleteCycleDecoded /\ Gal!NothingRepeated

LEMMA InitGps == Gps!Init => GpsInv
<1> SUFFICES ASSUME Gps!Init PROVE GpsInv
    OBVIOUS
<1>1. MaxIssue \in Nat
      BY DispatchAssumption
<1>2. Gps!Blank \in Gps!Subframes /\ Gps!Blank.id = 0
      BY <1>1 DEF Gps!Blank, Gps!Subframes, Gps!Issues
<1>3. published \in [parts : [Gps!Parts -> Gps!Subframes], toe : BOOLEAN]
      BY <1>2 DEF Gps!Init, Gps!NoEphem
<1>4. Gps!TypeOK
      BY <1>1, <1>2, <1>3 DEF Gps!Init, Gps!TypeOK, Gps!Issues, Gps!Ids
<1> QED BY <1>4 DEF GpsInv, Gps!Init

LEMMA InitD1 == D1!Init => D1Inv
<1> SUFFICES ASSUME D1!Init PROVE D1Inv
    OBVIOUS
<1>1. MaxIssue \in Nat
      BY DispatchAssumption
<1>2. D1!Blank \in D1!Subframes /\ D1!Blank.frn = 0
      BY <1>1 DEF D1!Blank, D1!Subframes, D1!Issues
<1>3. D1!Parts # {}
      BY DEF D1!Parts
<1>4. D1!TypeOK
      BY <1>1, <1>2, <1>3 DEF D1!Init, D1!TypeOK, D1!Issues, D1!Ids, D1!NoEphem
<1>5. D1Slots(subfrm, count, issue)
      BY <1>2 DEF D1!Init, D1Slots, D1!Ids
<1>6. D1!PublishedOneIssue
      BY DEF D1!Init, D1!PublishedOneIssue, D1!NoEphem
<1> QED BY <1>4, <1>5, <1>6 DEF D1Inv

LEMMA InitD2 == D2!Init => D2Inv
<1> SUFFICES ASSUME D2!Init PROVE D2Inv
    OBVIOUS
<1>1. MaxIssue \in Nat
      BY DispatchAssumption
<1>2. D2!Blank \in D2!Pages /\ D2!Blank.pgn = 0
      BY <1>1 DEF D2!Blank, D2!Pages, D2!Issues, D2!LastPage
<1>3. D2!TypeOK
      BY <1>1, <1>2 DEF D2!Init, D2!TypeOK, D2!Issues, D2!PageNumbers, D2!LastPage
<1> QED BY <1>3 DEF D2Inv, D2!Init

LEMMA InitGal == Gal!Init => GalInv /\ GalCycle
<1> SUFFICES ASSUME Gal!Init PROVE GalInv /\ GalCycle
    OBVIOUS
<1>1. MaxIssue \in Nat /\ Len(Order) \in Nat \ {0}
      BY DispatchAssumption
<1>2. Gal!Blank \in Gal!Words
      BY <1>1 DEF Gal!Blank, Gal!Words, Gal!Issues, Gal!Types
<1>3. Gal!TypeOK
      BY <1>1, <1>2 DEF Gal!Init, Gal!TypeOK, Gal!Issues, Gal!Cleared
<1>4. \A u \in 0 .. 5 : published[u] = Gal!Blank
      BY DEF Gal!Init, Gal!Used
<1>5. Gal!PublishedOneIssue /\ Gal!PublishedSinceWord2
  <2>1. Gal!Blank.at <= Gal!Blank.at
        BY DEF Gal!Blank
  <2> QED BY <1>4, <2>1 DEF Gal!PublishedOneIssue, Gal!PublishedSinceWord2, Gal!Used
<1>6. GalInv
      BY <1>3, <1>4, <1>5 DEF Gal!Init, GalInv
<1> QED BY <1>6 DEF Gal!Init, GalCycle

LEMMA InitIInv == Init => IInv
<1> SUFFICES ASSUME Init PROVE IInv
    OBVIOUS
<1>1. NamesInv
      BY DispatchAssumption DEF Init, NamesInv
<1>2. DecoderInv
  <2>1. CASE Is("LNAV")
        BY <2>1, InitGps DEF Init, DecoderInv, Is, Formats
  <2>2. CASE Is("D1")
        BY <2>2, InitD1 DEF Init, DecoderInv, Is, Formats
  <2>3. CASE Is("D2")
        BY <2>3, InitD2 DEF Init, DecoderInv, Is, Formats
  <2>4. CASE Is("I/NAV")
        BY <2>4, InitGal DEF Init, DecoderInv, Is, Formats
  <2>5. CASE Format(sv) \notin Formats
        BY <2>5 DEF Init, DecoderInv, Is, Formats
  <2> QED BY <2>1, <2>2, <2>3, <2>4, <2>5 DEF Formats, Is
<1> QED BY <1>1, <1>2 DEF IInv

(* A satellite has one format. *)
LEMMA FormatKept ==
  ASSUME sv' = sv
  PROVE  \A f : Is(f)' <=> Is(f)
BY DEF Is, Format, SysOf, ubx_sys

(* A step of the decoder of the watched satellite, whatever its format *)
LEMMA OwnDecoder ==
  ASSUME DecoderInv, sv' = sv,
         \/ Is("LNAV") /\ flags' = flags
              /\ (Gps!ParseSubframe \/ Gps!MissSubframe \/ Gps!Upload)
         \/ Is("D1") /\ (D1!ParseSubframe \/ D1!MissSubframe \/ D1!Upload)
         \/ Is("D2") /\ flags' = flags /\ (D2!ParsePage \/ D2!MissPage \/ D2!Upload)
         \/ Is("I/NAV") /\ (Gal!ParseWord \/ Gal!MissWord \/ Gal!Upload)
  PROVE  DecoderInv' /\ DecoderStep
<1> USE FormatKept
<1>1. CASE Is("LNAV")
  <2>1. flags' = {} /\ GpsInv' /\ Gps!FromCurrentFrame /\ Gps!CompleteFrameDecoded
        BY <1>1, GpsParse, GpsOther DEF DecoderInv, Is
  <2> QED BY <1>1, <2>1 DEF DecoderInv, DecoderStep, Is, Formats
<1>2. CASE Is("D1")
  <2>1. D1Inv' /\ D1!FromCurrentFrame
        BY <1>2, D1Parse, D1Other DEF DecoderInv, Is
  <2> QED BY <1>2, <2>1 DEF DecoderInv, DecoderStep, Is, Formats
<1>3. CASE Is("D2")
  <2>1. flags' = {} /\ D2Inv' /\ D2!FromCurrentCycle /\ D2!CompleteCycleDecoded
        BY <1>3, D2Parse, D2Other DEF DecoderInv, Is
  <2> QED BY <1>3, <2>1 DEF DecoderInv, DecoderStep, Is, Formats
<1>4. CASE Is("I/NAV")
  <2>1. /\ GalInv' /\ GalCycle'
        /\ Gal!CompleteCycleDecoded /\ Gal!NothingRepeated
        BY <1>4, GalParse, GalOther, GalParseCycle, GalOtherCycle DEF DecoderInv, Is
  <2> QED BY <1>4, <2>1 DEF DecoderInv, DecoderStep, Is, Formats
<1> QED BY <1>1, <1>2, <1>3, <1>4

(* A step that leaves the decoder and its history alone *)
LEMMA DecoderAlone ==
  ASSUME DecoderInv, UNCHANGED <<sv, count, issue, decoderVars, streak>>
  PROVE  DecoderInv' /\ DecoderStep
<1> USE FormatKept DEF decoderVars
<1>1. Is("LNAV") => GpsInv' /\ flags' = {} /\ Gps!FromCurrentFrame /\ Gps!CompleteFrameDecoded
  <2> SUFFICES ASSUME Is("LNAV") PROVE GpsInv' /\ flags' = {} /\ Gps!FromCurrentFrame
                                        /\ Gps!CompleteFrameDecoded
      OBVIOUS
  <2>1. GpsInv /\ flags = {}
        BY DEF DecoderInv
  <2>2. GpsInv'
        BY <2>1 DEF GpsInv, Gps!TypeOK
  <2>3. count \in Nat
        BY <2>1 DEF GpsInv, Gps!TypeOK
  <2>4. count' # count + 1
        BY <2>3
  <2> QED BY <2>1, <2>2, <2>4, Zenon DEF Gps!FromCurrentFrame, Gps!CompleteFrameDecoded
<1>2. Is("D1") => D1Inv' /\ D1!FromCurrentFrame
  <2> SUFFICES ASSUME Is("D1") PROVE D1Inv' /\ D1!FromCurrentFrame
      OBVIOUS
  <2>1. D1Inv
        BY DEF DecoderInv
  <2>2. D1Inv'
        BY <2>1 DEF D1Inv, D1!TypeOK, D1Slots, D1!PublishedOneIssue
  <2> QED BY <2>2, Zenon DEF D1!FromCurrentFrame
<1>3. Is("D2") => D2Inv' /\ flags' = {} /\ D2!FromCurrentCycle /\ D2!CompleteCycleDecoded
  <2> SUFFICES ASSUME Is("D2") PROVE D2Inv' /\ flags' = {} /\ D2!FromCurrentCycle
                                      /\ D2!CompleteCycleDecoded
      OBVIOUS
  <2>1. D2Inv /\ flags = {}
        BY DEF DecoderInv
  <2>2. D2Inv'
        BY <2>1 DEF D2Inv, D2!TypeOK
  <2>3. count \in Nat
        BY <2>1 DEF D2Inv, D2!TypeOK
  <2>4. count' # count + 1
        BY <2>3
  <2> QED BY <2>1, <2>2, <2>4, Zenon DEF D2!FromCurrentCycle, D2!CompleteCycleDecoded
<1>4. Is("I/NAV") => GalInv' /\ GalCycle' /\ Gal!CompleteCycleDecoded /\ Gal!NothingRepeated
  <2> SUFFICES ASSUME Is("I/NAV")
               PROVE  GalInv' /\ GalCycle' /\ Gal!CompleteCycleDecoded /\ Gal!NothingRepeated
      OBVIOUS
  <2>1. GalInv /\ GalCycle
        BY DEF DecoderInv
  <2>2. GalInv' /\ GalCycle'
        BY <2>1 DEF GalInv, Gal!TypeOK, Gal!PublishedOneIssue, Gal!PublishedSinceWord2,
                    GalCycle, Collecting, CyclePublished
  <2>3. count \in Nat
        BY <2>1 DEF GalInv, Gal!TypeOK
  <2>4. count' # count + 1
        BY <2>3
  <2> QED BY <2>2, <2>4, Zenon DEF Gal!CompleteCycleDecoded, Gal!NothingRepeated
<1>5. Format(sv) \notin Formats => published' = None
      BY DEF DecoderInv
<1>6. Format(sv)' = Format(sv)
      BY DEF Is
<1> QED BY <1>1, <1>2, <1>3, <1>4, <1>5, <1>6 DEF DecoderInv, DecoderStep, Is

-----------------------------------------------------------------------------
(* The steps of the dispatch *)
LEMMA OwnStep ==
  ASSUME IInv, ParseOwn
  PROVE  IInv' /\ DecoderStep
<1> USE DEF IInv
<1>1. DecoderInv' /\ DecoderStep
  <2>1. CASE /\ sv' = sv
             /\ \/ Is("LNAV") /\ flags' = flags /\ Gps!ParseSubframe
                \/ Is("D1") /\ D1!ParseSubframe
                \/ Is("D2") /\ flags' = flags /\ D2!ParsePage
                \/ Is("I/NAV") /\ Gal!ParseWord
        BY <2>1, OwnDecoder, Zenon
  <2>2. CASE sv' = sv /\ ParseGlonass
        BY <2>2, DecoderAlone DEF ParseGlonass
  <2> QED BY <2>1, <2>2 DEF ParseOwn
<1>2. sv \in Names /\ Numbered(sv) /\ sv' = sv
      BY DispatchAssumption DEF NamesInv, ParseOwn
<1>3. satsys(SatOf(sv)) = NameOf(sv) /\ SysOf(sv) \in Systems /\ sv.svId \in 1 .. N_SAT_BDS
      BY <1>2, NameOfNumber DEF NameOf
<1>4. NameOf(sv).sys = SysOf(sv) /\ NameOf(sv).prn = sv.svId
      BY DEF NameOf
<1>5. topic' = topic \/ (topic' = NameOf(sv) /\ SysOf(sv) \in Published)
      BY <1>3, <1>4 DEF ParseOwn, PublishEphemeris
<1>6. SysOf(sv) \in Published => NameOf(sv) \in [sys : Published, prn : 1 .. N_SAT_BDS]
      BY <1>3 DEF NameOf
<1>7. NameOf(sv)' = NameOf(sv)
      BY <1>2 DEF NameOf, SysOf, ubx_sys
<1>8. topic' = None \/ (topic' = NameOf(sv)' /\ topic' \in [sys : Published, prn : 1 .. N_SAT_BDS])
      BY <1>5, <1>6, <1>7 DEF NamesInv
<1>9. up' \in BOOLEAN
      BY DEF NamesInv, ParseOwn, ParseGlonass
<1>10. NamesInv'
  <2>1. sv' \in Watched /\ writers' \subseteq {sv'} /\ missed' \in 0 .. MaxMissed
        BY <1>2 DEF NamesInv, ParseOwn
  <2> QED BY <1>8, <1>9, <2>1 DEF NamesInv, None
<1> QED BY <1>1, <1>10

(* The other steps say nothing on the topic, and only the last writes. *)
LEMMA NamesKept ==
  ASSUME NamesInv, UNCHANGED <<sv, topic, up>>, missed' \in 0 .. MaxMissed, writers' = writers
  PROVE  NamesInv'
<1>1. NameOf(sv)' = NameOf(sv)
      BY DEF NameOf, SysOf, ubx_sys
<1> QED BY <1>1 DEF NamesInv, None

LEMMA MissStep ==
  ASSUME IInv, MissOwn
  PROVE  IInv' /\ DecoderStep
<1>1. DecoderInv' /\ DecoderStep
      BY OwnDecoder, Zenon DEF IInv, MissOwn
<1>2. missed' \in 0 .. MaxMissed
      BY DispatchAssumption DEF IInv, NamesInv, MissOwn
<1>3. NamesInv'
      BY <1>2, NamesKept DEF IInv, MissOwn
<1> QED BY <1>1, <1>3 DEF IInv

LEMMA UploadStep ==
  ASSUME IInv, UploadOwn
  PROVE  IInv' /\ DecoderStep
<1>1. DecoderInv' /\ DecoderStep
      BY OwnDecoder, Zenon DEF IInv, UploadOwn
<1>2. missed' \in 0 .. MaxMissed
      BY DEF IInv, NamesInv, UploadOwn
<1>3. NamesInv'
      BY <1>2, NamesKept DEF IInv, UploadOwn
<1> QED BY <1>1, <1>3 DEF IInv

LEMMA OtherStep ==
  ASSUME IInv, NEW n \in Names, ParseOther(n)
  PROVE  IInv' /\ DecoderStep
<1>1. DecoderInv' /\ DecoderStep
      BY DecoderAlone DEF IInv, ParseOther
<1>2. SatOf(n) # SatOf(sv)
  <2>1. sv \in Names /\ n # sv /\ Numbered(n)
        BY DispatchAssumption DEF IInv, NamesInv, ParseOther
  <2> QED BY <2>1, OneOfNumber
<1>3. writers' = writers
      BY <1>2 DEF ParseOther
<1>4. NamesInv'
      BY <1>3, NamesKept DEF IInv, NamesInv, ParseOther
<1> QED BY <1>1, <1>4 DEF IInv

LEMMA NextStep == IInv /\ Next => IInv' /\ DecoderStep
BY OwnStep, MissStep, UploadStep, OtherStep DEF Next

LEMMA Inductive == Spec => []IInv
<1>1. IInv /\ [Next]_vars => IInv'
  <2>1. IInv /\ Next => IInv'
        BY NextStep
  <2>2. IInv /\ UNCHANGED vars => IInv'
    <3> SUFFICES ASSUME IInv, UNCHANGED vars PROVE IInv'
        OBVIOUS
    <3>1. DecoderInv'
          BY DecoderAlone DEF IInv, vars, decoderVars
    <3>2. NamesInv'
          BY NamesKept DEF IInv, NamesInv, vars
    <3> QED BY <3>1, <3>2 DEF IInv
  <2> QED BY <2>1, <2>2
<1> QED BY InitIInv, <1>1, PTL DEF Spec

LEMMA EveryStep == Spec => [][DecoderStep]_vars
<1>1. IInv /\ [Next]_vars => [DecoderStep]_vars
      BY NextStep
<1> QED BY Inductive, <1>1, PTL DEF Spec

-----------------------------------------------------------------------------
(* Whatever the format of the watched satellite, the state of its decoder  *)
(* is what the decoder declares, and the name on the topic is one that may *)
(* be published.                                                           *)
THEOREM TypeCorrect == Spec => []TypeOK
<1>1. IInv => TypeOK
  <2> SUFFICES ASSUME IInv PROVE TypeOK
      OBVIOUS
  <2> DEFINE DecoderOK ==
        CASE Is("LNAV")  -> Gps!TypeOK /\ flags = {}
          [] Is("D1")    -> D1!TypeOK
          [] Is("D2")    -> D2!TypeOK /\ flags = {}
          [] Is("I/NAV") -> Gal!TypeOK
          [] OTHER       -> published = None
  <2>1. DecoderOK
        BY DEF IInv, DecoderInv, Is, Formats, GpsInv, D1Inv, D2Inv, GalInv
  <2>2. /\ sv \in Watched /\ missed \in 0 .. MaxMissed /\ up \in BOOLEAN
        /\ topic \in {None} \cup [sys : Published, prn : 1 .. N_SAT_BDS]
        BY DEF IInv, NamesInv
  <2>3. writers \subseteq Names
        BY <2>2, DispatchAssumption DEF IInv, NamesInv
  <2> QED BY <2>1, <2>2, <2>3 DEF TypeOK
<1> QED BY Inductive, <1>1, PTL

(* Satellite numbers are those of sat_no: no other satellite writes into   *)
(* the buffer of the watched one, and its ephemeris has its name.          *)
THEOREM SatellitesKeptApartHolds == Spec => []SatellitesKeptApart
<1>1. IInv => SatellitesKeptApart
      BY DEF IInv, NamesInv, SatellitesKeptApart, NameOf
<1> QED BY Inductive, <1>1, PTL

(* What the decoders of D1 and of Galileo publish is of one generation of  *)
(* the data, whatever was missed and whenever the data changed.            *)
THEOREM OneIssueHolds == Spec => []OneIssue
<1>1. IInv => OneIssue
      BY DEF IInv, DecoderInv, OneIssue, D1Inv, GalInv
<1> QED BY Inductive, <1>1, PTL

(* No word of a published Galileo ephemeris is older than its word 2, with *)
(* which decode_GAL_subframe begins a collection.                          *)
THEOREM GalSinceWord2Holds == Spec => []GalSinceWord2
<1>1. IInv => GalSinceWord2
      BY DEF IInv, DecoderInv, GalSinceWord2, GalInv
<1> QED BY Inductive, <1>1, PTL

(* What GPS, D1 and D2 decoders publish was sent in the frame or cycle     *)
(* that ends with the subframe being parsed.                               *)
THEOREM FromCurrentFrameHolds == Spec => FromCurrentFrame
<1> DEFINE A == /\ Is("LNAV") => Gps!FromCurrentFrame
                /\ Is("D1") => D1!FromCurrentFrame
                /\ Is("D2") => D2!FromCurrentCycle
<1>1. DecoderStep => A
      BY DEF DecoderStep
<1>2. Spec => [][A]_vars
  <2> HIDE DEF A
  <2>1. [DecoderStep]_vars => [A]_vars
        BY <1>1
  <2> QED BY EveryStep, <2>1, PTL
<1> QED BY <1>2, Zenon DEF FromCurrentFrame

(* A frame or cycle of GPS, D2 or Galileo that was received without a hole *)
(* has been published when its last subframe is parsed.                    *)
THEOREM CompleteFrameDecodedHolds == Spec => CompleteFrameDecoded
<1> DEFINE A == /\ Is("LNAV") => Gps!CompleteFrameDecoded
                /\ Is("D2") => D2!CompleteCycleDecoded
                /\ Is("I/NAV") => Gal!CompleteCycleDecoded
<1>1. DecoderStep => A
      BY DEF DecoderStep
<1>2. Spec => [][A]_vars
  <2> HIDE DEF A
  <2>1. [DecoderStep]_vars => [A]_vars
        BY <1>1
  <2> QED BY EveryStep, <2>1, PTL
<1> QED BY <1>2, Zenon DEF CompleteFrameDecoded

(* A Galileo ephemeris is made of words that all came after the last word  *)
(* of the one published before it.                                         *)
THEOREM GalNothingRepeatedHolds == Spec => GalNothingRepeated
<1> DEFINE A == Is("I/NAV") => Gal!NothingRepeated
<1>1. DecoderStep => A
      BY DEF DecoderStep
<1>2. Spec => [][A]_vars
  <2> HIDE DEF A
  <2>1. [DecoderStep]_vars => [A]_vars
        BY <1>1
  <2> QED BY EveryStep, <2>1, PTL
<1> QED BY <1>2, Zenon DEF GalNothingRepeated
=============================================================================
