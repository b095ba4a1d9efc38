----------------------------- MODULE ReceiverConfig -----------------------------
(***************************************************************************)
(* From the configuration files to the message that configures the         *)
(* receiver: LoadUbloxDriverParams and ParseUCenterConfig                  *)
(* (src/params/params.cpp:35-390) and build_config_msg                     *)
(* (src/gnss_message_parser/ublox_message_processor_helper.cpp:1298-1473). *)
(*                                                                         *)
(* The driver's own file gives the settings; the file for the receiver is  *)
(* either a u-center dump, a list of messages in hexadecimal, or a YAML    *)
(* map from names to numbers.  It is read line by line: one action each.   *)
(* A text that stands for a number, a token of a line or a value of the    *)
(* map, is the number it begins with and the rest behind it.               *)
(***************************************************************************)
EXTENDS Integers, Sequences, SequencesExt, UbxMessage

CONSTANTS
  Absent,     \* a field that is not there
  Junk,       \* no value of the field; no number, or one of more than 64 bits
  Anything,   \* where a file asks for what the driver has no name for
  Settings,   \* what the driver's file may say
  Lines,      \* the lines a u-center file may have
  Entries,    \* the entries a YAML file may have
  MaxLines    \* bound: lines of a file

VARIABLES
  startup,   \* how far it has come, see StartupStates
  params,    \* UbloxDriverParams without the records
  records,   \* params_.receiver_configs
  message,   \* config_buffer, up to msg_len
  asked,     \* history: what the file asks of the receiver, line by line
  damaged    \* history: a line or entry was met that says nothing meaningful

configVars == <<startup, params, records, message, asked, damaged>>

StartupStates ==
  {"settings", "u-center", "yaml", "loaded",
   "thrown",     \* an exception ended the program
   "skipped",    \* no records: startup goes on without a dialogue
   "refused",    \* build_config_msg did not return 0
   "built"}

NoParams == [source |-> "none", raw |-> {}, ephemeris |-> {}]

ConfigInit ==
  /\ startup = "settings"
  /\ params = NoParams
  /\ records = <<>> /\ message = <<>> /\ asked = <<>>
  /\ damaged = FALSE

Throws ==
  /\ startup' = "thrown"
  /\ records' = <<>>
  /\ UNCHANGED <<params, message, asked, damaged>>

-----------------------------------------------------------------------------
(* The settings.  A field is Absent, Junk or has a value.  The code has a  *)
(* default for each of the optional ones, but it is never reached: for an  *)
(* absent field FindFirstNode returns a null node, which counts as defined *)
(* and is then neither a boolean nor a list, so all of them are required.  *)
(* serial_port, tcp_port and caster tell whether the fields that the port, *)
(* the loopback and the caster need are there.                             *)

(* ReadBoolAny, ReadBoolNode, ParseBoolScalar *)
ReadBool(field) == field = "yes"
Unreadable(field) == field \in {Absent, Junk}

(* ParseGnssSystemMask *)
GnssSystemMask(field) == Range(field)
MaskRefused(field) ==
  ~(field # Absent /\ field # <<>> /\ Range(field) \subseteq {"GPS", "BDS"})

(* every condition under which LoadUbloxDriverParams throws before it      *)
(* opens the receiver's file                                               *)
SettingsRefused(s) ==
  \/ s.enable_serial # "yes"
  \/ ~s.serial_port
  \/ Unreadable(s.loopback) \/ Unreadable(s.ntrip) \/ Unreadable(s.bring)
  \/ ReadBool(s.loopback) /\ ~s.tcp_port
  \/ ReadBool(s.ntrip) /\ ~s.caster
  \/ MaskRefused(s.raw) \/ MaskRefused(s.ephemeris)
  \/ ReadBool(s.loopback) /\ ReadBool(s.ntrip)
  \/ ReadBool(s.bring) /\ s.file = "missing"

Source(s) ==
  IF ReadBool(s.loopback) THEN "loopback"
  ELSE IF ReadBool(s.ntrip) THEN "ntrip"
  ELSE "none"

ReadSettings ==
  /\ startup = "settings"
  /\ \E s \in Settings :
       \/ SettingsRefused(s) /\ Throws
       \/ /\ ~SettingsRefused(s)
          /\ params' = [source |-> Source(s), raw |-> GnssSystemMask(s.raw),
                        ephemeris |-> GnssSystemMask(s.ephemeris)]
          /\ startup' = IF ReadBool(s.bring) THEN s.file ELSE "loaded"
          /\ UNCHANGED <<records, message, asked, damaged>>

ASSUME SettingsAssumption == \A s \in Settings : s.file \in {"u-center", "yaml", "missing"}

-----------------------------------------------------------------------------
(* A u-center file *)

(* stoul and stoull read the number a text begins with.  They throw when   *)
(* it begins with none or with one too large, and never look at the rest.  *)
stoull(text) == text.number
Unparsed(text) == stoull(text) = Junk

(* GetValueByteCount, and the same in build_config_msg: the size is coded  *)
(* in three bits of the key                                                *)
GetValueByteCount(key) ==
  LET value_size == (key \div 2 ^ 28) % 8
  IN IF value_size > 2 THEN 2 ^ (value_size - 2) ELSE 1

Raw(key, value) == [raw |-> TRUE, key |-> key, value |-> value]

(* Variant for mutation: a value that is cut off is taken as it is         *)
ParsePairsLenient(b) ==
  LET f[o \in 0 .. Len(b)] ==
        IF o + 4 > Len(b) THEN [ok |-> o = Len(b), pairs |-> <<>>]
        ELSE LET key == Number(SubSeq(b, o + 1, o + 4))
                 end == o + 4 + GetValueByteCount(key)
             IN IF end > Len(b) THEN [ok |-> TRUE, pairs |-> <<Raw(key, SubSeq(b, o + 5, Len(b)))>>]
                ELSE [ok |-> f[end].ok,
                      pairs |-> <<Raw(key, SubSeq(b, o + 5, end))>> \o f[end].pairs]
  IN f[0]

(* key and value, key and value, up to the end of the payload; not ok when *)
(* a value is cut off or bytes are left over                               *)
ParsePairs(b) ==
  LET f[o \in 0 .. Len(b)] ==
        IF o + 4 > Len(b) THEN [ok |-> o = Len(b), pairs |-> <<>>]
        ELSE LET key == Number(SubSeq(b, o + 1, o + 4))
                 end == o + 4 + GetValueByteCount(key)
             IN IF end > Len(b) THEN [ok |-> FALSE, pairs |-> <<>>]
                ELSE [ok |-> f[end].ok,
                      pairs |-> <<Raw(key, SubSeq(b, o + 5, end))>> \o f[end].pairs]
  IN f[0]

(* a line of another message, or none at all *)
Ignored(line) == line.name \notin {"CFG-VALGET", "CFG-VALSET"}

(* the tokens behind the name, each one byte in hexadecimal *)
ParseHexBytes(tokens) == [i \in 1 .. Len(tokens) |-> stoull(tokens[i])]
BytesRefused(tokens) == \E i \in 1 .. Len(tokens) : stoull(tokens[i]) \notin Byte

(* class, id, length of the payload and its first four bytes *)
FormatRefused(b) ==
  \/ Len(b) < 8
  \/ b[1] # \h06 \/ b[2] \notin {\h8A, \h8B}
  \/ Len(b) # b[3] + 256 * b[4] + 4

Body(line) == SubSeq(ParseHexBytes(line.tokens), 9, Len(line.tokens))

LineRefused(line) ==
  \/ BytesRefused(line.tokens)
  \/ FormatRefused(ParseHexBytes(line.tokens))
  \/ ~ParsePairs(Body(line)).ok

ReadLine ==
  /\ startup = "u-center" /\ Len(asked) < MaxLines
  /\ \E line \in Lines :
       /\ asked' = Append(asked, line.asks)
       /\ damaged' = (damaged \/ line.damaged)
       /\ \/ /\ ~Ignored(line) /\ LineRefused(line)
             /\ startup' = "thrown" /\ records' = <<>>
          \/ /\ ~Ignored(line) /\ ~LineRefused(line)
             /\ records' = records \o ParsePairs(Body(line)).pairs
             /\ UNCHANGED startup
          \/ Ignored(line) /\ UNCHANGED <<startup, records>>
  /\ UNCHANGED <<params, message>>

(* a file without a record is refused *)
EndOfUCenterFile ==
  /\ startup = "u-center"
  /\ \/ records = <<>> /\ Throws
     \/ /\ records # <<>> /\ startup' = "loaded"
        /\ UNCHANGED <<params, records, message, asked, damaged>>

(* Reference: what the ghosts of a line are.  Its numbers say something if *)
(* they are bytes, the header of a dump of that length, four more and      *)
(* pairs: there are places behind the header, the first with them, from    *)
(* each of which one key and value lead to another, until the end.  The    *)
(* line then asks for the pairs it is the encoding of, and is damaged      *)
(* otherwise.  A token such as 6G counts as the number it begins with.     *)
Numbers(tokens) == [i \in 1 .. Len(tokens) |-> tokens[i].number]

(* n bytes can hold it *)
Representable(v, n) == v >= 0 /\ v \div 256 ^ (n - 1) < 256

IsPair(p) ==
  /\ p[1] \in Nat /\ p[1] \div 256 ^ 3 < 256
  /\ p[2] \in Seq(Byte) /\ Len(p[2]) = GetValueByteCount(p[1])

Encoded(pairs) ==
  FlattenSeq([i \in 1 .. Len(pairs) |-> LittleEndian(pairs[i][1], 4) \o pairs[i][2]])

Divided(b) ==
  \E cuts \in SUBSET (0 .. Len(b)) :
    /\ 0 \in cuts
    /\ \A o \in cuts \ {Len(b)} :
         /\ o + 4 <= Len(b)
         /\ o + 4 + GetValueByteCount(Number(SubSeq(b, o + 1, o + 4))) \in cuts

IsDump(b) ==
  /\ b \in Seq(Byte) /\ Len(b) >= 8 /\ Representable(Len(b) - 4, 2)
  /\ \E id \in {\h8A, \h8B} : SubSeq(b, 1, 4) = <<6, id>> \o LittleEndian(Len(b) - 4, 2)
  /\ Divided(SubSeq(b, 9, Len(b)))

ASSUME LinesAssumption ==
  \A line \in Lines :
    LET b == Numbers(line.tokens) IN
    /\ line.tokens \in Seq([number : Nat \cup {Junk}, rest : STRING])
    /\ line.damaged <=> ~Ignored(line) /\ ~IsDump(b)
    /\ line.asks \in Seq(Nat \X Seq(Byte)) /\ \A i \in DOMAIN line.asks : IsPair(line.asks[i])
    /\ ~line.damaged => IF Ignored(line) THEN line.asks = <<>>
                        ELSE SubSeq(b, 9, Len(b)) = Encoded(line.asks)

-----------------------------------------------------------------------------
(* A YAML file *)

Named(entry) == [raw |-> FALSE, name |-> entry.name, port |-> entry.port, text |-> entry.text]

ReadEntry ==
  /\ startup = "yaml" /\ Len(asked) < MaxLines
  /\ \E entry \in Entries :
       /\ asked' = Append(asked, entry.asks)
       /\ records' = Append(records, Named(entry))
       /\ damaged' = (damaged \/ entry.damaged)
  /\ UNCHANGED <<startup, params, message>>

EndOfYamlFile ==
  /\ startup = "yaml" /\ startup' = "loaded"
  /\ UNCHANGED <<params, records, message, asked, damaged>>

-----------------------------------------------------------------------------
(* build_config_msg *)

(* One name of every group and every type of the table, with the key and   *)
(* the type of its value                                                   *)
rcv_config_item2code ==
  [name \in {"CFG-MSGOUT-UBX_NAV_PVT", "CFG-MSGOUT-UBX_RXM_RAWX", "CFG-NAVSPG-DYNMODEL",
             "CFG-RATE-MEAS", "CFG-SIGNAL-GPS_ENA", "CFG-UART1-BAUDRATE"} |->
     CASE name = "CFG-MSGOUT-UBX_NAV_PVT"  -> [code |-> \h20910007, type |-> "U1"]
       [] name = "CFG-MSGOUT-UBX_RXM_RAWX" -> [code |-> \h209102A5, type |-> "U1"]
       [] name = "CFG-NAVSPG-DYNMODEL"     -> [code |-> \h20110021, type |-> "E1"]
       [] name = "CFG-RATE-MEAS"           -> [code |-> \h30210001, type |-> "U2"]
       [] name = "CFG-SIGNAL-GPS_ENA"      -> [code |-> \h1031001F, type |-> "L"]
       [] name = "CFG-UART1-BAUDRATE"      -> [code |-> \h40520001, type |-> "U4"]]

IsNavMsgout(name) == name = "CFG-MSGOUT-UBX_NAV_PVT"

(* the key's offset for a port.  The code has no branch for other ports    *)
(* and leaves the key it has, 0.                                           *)
PortOffset == [UART1 |-> 0, UART2 |-> 1, USB |-> 2]

(* record_key is a name of the table, alone or, for a message of class     *)
(* NAV, with a port after it                                               *)
KeyRefused(r) ==
  \/ r.name \notin DOMAIN rcv_config_item2code
  \/ r.port # Absent /\ ~IsNavMsgout(r.name)

KeyCode(r) ==
  IF r.port = Absent THEN rcv_config_item2code[r.name].code
  ELSE IF r.port \in DOMAIN PortOffset
       THEN rcv_config_item2code[r.name].code + PortOffset[r.port]
       ELSE 0

(* the low bytes of what stoull makes of the text: a negative number wraps *)
(* around and a number too large for the key loses its high bytes          *)
Pair(r) ==
  IF r.raw THEN <<r.key, r.value>>
  ELSE <<KeyCode(r), LittleEndian(stoull(r.text), GetValueByteCount(KeyCode(r)))>>

(* the first record that cannot be appended, and what becomes of it: an    *)
(* unsupported name is an error, a text without a number an exception      *)
Stops(r) == ~r.raw /\ (KeyRefused(r) \/ Unparsed(r.text))

(* Reference: what the ghosts of an entry are.  It asks for its name's key *)
(* and the number its text begins with in the bytes of its type, so 100ms  *)
(* for 100 and 0x64 for 0, or for something that has no meaning to the     *)
(* driver: another port, a number too large for the type.  It is damaged   *)
(* if it has no name of the table or no number.                            *)
TypeBytes == [U1 |-> 1, E1 |-> 1, L |-> 1, U2 |-> 2, U4 |-> 4]

EntryAsks(entry) ==
  LET item == rcv_config_item2code[entry.name]
      n    == TypeBytes[item.type]
      port == IF entry.port = Absent THEN 0 ELSE PortOffset[entry.port]
  IN IF entry.port \in {Absent} \cup DOMAIN PortOffset /\ Representable(entry.text.number, n)
     THEN <<item.code + port, LittleEndian(entry.text.number, n)>>
     ELSE Anything

ASSUME EntriesAssumption ==
  \A entry \in Entries :
    /\ entry.text \in [number : Int \cup {Junk}, rest : STRING]
    /\ entry.damaged <=> \/ entry.name \notin DOMAIN rcv_config_item2code
                          \/ /\ entry.port # Absent
                             /\ entry.name # "CFG-MSGOUT-UBX_NAV_PVT"
                          \/ entry.text.number = Junk
    /\ ~entry.damaged => entry.asks = <<EntryAsks(entry)>>
    /\ entry.asks \in Seq((Nat \X Seq(Byte)) \cup {Anything})

Built(pairs) ==
  LET payload == <<0, 1, 0, 0>> \o Encoded(pairs)
  IN set_checksum(<<UBX_SYNC_1, UBX_SYNC_2, \h06, \h8A>> \o LittleEndian(Len(payload), 2)
                  \o payload \o <<0, 0>>)

(* the records before the first that stops it, and what they become *)
Appended ==
  IF \E i \in DOMAIN records : Stops(records[i]) THEN SelectInSeq(records, Stops) - 1
  ELSE Len(records)
ConfigMessage == Built([i \in 1 .. Appended |-> Pair(records[i])])

kReceiverConfigBufferCapacity == 8192

(* configureReceiverAtStartup up to the message: an empty list is skipped. *)
(* Nothing checks that the buffer holds the message; what happens when it  *)
(* does not is undefined, and such files are left out.                     *)
build_config_msg ==
  /\ startup = "loaded"
  /\ \/ records = <<>> /\ startup' = "skipped" /\ UNCHANGED message
     \/ /\ records # <<>> /\ Len(ConfigMessage) <= kReceiverConfigBufferCapacity
        /\ IF Appended = Len(records)
           THEN startup' = "built" /\ message' = ConfigMessage
           ELSE /\ startup' = IF KeyRefused(records[Appended + 1]) THEN "refused" ELSE "thrown"
                /\ UNCHANGED message
  /\ records' = <<>>
  /\ UNCHANGED <<params, asked, damaged>>

ConfigStep ==
  ReadSettings \/ ReadLine \/ EndOfUCenterFile \/ ReadEntry \/ EndOfYamlFile \/ build_config_msg
=============================================================================
