-------------------------- MODULE MC_ReceiverDialogue --------------------------
(* Two lines of every shape, every setting once, keys of one, two and four *)
(* bytes, and one message and two bytes of noise around the answer.        *)
EXTENDS ReceiverDialogue, TLC

MCKeyWidth == (\h20910007 :> 1) @@ (\h20910008 :> 1) @@ (\h209102A5 :> 1) @@ (\h20110021 :> 1)
              @@ (\h30210001 :> 2) @@ (\h1031001F :> 1) @@ (\h40520001 :> 4)

(* one driver file that is accepted with each kind of file, and variants   *)
Plain(f) == [enable_serial |-> "yes", serial_port |-> TRUE,
             loopback |-> "no", tcp_port |-> TRUE, ntrip |-> "no", caster |-> TRUE,
             raw |-> <<"GPS", "BDS">>, ephemeris |-> <<"BDS">>, bring |-> "yes", file |-> f]
MCSettings ==
  LET p == Plain("u-center") IN
  {p, Plain("yaml"), Plain("missing"), [p EXCEPT !.bring = "no"], [p EXCEPT !.bring = Absent],
   [p EXCEPT !.loopback = "yes"], [p EXCEPT !.ntrip = "yes"], [p EXCEPT !.loopback = Absent],
   [p EXCEPT !.loopback = "yes", !.ntrip = "yes"],
   [p EXCEPT !.loopback = "yes", !.tcp_port = FALSE],
   [p EXCEPT !.raw = <<"GPS", "GLO">>], [p EXCEPT !.raw = <<>>], [p EXCEPT !.raw = Absent],
   [p EXCEPT !.enable_serial = Absent], [p EXCEPT !.ntrip = Junk]}

Text(n, rest) == [number |-> n, rest |-> rest]

Pairs == {<<\h30210001, <<100, 0>>>>, <<\h40520001, <<0, 16, 14, 0>>>>}
Dump(id, len, body) == <<6, id>> \o LittleEndian(len, 2) \o <<0, 0, 0, 0>> \o body
Tokens(bytes) == [i \in 1 .. Len(bytes) |-> Text(bytes[i], "")]

Line(name, tokens, asks, bad) ==
  [name |-> name, tokens |-> tokens, asks |-> asks, damaged |-> bad]
GoodTokens(pairs, id) == Tokens(Dump(id, 4 + Len(Encoded(pairs)), Encoded(pairs)))
Good(pairs, id) == Line("CFG-VALGET", GoodTokens(pairs, id), pairs, FALSE)
Bad(bytes) == Line("CFG-VALSET", Tokens(bytes), <<>>, TRUE)

(* the token at place i has something behind its number, or no number *)
Loose(pairs, i) ==
  Line("CFG-VALSET", [GoodTokens(pairs, \h8A) EXCEPT ![i].rest = "G"], pairs, FALSE)
NoNumber(pairs, i) ==
  Line("CFG-VALSET", [GoodTokens(pairs, \h8A) EXCEPT ![i] = Text(Junk, "G6")], <<>>, TRUE)

MCLines ==
  {Good(<<p>>, \h8B) : p \in Pairs}
  \cup {Good(<<<<\h30210001, <<44, 1>>>>, <<\h1031001F, <<0>>>>>>, \h8A)}
  \cup {Good(<<>>, \h8B), Line("MON-VER", Tokens(<<10, 4, 0, 0>>), <<>>, FALSE)}
  \cup {Line("MON-VER", <<Text(Junk, "none")>>, <<>>, FALSE)}
  \cup {Loose(<<p>>, i) : p \in Pairs, i \in {1, 13}}
  \cup {NoNumber(<<p>>, i) : p \in Pairs, i \in {1, 13}}
  \cup UNION {LET e == Encoded(<<p>>) IN
        {Bad(Dump(\h8C, 4 + Len(e), e)), Bad(Dump(\h8B, 3 + Len(e), e)),
         Bad(Dump(\h8B, 3 + Len(e), SubSeq(e, 1, Len(e) - 1))),
         Bad(Dump(\h8B, 5 + Len(e), e \o <<7>>)), Bad(Dump(\h8B, 4 + Len(e), [e EXCEPT ![5] = 256])),
         Bad(<<6, \h8B, 0, 0>>)} : p \in Pairs}

Entry(name, port, text, asks, bad) ==
  [name |-> name, port |-> port, text |-> text, asks |-> asks, damaged |-> bad]
MCEntries ==
  {Entry("CFG-RATE-MEAS", Absent, Text(300, ""), <<<<\h30210001, <<44, 1>>>>>>, FALSE),
   Entry("CFG-RATE-MEAS", Absent, Text(100, "ms"), <<<<\h30210001, <<100, 0>>>>>>, FALSE),
   Entry("CFG-RATE-MEAS", Absent, Text(0, "x64"), <<<<\h30210001, <<0, 0>>>>>>, FALSE),
   Entry("CFG-RATE-MEAS", Absent, Text(Junk, "fast"), <<>>, TRUE),
   Entry("CFG-NAVSPG-DYNMODEL", Absent, Text(4, ""), <<<<\h20110021, <<4>>>>>>, FALSE),
   Entry("CFG-NAVSPG-DYNMODEL", Absent, Text(300, ""), <<Anything>>, FALSE),
   Entry("CFG-UART1-BAUDRATE", Absent, Text(921600, ""), <<<<\h40520001, <<0, 16, 14, 0>>>>>>, FALSE),
   Entry("CFG-UART1-BAUDRATE", Absent, Text(-1, ""), <<Anything>>, FALSE),
   Entry("CFG-MSGOUT-UBX_NAV_PVT", Absent, Text(1, ""), <<<<\h20910007, <<1>>>>>>, FALSE),
   Entry("CFG-MSGOUT-UBX_NAV_PVT", "UART1", Text(1, ""), <<<<\h20910007, <<1>>>>>>, FALSE),
   Entry("CFG-MSGOUT-UBX_NAV_PVT", "UART2", Text(1, ""), <<<<\h20910008, <<1>>>>>>, FALSE),
   Entry("CFG-MSGOUT-UBX_NAV_PVT", "I2C", Text(1, ""), <<Anything>>, FALSE),
   Entry("CFG-MSGOUT-UBX_RXM_RAWX", "UART2", Text(1, ""), <<Anything>>, TRUE),
   Entry("", Absent, Text(1, ""), <<>>, TRUE)}

MCTraffic == {Frame(\h01, \h07, <<>>)}
=============================================================================
