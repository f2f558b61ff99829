------------------------------ MODULE MCServices -----------------------------
(* Clients' messages: their options in every order, and malformed ones. *)
EXTENDS Services

Option(code, data) == [code |-> code, data |-> data]

Asks(a)  == Option(REQUESTED_IP, a)
Type(t)  == Option(MSG_TYPE, <<t>>)
Host     == Option(12, <<53, 50>>)
Ends     == Option(END, <<>>)

Ours(k)  == <<192, 168, 4, DHCPS_BASE_IP + k>>

\* As RFC 2132 has it.
Encoded(option) ==
  IF option.code \in {PAD, END} THEN <<option.code>>
  ELSE <<option.code, Len(option.data)>> \o option.data

\* The bytes of the first k options.
Encoding(list) ==
  LET first[k \in 0 .. Len(list)] == IF k = 0 THEN <<>> ELSE first[k - 1] \o Encoded(list[k])
  IN  first

Message(list) ==
  LET first == Encoding(list)
      all   == first[Len(list)]
  IN  [len    |-> Len(all),
       bytes  |-> [i \in 0 .. Len(all) - 1 |-> all[i + 1]],
       starts |-> {Len(first[k - 1]) : k \in DOMAIN list}]

\* opt_find does not know PAD, and reads on where END is missing.
Malformed == {<<Option(PAD, <<>>), Type(1), Ends>>, <<Host, Type(3)>>, <<Asks(Ours(0))>>}

Lists ==
  Malformed \cup
  { <<Type(1), Host, Ends>>, <<Host, Type(1), Ends>>,
    <<Type(3), Asks(Ours(1)), Ends>>, <<Asks(Ours(0)), Type(3), Ends>>,
    <<Host, Asks(Ours(1)), Type(3), Ends>>,
    <<Type(3), Asks(Ours(2)), Ends>>, <<Type(3), Asks(Ours(-1)), Ends>>,
    <<Type(3), Asks(<<192, 168, 5, DHCPS_BASE_IP>>), Ends>>,
    <<Type(3), Ends>>, <<Type(7), Ends>>, <<Host, Ends>> }

\* WellFormed describes what RFC 2132's encoding gives.
ASSUME EncodingIsWellFormed ==
  \A list \in Lists :
    LET m == Message(list) IN WellFormed(m.bytes, m.len, m.starts) <=> list \notin Malformed

MCMessages == {Message(list) : list \in Lists}

\* Zeros, or what an earlier message left.
MCStacks == {Zeroes} \cup {Over(message, Zeroes) : message \in MCMessages}
=============================================================================
