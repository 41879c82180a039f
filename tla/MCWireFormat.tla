---------------------------- MODULE MCWireFormat ----------------------------
(* Messages for model checking WireFormat. *)
EXTENDS WireFormat

MCOctets == {0, 3, 255}

MCIPv4Addresses == {<<a, b, c, d>> : a \in {1, 10}, b \in MCOctets, c \in {0}, d \in {1, 4, 255}}

\* "", "a", "a.b", "www.a", "::1", and a name long enough for any header; then
\* names of every length of UTF-8 sequences, and others that only begin some.
MCDomainNames ==
    {<<>>, <<97>>, <<97, 46, 98>>, <<119, 119, 119, 46, 97>>, <<58, 58, 49>>,
     [i \in 1..12 |-> 97],
     <<195, 169, 226, 130, 172>>, <<240, 159, 146, 169, 97>>,
     <<97, 233, 98>>, <<226, 130, 97, 240, 159>>, <<237, 160, 128>>, <<192, 175, 255>>}

\* ::1, ::, fe80::1, 2001:db8::, and one without zeros.
MCIPv6Addresses ==
    {<<<<>>, <<1>>>>, <<<<>>, <<>>>>, <<<<65152>>, <<1>>>>, <<<<8193, 3512>>, <<>>>>,
     <<<<8193, 4660, 65535, 4096>>, <<43981, 57005, 48879, 4369>>>>}

MCPorts == {0, 80, 255, 256, 65535}

\* The code 233 as UTF-8 writes it, and as one byte, which is no UTF-8.
MCUsers == {<<>>, <<97>>, <<97, 98>>, <<195, 169>>, <<233>>}

\* Some with a colon, some the beginnings of others, also in the middle of a
\* UTF-8 sequence.
MCPasswords ==
    {<<>>, <<99>>, <<99, 100>>, <<99, 58, 100>>, <<99, 100, 0>>,
     <<226, 130, 172>>, <<226, 130>>, <<226, 130, 58, 172>>}

\* The second entry of a user replaces the first; one password is empty, and
\* one is what a cut sequence is decoded to.
MCCredentials ==
    <<[username |-> <<97>>, password |-> <<100>>],
      [username |-> <<97, 98>>, password |-> <<>>],
      [username |-> <<97>>, password |-> <<99, 100>>],
      [username |-> <<233>>, password |-> <<65533>>],
      [username |-> <<65533>>, password |-> <<8364>>]>>
=============================================================================
