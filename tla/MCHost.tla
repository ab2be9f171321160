------------------------------- MODULE MCHost -------------------------------
(* The host side for TLC: what is sent over the serial line, and its checksum. *)
EXTENDS Host, HidChecksum

(* A message of every type, then heartbeats for as many bytes as the parser   *)
(* can swallow; and the longest text both checksums agree on.                 *)
Text(n) == [i \in 1 .. n |-> (32 + (i % 90))]
Msg(type, payload) == [type |-> type, payload |-> payload]
SomeScripts ==
  << [risked |-> 6,
      messages |-> <<Msg(1, <<2, 0, 4, 5, 0, 0, 0, 0>>), Msg(3, <<>>), Msg(16, Text(3)),
                     Msg(2, <<1, 255, 127, 0, 64, 3, 0>>), Msg(4, <<>>), Msg(5, <<5, 250>>)>>
                   \o [i \in 1 .. 75 |-> Msg(3, <<>>)]],
     [risked |-> 0, messages |-> <<Msg(16, Text(253)), Msg(3, <<>>)>>] >>
SomeJsons == {Text(3), Text(253)}
=============================================================================
