------------------------------ MODULE MCSerial ------------------------------
(* Two ports whose lines carry a letter, a delimiter and the test byte;     *)
(* messages as long as a UART's queue; characters of the kernel's        *)
(* messages that tell what they are about and their position.              *)
EXTENDS Serial

MCDetected(p) == << <<"detected", p, 1>>, <<"detected", p, 2>> >>
MCInitialised == << <<"initialised">> >>
MCReport(kind) == << <<kind, 1>>, <<kind, 2>> >>
MCMessage == { << <<"c">> , <<"d">> >> }
MCTest == <<"0xc4">>
MCFloating == <<"0xff">>
MCNul == <<"0x00">>
MCDelimiter == {<<"\n">>}
MCByte == {<<"a">>, <<"\n">>, MCTest}
==============================================================================
