----------------------------- MODULE MCSasPort ------------------------------
(***************************************************************************)
(* SasPort with a buffer of 8 bytes and messages of up to 9 (256 and 259   *)
(* in the code), so that one message (0x72 with length 5) is cut.          *)
(***************************************************************************)
EXTENDS SasPort

MCGeneralPoll == <<129>>
\* 0x81; 0x85 (progressive levels); 0x53 with game and CRC; 0x72 with a byte
\* of data and CRC.
MCComposed == {<<129>>, <<133>>, <<83, 1, 9, 9, 9>>, <<114, 1, 7, 9, 9>>}
\* 0x70 with a parameter the table does not know; 0x74 with lock code,
\* condition, timeout and CRC: 7 bytes where the table has 8; a 0x72 longer
\* than the buffer, that leaves a zero behind.
MCUnknown == {<<112, 0>>, <<116, 1, 1, 0, 5, 9, 9>>, <<114, 5, 0, 0, 0, 0, 0, 9, 0>>}
=============================================================================
