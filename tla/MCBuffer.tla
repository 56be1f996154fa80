------------------------------ MODULE MCBuffer ------------------------------
(* A buffer of a few bytes, room for a prefix of one included.             *)
EXTENDS Buffer
CONSTANTS byte1, byte2
MCByte == {byte1, byte2}
MCChunk == {<<byte1>>, <<byte2, byte1>>, <<byte1, byte2, byte2>>}
MCReserves == {0, 1}
=============================================================================
