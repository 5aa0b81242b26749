------------------------------ MODULE MCPacket ------------------------------
(* Bounds for TLC.  All sums of the untouched header words are tried, so
   every checksum occurs, with numbers at both ends of their range.            *)
EXTENDS Packet

AllRests  == Words
EdgeNumbers == {0, B * B - 1}
MCPayloads  == {<<>>, <<7>>}
MCTokens    == {<<3, 9, 0>>, <<H - 1, H - 1, H - 1, 5>>}
MCPads      == {<<>>, <<0, 0>>}
=============================================================================
