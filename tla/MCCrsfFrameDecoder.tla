------------------------- MODULE MCCrsfFrameDecoder -------------------------
(***************************************************************************)
(* TLC instance of CrsfFrameDecoder and CrsfChannels.                      *)
(***************************************************************************)
EXTENDS CrsfChannels

\* A checksum that every byte and its place change.
MCCrcUpdate(sum, byte) == (sum * 2 + byte + 1) % ByteCount

=============================================================================
