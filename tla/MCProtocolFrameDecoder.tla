----------------------- MODULE MCProtocolFrameDecoder -----------------------
(***************************************************************************)
(* TLC instance of ProtocolFrameDecoder.                                   *)
(***************************************************************************)
EXTENDS ProtocolFrameDecoder

\* A checksum that every byte and its place change.
MCCrcUpdate(sum, byte) == (sum * 2 + byte + 1) % (ByteCount * ByteCount)

=============================================================================
