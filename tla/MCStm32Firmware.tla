-------------------------- MODULE MCStm32Firmware ---------------------------
(***************************************************************************)
(* TLC instance of Stm32Firmware.                                          *)
(***************************************************************************)
EXTENDS Stm32Firmware

\* Commands of one session, and enough sequence numbers for a retry, a newer
\* and a stale transaction.
MCCommandFrames ==
  {t \in Transactions :
     /\ t.sequence \in 0 .. 2
     /\ t.command # "UNKNOWN"
     /\ t.motion_session_id # 0}

=============================================================================
