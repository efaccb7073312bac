-------------------------- MODULE UartLinkManager ---------------------------
(***************************************************************************)
(* The STM32 end of the link with the Raspberry Pi                         *)
(* (firmware/stm32/App/Src/uart_link_manager.c).  Losing the link, for     *)
(* whatever reason, stops the motors first.                                *)
(***************************************************************************)
EXTENDS MotionCommandGuard

CONSTANT HeartbeatTimeout  \* LINK_HEARTBEAT_TIMEOUT_MS

ASSUME HeartbeatAssumption ==
  /\ HeartbeatTimeout \in Nat \ {0}
  /\ HeartbeatTimeout + MaxStall < ClockMod

VARIABLE link  \* age of the last heartbeat while synchronized, else None

LinkTypeOK == link \in Ages \cup {None}

synchronized == link # None

stop_and_clear(stopped) == link' = None /\ guard_stop(stopped)

\* LINK_SYNC with a good (valid) or bad payload length; sent says whether the
\* LINK_SYNC_OK reply went out.
handle_link_sync(valid, stopped, sent) ==
  /\ guard_stop(stopped)
  /\ link' = IF stopped /\ valid /\ sent THEN 0 ELSE None

\* Faulty variant: a heartbeat keeps the motion watchdog alive.
handle_heartbeat_feeding_watchdog(peer, stopped, sent) ==
  \/ /\ peer \in {"INVALID", "UNSYNCHRONIZED"}
     /\ stop_and_clear(stopped)
  \/ /\ peer = "SYNCHRONIZED"
     /\ ~synchronized
     /\ UNCHANGED <<guard, link>>
  \/ /\ peer = "SYNCHRONIZED"
     /\ synchronized
     /\ link' = 0
     /\ watchdog' = IF watchdog = None THEN None ELSE 0
     /\ UNCHANGED <<driven, stop_pending>>

\* peer is the link state the heartbeat carries, "INVALID" for a malformed
\* heartbeat or an unknown state.
handle_heartbeat(peer, stopped, sent) ==
  \/ /\ peer \in {"INVALID", "UNSYNCHRONIZED"}
     /\ stop_and_clear(stopped)
  \/ /\ peer = "SYNCHRONIZED"
     /\ ~synchronized
     /\ UNCHANGED <<guard, link>>
  \/ /\ peer = "SYNCHRONIZED"
     /\ synchronized
     /\ sent
     /\ link' = 0
     /\ UNCHANGED guard
  \/ /\ peer = "SYNCHRONIZED"
     /\ synchronized
     /\ ~sent
     /\ stop_and_clear(stopped)

HeartbeatOverdue == synchronized /\ link >= HeartbeatTimeout

=============================================================================
