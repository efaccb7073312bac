----------------------------- MODULE MotionStop -----------------------------
(***************************************************************************)
(* Confirmation that the wheels have come to rest                          *)
(* (firmware/stm32/App/Src/motion_stop.c): the encoders must be still for  *)
(* StopSettle, and must become so before StopTimeout.                      *)
(*                                                                         *)
(* encoder_moved says whether the encoder counts differ from the           *)
(* previous_counts of the last reading; rest is the time since the wheels  *)
(* really moved last, which the code cannot see, counted up to StopSettle. *)
(* Movement here is movement the counts show at the next reading: a wheel  *)
(* that rocks back to the same count in between has not moved.             *)
(***************************************************************************)
EXTENDS Ticks

CONSTANTS
  StopSettle,   \* MOTION_STOP_SETTLE_TIME_MS
  StopTimeout   \* MOTION_STOP_TIMEOUT_MS

ASSUME StopAssumption ==
  /\ StopSettle \in Nat \ {0}
  /\ StopTimeout \in Nat
  /\ StopSettle < StopTimeout
  /\ StopTimeout + MaxStall < ClockMod

VARIABLES
  motion_stop,    \* None, or the confirmation in progress
  encoder_moved,
  rest

stopVars == <<motion_stop, encoder_moved, rest>>

\* elapsed = now_ms - started_at_ms, still = now_ms - last_movement_at_ms.
MotionStops == [operation_id : Nat, elapsed : Ages, still : Ages]

MakeStop(id, elapsed, still) ==
  [operation_id |-> id, elapsed |-> elapsed, still |-> still]

ASSUME NoneIsNoStop == None \notin MotionStops

StopTypeOK ==
  /\ motion_stop \in MotionStops \cup {None}
  /\ encoder_moved \in BOOLEAN
  /\ rest \in 0 .. StopSettle

stop_init ==
  /\ motion_stop = None
  /\ encoder_moved = FALSE
  /\ rest = 0

motion_stop_begin(id) ==
  /\ id # 0
  /\ motion_stop' = MakeStop(id, 0, 0)
  /\ encoder_moved' = FALSE
  /\ UNCHANGED rest

\* Faulty variant: movement is not looked at.
StillAnyway == motion_stop.still

\* The encoders are read; a movement since the last reading counts as now.
StillNow == IF encoder_moved THEN 0 ELSE motion_stop.still

\* Faulty variant: without the deadline.
motion_stop_result_unbounded ==
  IF StillNow >= StopSettle THEN "SUCCESS" ELSE "PENDING"

\* The deadline is looked at before the settle time.
motion_stop_result ==
  CASE motion_stop.elapsed >= StopTimeout -> "FAILED"
    [] motion_stop.elapsed < StopTimeout /\ StillNow >= StopSettle -> "SUCCESS"
    [] OTHER -> "PENDING"

motion_stop_update ==
  /\ motion_stop # None
  /\ motion_stop' = IF motion_stop_result = "PENDING"
                      THEN MakeStop(motion_stop.operation_id, motion_stop.elapsed, StillNow)
                      ELSE None
  /\ encoder_moved' = FALSE
  /\ UNCHANGED rest

motion_stop_cancel == motion_stop' = None /\ UNCHANGED <<encoder_moved, rest>>

\* d milliseconds pass, either without movement or with the last movement
\* ago milliseconds before the end.
Rested(d) == IF rest + d < StopSettle THEN rest + d ELSE StopSettle

StopAged(d) ==
  motion_stop' = IF motion_stop = None
                   THEN None
                   ELSE MakeStop(motion_stop.operation_id,
                                 Later(motion_stop.elapsed, d), Later(motion_stop.still, d))

stop_later(d) ==
  /\ StopAged(d)
  /\ \/ rest' = Rested(d) /\ UNCHANGED encoder_moved
     \/ \E ago \in 0 .. d : rest' = (IF ago < StopSettle THEN ago ELSE StopSettle)
                            /\ encoder_moved' = TRUE

=============================================================================
