---------------------------- MODULE TransmitLimits ----------------------------
(***************************************************************************)
(* The limits compiled into the transmit path, shared by the scheduler,    *)
(* the keying worker and the station.                                      *)
(*                                                                         *)
(* A time is a number of ticks instead of nanoseconds.  MaxU64 stands for  *)
(* std::numeric_limits<std::uint64_t>::max().                              *)
(***************************************************************************)
EXTENDS Integers

CONSTANTS
  MaxU64,            \* largest value of the clock's integer type
  MaxKeyDown,        \* kMaximumContinuousKeyDownNs
  MaxLeadOrHang,     \* kMaximumLeadOrHangNs
  MaxMessageLimit,   \* kMaximumAllowedMessageDurationNs
  MaxLatenessLimit,  \* kMaximumAllowedLatenessNs
  MaxTune,           \* kMaximumPermittedTuneDurationNs
  HealthPoll         \* kAdapterHealthPollMs

ASSUME LimitsAssumption ==
  /\ MaxU64 \in Nat
  /\ MaxKeyDown \in Nat
  /\ MaxLeadOrHang \in Nat
  /\ MaxMessageLimit \in Nat
  /\ MaxLatenessLimit \in Nat
  /\ MaxTune \in Nat
  /\ HealthPoll \in Nat
=============================================================================
