--------------------------- MODULE CircuitBreaker ---------------------------
(***************************************************************************)
(* CircuitBreaker and RevertRateTracker                                    *)
(* (rust_engine/src/circuit_breaker.rs) as operators.  Timestamps are kept *)
(* as ages: of each recorded error, and of the last recorded API success.  *)
(* Every comparison the code makes is of an age with a configured length,  *)
(* so ages are cut off just past it.                                       *)
(***************************************************************************)
EXTENDS Integers, Sequences, SequencesExt

CONSTANTS
  Enabled,                \* circuit_breaker.enabled
  DrawdownNum, DrawdownDen, \* max_drawdown_pct as a fraction
  MaxErrors,              \* max_consecutive_errors
  ErrorWindow,            \* error_window_seconds
  ApiTimeout,             \* api_timeout_seconds
  RecoveryThreshold,      \* GEOBLOCK_RECOVERY_THRESHOLD
  WindowSize, MinFills,   \* of the revert tracker
  RevertNum, RevertDen    \* its threshold_pct as a fraction

ASSUME BreakerAssumption ==
  /\ Enabled \in BOOLEAN
  /\ {DrawdownNum, MaxErrors, ErrorWindow, ApiTimeout, MinFills, RevertNum} \subseteq Nat
  /\ {DrawdownDen, RecoveryThreshold, WindowSize, RevertDen} \subseteq Nat \ {0}

\* Why the breaker tripped.  check_gas_critical is given the gas and USDC
\* balances, a geoblock and a partial submission; the prefix of its message
\* tells a geoblock from the rest.
Reasons == {"Drawdown", "ErrorBurst", "ApiUnreachable", "RevertRate",
            "Gas", "Usdc", "Geoblock", "PartialFill"}
NoReason == "none"

Breaker ==
  [tripped: BOOLEAN, reason: Reasons \cup {NoReason}, peak: Nat,
   errors: Seq(0..ErrorWindow + 1), api: 0..ApiTimeout,
   streak: 0..RecoveryThreshold]

NewBreaker(value) ==
  [tripped |-> FALSE, reason |-> NoReason, peak |-> value,
   errors |-> <<>>, api |-> 0, streak |-> 0]

Smaller(x, y) == IF x < y THEN x ELSE y
Larger(x, y) == IF x > y THEN x ELSE y

\* Time passes.
AgeBy(cb, d) ==
  [cb EXCEPT !.errors = [i \in DOMAIN @ |-> Smaller(@[i] + d, ErrorWindow + 1)],
             !.api = Smaller(@ + d, ApiTimeout)]

IsTradingAllowed(cb) == ~Enabled \/ ~cb.tripped

\* An enabled breaker trips once; later reasons are lost until it is reset.
Trip(cb, reason) ==
  IF ~Enabled \/ cb.tripped THEN cb
  ELSE [cb EXCEPT !.tripped = TRUE, !.reason = reason]

\* expire_old_errors: the oldest are taken off the front while they are too old.
Expired(errors) == {i \in DOMAIN errors : \A j \in 1..i : errors[j] > ErrorWindow}
Recent(errors) == SubSeq(errors, Cardinality(Expired(errors)) + 1, Len(errors))

DrawnDown(cb, value) ==
  cb.peak > 0 /\ (cb.peak - value) * DrawdownDen >= DrawdownNum * cb.peak

Check(cb, value) ==
  LET seen == [cb EXCEPT !.peak = Larger(@, value)]
      kept == [seen EXCEPT !.errors = Recent(@)]
  IN IF ~Enabled \/ cb.tripped             THEN cb
     ELSE IF DrawnDown(seen, value)        THEN Trip(seen, "Drawdown")
     ELSE IF Len(kept.errors) >= MaxErrors THEN Trip(kept, "ErrorBurst")
     ELSE IF kept.api >= ApiTimeout        THEN Trip(kept, "ApiUnreachable")
     ELSE kept

RecordError(cb) == [cb EXCEPT !.errors = Recent(Append(@, 0))]
RecordApiSuccess(cb) == [cb EXCEPT !.errors = <<>>, !.api = 0]
SetPeak(cb, peak) == [cb EXCEPT !.peak = peak]

CheckGasCritical(cb, reason) == Trip(cb, reason)
CheckRevertCritical(cb) == Trip(cb, "RevertRate")

\* Mutant: any tripped breaker recovers.
MutProbeSuccess(cb) ==
  IF ~cb.tripped THEN cb
  ELSE IF cb.streak + 1 < RecoveryThreshold THEN [cb EXCEPT !.streak = @ + 1]
  ELSE [cb EXCEPT !.tripped = FALSE, !.reason = NoReason, !.streak = 0, !.api = 0]

\* Mutant: the prefix looked for is not the one the trip's message has.
MutProbePrefix(cb) == cb

\* Only a trip for a geoblock recovers by itself; errors are kept.
ProbeSuccess(cb) ==
  IF ~cb.tripped \/ cb.reason # "Geoblock" THEN cb
  ELSE IF cb.streak + 1 < RecoveryThreshold THEN [cb EXCEPT !.streak = @ + 1]
  ELSE [cb EXCEPT !.tripped = FALSE, !.reason = NoReason, !.streak = 0, !.api = 0]

\* Mutant: a failed probe does not end the streak.
MutProbeFailure(cb) == cb
ProbeFailure(cb) == [cb EXCEPT !.streak = 0]

-----------------------------------------------------------------------------
\* The rolling window of settled fills: TRUE stands for a revert.

\* Mutant: the oldest fill is dropped only after the window overflowed.
MutRecordFill(window, reverted) ==
  Append(IF Len(window) > WindowSize THEN Tail(window) ELSE window, reverted)

RecordFill(window, reverted) ==
  Append(IF Len(window) >= WindowSize THEN Tail(window) ELSE window, reverted)

\* The window after n more reverts.
AfterReverts(window, n) ==
  FoldLeft(LAMBDA w, r : RecordFill(w, r), window, [i \in 1..n |-> TRUE])

Reverts(window) == Len(SelectSeq(window, LAMBDA r : r))

TripSignal(window) ==
  /\ Len(window) >= MinFills
  /\ Len(window) > 0
  /\ Reverts(window) * RevertDen >= RevertNum * Len(window)
=============================================================================
