----------------------------- MODULE SafetyLoop -----------------------------
(***************************************************************************)
(* The orchestrator's event loop (rust_supervisor/src/orchestrator.rs) as  *)
(* far as it decides whether to trade: one thread that goes round          *)
(*   drain -> check -> enter | replace -> exit -> scan -> save -> poll     *)
(*         -> gas -> usdc -> probe -> sleep -> drain ...                   *)
(* and skips the trading phases while the circuit breaker is tripped.      *)
(* Everything outside it is an input: fills, the portfolio's value, what   *)
(* the venue answers, what the balances read.  The process may die at any  *)
(* point and be started again.                                             *)
(***************************************************************************)
EXTENDS CircuitBreaker

CONSTANTS
  Values,        \* total_value the portfolio may have
  Every,         \* the interval of each periodic task, in time units
  MaxBatch,      \* bound: entries attempted in one tick
  MaxFills,      \* bound: fills settled between two ticks
  MaxPinned,     \* bound: legs rejected with a pinned balance in one phase
  MaxBoots       \* bound: starts of the process

VARIABLES
  pc,         \* the phase the loop is in
  left,       \* opportunities of this batch still to be tried
  cb,         \* the CircuitBreaker
  window,     \* the RevertRateTracker
  timer,      \* time since each periodic task ran
  value,      \* engine.total_value() as it was last read
  savedPeak,  \* cb_peak_total_value on disk
  net,        \* what the CLOB answers
  seen,       \* history, see below
  boots

vars == <<pc, left, cb, window, timer, value, savedPeak, net, seen, boots>>

Tasks == {"scan", "save", "poll", "gas", "usdc"}

\* A 200, another status that is no 403, a 403, nothing at all.
Answers == {"ok", "error", "forbidden", "down"}

\* What an observer of this run of the process has seen: which path left
\* inventory of a partial submission; how many probes were answered without a
\* 403 since the last 403.
Unseen == [stranded |-> "no", answered |-> 0]

ASSUME LoopAssumption ==
  /\ Values \subseteq Nat /\ Values # {}
  /\ Every \in [Tasks -> Nat \ {0}]
  /\ {MaxBatch, MaxFills, MaxPinned} \subseteq Nat
  /\ MaxBoots \in Nat \ {0}

Due(t) == timer[t] >= Every[t]
Ran(t) == timer' = [timer EXCEPT ![t] = 0]

\* Mutant: the peak is that of the new process.
MutBoot(v, peak) == SetPeak(NewBreaker(v), v)

\* load_state: the peak survives, the trip does not.
Boot(v, peak) == RecordApiSuccess(SetPeak(NewBreaker(v), Larger(peak, v)))

Init ==
  /\ pc = "drain" /\ left = 0
  /\ value \in Values /\ savedPeak = 0
  /\ cb = Boot(value, savedPeak)
  /\ window = <<>>
  /\ timer = Every
  /\ net \in Answers
  /\ seen = Unseen /\ boots = 1

\* Fill events only go to the tracker.
Drain ==
  /\ pc = "drain" /\ pc' = "check"
  /\ \E n \in 0..MaxFills : \E reverted \in [1..n -> BOOLEAN] :
       window' = FoldLeft(LAMBDA w, r : RecordFill(w, r), window, reverted)
  /\ UNCHANGED <<left, cb, timer, value, savedPeak, net, seen, boots>>

\* The value is read here and no more in this round: the entries to come lower
\* it by their fees, and the feed's thread closes positions meanwhile.
\* With every slot taken a position may be replaced, else the batch is tried.
CheckBreaker ==
  /\ pc = "check"
  /\ value' \in Values
  /\ cb' = Check(cb, value')
  /\ IF IsTradingAllowed(cb')
     THEN \/ pc' = "enter" /\ left' \in 0..MaxBatch
          \/ pc' = "replace" /\ left' = 0
     ELSE pc' = "scan" /\ left' = 0
  /\ UNCHANGED <<window, timer, savedPeak, net, seen, boots>>

\* alert_on_api_contract_rejection: every leg refused for a pinned balance
\* counts as a revert, and the window is judged after each.
AfterPinned(b, w, n) ==
  IF \E k \in 1..n : TripSignal(AfterReverts(w, k))
  THEN CheckRevertCritical(b) ELSE b

Pinned(b, n) ==
  /\ cb' = AfterPinned(b, window, n)
  /\ window' = AfterReverts(window, n)

\* Legs are refused before or after this one; on a partial submission the
\* breaker trips first.  The batch goes on.
TryEntry ==
  /\ pc = "enter" /\ left > 0 /\ left' = left - 1
  /\ \E accepted \in {"none", "some", "all"} :
       /\ \E n \in 0..(IF accepted = "all" THEN 0 ELSE MaxPinned) :
            Pinned(IF accepted = "some" THEN CheckGasCritical(cb, "PartialFill")
                   ELSE cb, n)
       /\ accepted # "none" => net # "down"
       /\ seen' = IF accepted = "some" THEN [seen EXCEPT !.stranded = "entry"]
                  ELSE seen
  /\ UNCHANGED <<pc, timer, value, savedPeak, net, boots>>

EndBatch ==
  /\ pc = "enter" /\ left = 0 /\ pc' = "exit"
  /\ UNCHANGED <<left, cb, window, timer, value, savedPeak, net, seen, boots>>

\* The worst position is sold and the best opportunity entered: legs of the
\* sale and of the entry may be refused, and a partial entry is only logged.
Replace ==
  /\ pc = "replace" /\ pc' = "exit"
  /\ \E n \in 0..MaxPinned : Pinned(cb, n)
  /\ \/ UNCHANGED seen
     \/ /\ net # "down" /\ seen.stranded = "no"
        /\ seen' = [seen EXCEPT !.stranded = "replacement"]
  /\ UNCHANGED <<left, timer, value, savedPeak, net, boots>>

ProactiveExits ==
  /\ pc = "exit" /\ pc' = "scan"
  /\ \E n \in 0..MaxPinned : Pinned(cb, n)
  /\ UNCHANGED <<left, timer, value, savedPeak, net, seen, boots>>

-----------------------------------------------------------------------------
\* The periodic tasks run whether the breaker is tripped or not.

Skip(t) == ~Due(t) /\ UNCHANGED <<cb, timer, savedPeak, seen>>

Scan ==
  /\ pc = "scan" /\ pc' = "save"
  /\ \/ Skip("scan")
     \/ /\ Due("scan") /\ Ran("scan")
        /\ \/ net # "down" /\ cb' = RecordApiSuccess(cb)
           \/ cb' = RecordError(cb)
        /\ UNCHANGED <<savedPeak, seen>>
  /\ UNCHANGED <<left, window, value, net, boots>>

\* The copy to disk is left out while the previous one is being written.
SaveState ==
  /\ pc = "save" /\ pc' = "poll"
  /\ \/ Skip("save")
     \/ /\ Due("save") /\ Ran("save")
        /\ savedPeak' \in {savedPeak, cb.peak}
        /\ UNCHANGED <<cb, seen>>
  /\ UNCHANGED <<left, window, value, net, boots>>

\* Recorded as a success whatever the calls returned, and if none was made.
PollResolutions ==
  /\ pc = "poll" /\ pc' = "gas"
  /\ \/ Skip("poll")
     \/ /\ Due("poll") /\ Ran("poll")
        /\ cb' = RecordApiSuccess(cb)
        /\ UNCHANGED <<savedPeak, seen>>
  /\ UNCHANGED <<left, window, value, net, boots>>

\* The balance is read, or the call fails.
CheckGas ==
  /\ pc = "gas" /\ pc' = "usdc"
  /\ \/ Skip("gas")
     \/ /\ Due("gas") /\ Ran("gas")
        /\ cb' \in {cb, CheckGasCritical(cb, "Gas")}
        /\ UNCHANGED <<savedPeak, seen>>
  /\ UNCHANGED <<left, window, value, net, boots>>

CheckUsdc ==
  /\ pc = "usdc"
  /\ \/ Skip("usdc") /\ pc' = "sleep"
     \/ /\ Due("usdc") /\ Ran("usdc") /\ pc' = "probe"
        /\ cb' \in {cb, CheckGasCritical(cb, "Usdc")}
        /\ UNCHANGED <<savedPeak, seen>>
  /\ UNCHANGED <<left, window, value, net, boots>>

\* GET /time: only a 403 is a failure; no answer changes nothing.
Probe ==
  /\ pc = "probe" /\ pc' = "sleep"
  /\ \/ /\ net = "forbidden"
        /\ cb' = CheckGasCritical(ProbeFailure(cb), "Geoblock")
        /\ seen' = [seen EXCEPT !.answered = 0]
     \/ /\ net \in {"ok", "error"}
        /\ cb' = ProbeSuccess(cb)
        /\ seen' = [seen EXCEPT !.answered = Smaller(@ + 1, RecoveryThreshold)]
     \/ net = "down" /\ UNCHANGED <<cb, seen>>
  /\ UNCHANGED <<left, window, timer, value, savedPeak, net, boots>>

\* The venue may change; the loop comes round within a time unit or not.
Sleep(d) ==
  /\ pc = "sleep" /\ pc' = "drain"
  /\ net' \in Answers
  /\ cb' = AgeBy(cb, d)
  /\ timer' = [t \in Tasks |-> Smaller(timer[t] + d, Every[t])]
  /\ UNCHANGED <<left, window, value, savedPeak, seen, boots>>

\* A crash, or an operator, at any point; the books loaded have some value.
Restart ==
  /\ boots < MaxBoots /\ boots' = boots + 1
  /\ pc' = "drain" /\ left' = 0
  /\ value' \in Values
  /\ cb' = Boot(value', savedPeak)
  /\ window' = <<>>
  /\ timer' = Every
  /\ seen' = Unseen
  /\ UNCHANGED <<savedPeak, net>>

Tick == \/ Drain \/ CheckBreaker \/ TryEntry \/ EndBatch \/ Replace
        \/ ProactiveExits \/ Scan \/ SaveState \/ PollResolutions
        \/ CheckGas \/ CheckUsdc \/ Probe

Next == Tick \/ Sleep(0) \/ Sleep(1) \/ Restart

Spec == Init /\ [][Next]_vars

\* The loop never stays in a phase (every call in it has a timeout), and
\* rounds take time.
FairSpec == Spec /\ WF_vars(Tick) /\ WF_vars(Sleep(0) \/ Sleep(1))
                 /\ SF_vars(Sleep(1))

-----------------------------------------------------------------------------
\* PROPERTIES

TypeOK ==
  /\ pc \in {"drain", "check", "enter", "replace", "exit", "scan", "save",
             "poll", "gas", "usdc", "probe", "sleep"}
  /\ left \in 0..MaxBatch
  /\ cb \in Breaker /\ (cb.tripped <=> cb.reason # NoReason)
  /\ window \in Seq(BOOLEAN) /\ Len(window) <= WindowSize
  /\ \A t \in Tasks : timer[t] \in 0..Every[t]
  /\ value \in Values /\ savedPeak \in Values \cup {0}
  /\ net \in Answers /\ boots \in 1..MaxBoots

Entering == pc = "enter" /\ left' < left /\ boots' = boots

\* An entry that stranded inventory keeps the breaker tripped until the
\* process is started again, whatever else trips or recovers meanwhile.
StrandedEntryHalts == seen.stranded = "entry" => cb.tripped

\* Entries are tried only in a round whose check read a value that is no
\* drawdown below the highest peak ever saved, in this run of the process or in
\* one before a restart.  What the value becomes between that check and an
\* entry is not looked at again.
EntryCheckedAgainstPeak ==
  [][Entering => ~DrawnDown([cb EXCEPT !.peak = savedPeak], value)]_vars

\* The breaker opens again by itself only after RecoveryThreshold answers
\* without a 403 since the last 403, over all the ticks between.  This is less
\* than the comments on the code ask for, RecoveryThreshold consecutive 200s
\* and any failure starts over (circuit_breaker.rs:228,256,264-266): an error
\* status counts as an answer and a probe without an answer ends no streak.
Recovered == cb.tripped /\ ~cb'.tripped /\ boots' = boots
RecoveryNeedsAnswers ==
  [][Recovered => seen'.answered >= RecoveryThreshold]_vars

\* A geoblock that goes away does not keep the bot out: if from some time on
\* the CLOB answers, and with no 403, the breaker does not stay tripped for one.
GeoblockRecovers ==
  <>[](net \in {"ok", "error"}) =>
    []<>~(cb.tripped /\ cb.reason = "Geoblock")
=============================================================================
