------------------------ MODULE Orchestrator_proofs ------------------------
(***************************************************************************)
(* Theorems about the parts of the orchestrator: SafetyLoop, for any       *)
(* thresholds, windows, intervals and values, and LiveExits, for any legs  *)
(* and sizes and any number of sales.                                      *)
(***************************************************************************)
EXTENDS SafetyLoop, LiveExits, FoldTheorems

-----------------------------------------------------------------------------
(* The breaker.                                                            *)

\* The recorded errors, and the time since the last API success, play no part.
Good(b) ==
  /\ DOMAIN b = {"tripped", "reason", "peak", "errors", "api", "streak"}
  /\ b.tripped \in BOOLEAN
  /\ b.reason \in Reasons \cup {NoReason}
  /\ b.tripped <=> b.reason # NoReason
  /\ b.peak \in Nat
  /\ b.streak \in Nat /\ b.streak < RecoveryThreshold

\* What a step that is no probe does to it: it stays tripped for its reason.
Stays(b, r) ==
  /\ Good(r)
  /\ b.tripped => r.tripped /\ r.reason = b.reason
  /\ r.streak = b.streak
  /\ r.peak >= b.peak

\* What is not tripped has no reason.
LEMMA UntrippedGood ==
  ASSUME NEW b,
         DOMAIN b = {"tripped", "reason", "peak", "errors", "api", "streak"},
         b.tripped = FALSE, b.reason = NoReason,
         b.peak \in Nat, b.streak \in Nat, b.streak < RecoveryThreshold
  PROVE  Good(b)
<1>1. b.tripped \in BOOLEAN
  OBVIOUS
<1>2. ~b.tripped
  OBVIOUS
<1>3. b.tripped <=> b.reason # NoReason
  BY <1>2
<1> QED BY <1>1, <1>3 DEF Good

LEMMA TripGood ==
  ASSUME Enabled, NEW b, Good(b), NEW reason \in Reasons
  PROVE  /\ Stays(b, Trip(b, reason)) /\ Trip(b, reason).peak = b.peak
         /\ Trip(b, reason).tripped
         /\ ~b.tripped => Trip(b, reason).reason = reason
<1>1. CASE b.tripped
  <2>1. Trip(b, reason) = b
    BY <1>1 DEF Trip
  <2>2. b.peak >= b.peak
    BY DEF Good
  <2>3. Stays(b, b)
    BY <2>2 DEF Stays
  <2> QED BY <1>1, <2>1, <2>3
<1>2. CASE ~b.tripped
  <2> DEFINE r == [b EXCEPT !.tripped = TRUE, !.reason = reason]
  <2>1. Trip(b, reason) = r
    BY <1>2 DEF Trip
  <2>2. /\ DOMAIN r = DOMAIN b /\ r.tripped = TRUE /\ r.reason = reason
        /\ r.peak = b.peak /\ r.streak = b.streak
    BY DEF Good
  <2>3. reason # NoReason
    BY DEF Reasons, NoReason
  <2> QED BY <1>2, <2>1, <2>2, <2>3 DEF Good, Stays
<1> QED BY <1>1, <1>2

LEMMA SameStays ==
  ASSUME NEW b, Good(b), NEW r, DOMAIN r = DOMAIN b,
         r.tripped = b.tripped, r.reason = b.reason, r.streak = b.streak,
         r.peak \in Nat, r.peak >= b.peak
  PROVE  Stays(b, r)
BY DEF Good, Stays

\* check: the peak is the highest value seen, and what is not tripped
\* afterwards is not drawn down.
LEMMA CheckGood ==
  ASSUME Enabled, NEW b, Good(b), NEW v \in Nat
  PROVE  /\ Stays(b, Check(b, v))
         /\ b.tripped \/ Check(b, v).reason # "Geoblock"
         /\ Check(b, v).tripped \/ ~DrawnDown(Check(b, v), v)
<1> DEFINE seen1 == [b EXCEPT !.peak = Larger(@, v)]
           kept1 == [seen1 EXCEPT !.errors = Recent(@)]
<1>1. CASE b.tripped
  <2>1. Check(b, v) = b
    BY <1>1 DEF Check
  <2>2. b.peak \in Nat /\ b.peak >= b.peak
    BY DEF Good
  <2>3. Stays(b, b)
    BY <2>2, SameStays
  <2> QED BY <1>1, <2>1, <2>3
<1>2. CASE ~b.tripped
  <2>1. /\ DOMAIN seen1 = DOMAIN b /\ seen1.tripped = b.tripped /\ seen1.reason = b.reason
        /\ seen1.streak = b.streak /\ seen1.peak = Larger(b.peak, v)
        /\ seen1.errors = b.errors /\ seen1.api = b.api
    BY DEF Good
  <2>2. /\ DOMAIN kept1 = DOMAIN b /\ kept1.tripped = b.tripped /\ kept1.reason = b.reason
        /\ kept1.streak = b.streak /\ kept1.peak = Larger(b.peak, v)
    BY <2>1 DEF Good
  <2>3. Larger(b.peak, v) \in Nat /\ Larger(b.peak, v) >= b.peak
    BY DEF Larger, Good
  <2>4. \/ DrawnDown(seen1, v) /\ Check(b, v) = Trip(seen1, "Drawdown")
        \/ Check(b, v) = Trip(kept1, "ErrorBurst")
        \/ Check(b, v) = Trip(kept1, "ApiUnreachable")
        \/ ~DrawnDown(seen1, v) /\ Check(b, v) = kept1
    BY <1>2, Zenon DEF Check
  <2>5. DrawnDown(kept1, v) <=> DrawnDown(seen1, v)
    BY <2>1, <2>2 DEF DrawnDown
  <2> HIDE DEF seen1, kept1
  <2>6. Stays(b, seen1) /\ Stays(b, kept1)
    BY <2>1, <2>2, <2>3, SameStays
  <2>7. Good(seen1) /\ Good(kept1)
    BY <2>6 DEF Stays
  <2>8. ASSUME NEW m \in {seen1, kept1}, NEW reason \in Reasons \ {"Geoblock"},
               Check(b, v) = Trip(m, reason)
        PROVE  /\ Stays(b, Check(b, v)) /\ Check(b, v).tripped
               /\ Check(b, v).reason # "Geoblock"
    <3>1. /\ Stays(m, Trip(m, reason)) /\ Trip(m, reason).tripped
          /\ Trip(m, reason).reason = reason /\ m.streak = b.streak
          /\ m.peak = Larger(b.peak, v) /\ Trip(m, reason).peak = m.peak
      BY <1>2, <2>1, <2>2, <2>7, TripGood
    <3> QED BY <1>2, <2>3, <2>8, <3>1 DEF Stays
  <2>9. {"Drawdown", "ErrorBurst", "ApiUnreachable"} \subseteq Reasons \ {"Geoblock"}
    BY DEF Reasons
  <2>10. CASE ~DrawnDown(seen1, v) /\ Check(b, v) = kept1
    <3>1. kept1.reason = NoReason
      BY <1>2, <2>2 DEF Good
    <3> QED BY <2>5, <2>6, <2>10, <3>1 DEF NoReason
  <2> QED BY <2>4, <2>8, <2>9, <2>10
<1> QED BY <1>1, <1>2

LEMMA AfterPinnedGood ==
  ASSUME Enabled, NEW b, Good(b), NEW w, NEW n
  PROVE  /\ Stays(b, AfterPinned(b, w, n)) /\ AfterPinned(b, w, n).peak = b.peak
         /\ b.tripped \/ AfterPinned(b, w, n).reason # "Geoblock"
<1>1. b.peak \in Nat /\ b.peak >= b.peak
  BY DEF Good
<1>2. Stays(b, b)
  BY <1>1, SameStays
<1>3. ~b.tripped => b.reason # "Geoblock"
  BY DEF Good, NoReason
<1>4. "RevertRate" \in Reasons
  BY DEF Reasons
<1>5. CASE AfterPinned(b, w, n) = b
  BY <1>2, <1>3, <1>5
<1>6. CASE AfterPinned(b, w, n) = Trip(b, "RevertRate")
  BY <1>4, <1>6, TripGood
<1> QED BY <1>5, <1>6 DEF AfterPinned, CheckRevertCritical

\* Errors, successes and time.
LEMMA RecordsGood ==
  ASSUME NEW b, Good(b)
  PROVE  /\ Stays(b, RecordError(b)) /\ Stays(b, RecordApiSuccess(b))
         /\ \A d : Stays(b, AgeBy(b, d))
         /\ RecordApiSuccess(b).reason = b.reason
<1>0. b.peak \in Nat /\ b.peak >= b.peak
  BY DEF Good
<1>1. Stays(b, RecordError(b))
  <2> DEFINE r == RecordError(b)
  <2>1. /\ DOMAIN r = DOMAIN b /\ r.tripped = b.tripped /\ r.reason = b.reason
        /\ r.streak = b.streak /\ r.peak = b.peak
    BY DEF Good, RecordError
  <2> HIDE DEF r
  <2> QED BY <1>0, <2>1, SameStays DEF r
<1>2. Stays(b, RecordApiSuccess(b))
  <2> DEFINE r == RecordApiSuccess(b)
  <2>1. /\ DOMAIN r = DOMAIN b /\ r.tripped = b.tripped /\ r.reason = b.reason
        /\ r.streak = b.streak /\ r.peak = b.peak
    BY DEF Good, RecordApiSuccess
  <2> HIDE DEF r
  <2> QED BY <1>0, <2>1, SameStays DEF r
<1>3. RecordApiSuccess(b).reason = b.reason
  BY DEF Good, RecordApiSuccess
<1>4. ASSUME NEW d PROVE Stays(b, AgeBy(b, d))
  <2> DEFINE r == AgeBy(b, d)
  <2>1. /\ DOMAIN r = DOMAIN b /\ r.tripped = b.tripped /\ r.reason = b.reason
        /\ r.streak = b.streak /\ r.peak = b.peak
    BY DEF Good, AgeBy
  <2> HIDE DEF r
  <2> QED BY <1>0, <2>1, SameStays DEF r
<1> QED BY <1>1, <1>2, <1>3, <1>4

LEMMA BootGood ==
  ASSUME NEW v \in Nat, NEW peak \in Nat
  PROVE  /\ Good(Boot(v, peak)) /\ ~Boot(v, peak).tripped
         /\ Boot(v, peak).streak = 0 /\ Boot(v, peak).peak >= peak
<1> DEFINE n == NewBreaker(v)
           b == SetPeak(n, Larger(peak, v))
<1>1. /\ DOMAIN n = {"tripped", "reason", "peak", "errors", "api", "streak"}
      /\ n.tripped = FALSE /\ n.reason = NoReason /\ n.streak = 0
  BY DEF NewBreaker
<1> HIDE DEF n
<1>2. /\ DOMAIN b = DOMAIN n
      /\ b.tripped = FALSE /\ b.reason = NoReason /\ b.streak = 0 /\ b.peak = Larger(peak, v)
  BY <1>1 DEF SetPeak
<1>3. Larger(peak, v) \in Nat /\ Larger(peak, v) >= peak
  BY DEF Larger
<1>4. RecoveryThreshold \in Nat \ {0}
  BY BreakerAssumption
<1> HIDE DEF b
<1>5. Good(b)
  <2>1. 0 \in Nat /\ 0 < RecoveryThreshold
    BY <1>4
  <2> QED BY <1>1, <1>2, <1>3, <2>1, UntrippedGood
<1>6. Stays(b, RecordApiSuccess(b))
  BY <1>5, RecordsGood
<1>7. ~RecordApiSuccess(b).tripped
  <2>1. RecordApiSuccess(b).reason = NoReason
    BY <1>2, <1>5, RecordsGood
  <2>2. Good(RecordApiSuccess(b))
    BY <1>6 DEF Stays
  <2> QED BY <2>1, <2>2 DEF Good
<1>8. Boot(v, peak) = RecordApiSuccess(b)
  BY DEF Boot, b, n
<1>9. RecordApiSuccess(b).peak \in Nat
  BY <1>6 DEF Stays, Good
<1> QED BY <1>2, <1>3, <1>6, <1>7, <1>8, <1>9 DEF Stays

\* Only the last probe of a streak opens the breaker, and only from a geoblock.
LEMMA ProbeSuccessGood ==
  ASSUME NEW b, Good(b)
  PROVE  /\ Good(ProbeSuccess(b)) /\ ProbeSuccess(b).peak = b.peak
         /\ b.reason # "Geoblock" => ProbeSuccess(b) = b
         /\ ProbeSuccess(b).streak <= b.streak + 1
         /\ \/ b.tripped => ProbeSuccess(b).tripped
            \/ b.streak + 1 >= RecoveryThreshold
<1>0. RecoveryThreshold \in Nat \ {0}
  BY BreakerAssumption
<1>1. CASE ~b.tripped \/ b.reason # "Geoblock"
  <2>1. ProbeSuccess(b) = b
    BY <1>1 DEF ProbeSuccess
  <2>2. b.streak \in Nat
    BY DEF Good
  <2>3. b.streak <= b.streak + 1
    BY <2>2
  <2> QED BY <2>1, <2>3
<1>2. CASE ~(~b.tripped \/ b.reason # "Geoblock") /\ b.streak + 1 < RecoveryThreshold
  <2> DEFINE r == [b EXCEPT !.streak = @ + 1]
  <2>1. ProbeSuccess(b) = r
    BY <1>2 DEF ProbeSuccess
  <2>2. /\ DOMAIN r = DOMAIN b /\ r.tripped = b.tripped /\ r.reason = b.reason
        /\ r.peak = b.peak /\ r.streak = b.streak + 1
    BY DEF Good
  <2> HIDE DEF r
  <2>3. b.streak + 1 \in Nat
    BY DEF Good
  <2>4. Good(r)
    BY <1>2, <2>2, <2>3 DEF Good
  <2> QED BY <1>2, <2>1, <2>2, <2>3, <2>4
<1>3. CASE ~(~b.tripped \/ b.reason # "Geoblock") /\ ~(b.streak + 1 < RecoveryThreshold)
  <2> DEFINE r == [b EXCEPT !.tripped = FALSE, !.reason = NoReason, !.streak = 0, !.api = 0]
  <2>1. ProbeSuccess(b) = r
    BY <1>3 DEF ProbeSuccess
  <2>2. /\ DOMAIN r = DOMAIN b /\ r.tripped = FALSE /\ r.reason = NoReason
        /\ r.peak = b.peak /\ r.streak = 0
    BY DEF Good
  <2> HIDE DEF r
  <2>3. b.streak \in Nat /\ 0 \in Nat /\ 0 < RecoveryThreshold /\ b.peak \in Nat
    BY <1>0 DEF Good
  <2>4. Good(r)
    BY <2>2, <2>3, UntrippedGood DEF Good
  <2> QED BY <1>0, <1>3, <2>1, <2>2, <2>3, <2>4
<1> QED BY <1>1, <1>2, <1>3

\* A 403 ends the streak and trips the breaker.
LEMMA ForbiddenGood ==
  ASSUME Enabled, NEW b, Good(b)
  PROVE  LET r == CheckGasCritical(ProbeFailure(b), "Geoblock")
         IN /\ Good(r) /\ r.tripped /\ r.streak = 0 /\ r.peak = b.peak
            /\ b.tripped => r.reason = b.reason
<1> DEFINE f == ProbeFailure(b)
<1>1. /\ DOMAIN f = DOMAIN b /\ f.tripped = b.tripped /\ f.reason = b.reason
      /\ f.peak = b.peak /\ f.streak = 0
  BY DEF Good, ProbeFailure
<1> HIDE DEF f
<1>2. RecoveryThreshold \in Nat \ {0} /\ "Geoblock" \in Reasons
  BY BreakerAssumption DEF Reasons
<1>3. Good(f)
  BY <1>1, <1>2 DEF Good
<1>4. /\ Stays(f, Trip(f, "Geoblock")) /\ Trip(f, "Geoblock").peak = f.peak
      /\ Trip(f, "Geoblock").tripped
  BY <1>2, <1>3, TripGood
<1> QED BY <1>1, <1>4 DEF CheckGasCritical, Stays, f

-----------------------------------------------------------------------------
(* The loop.  Besides the breaker's own state the invariant says that what *)
(* was saved is no higher than the peak in memory, that the streak is no   *)
(* longer than what was answered, that while entries are tried no geoblock *)
(* is what tripped the breaker (so a stranded entry's trip is one that     *)
(* does not recover), and that the value last read is then no drawdown.    *)

Observed ==
  /\ DOMAIN seen = {"stranded", "answered"}
  /\ seen.answered \in Nat
  /\ cb.streak <= seen.answered
  /\ seen.stranded = "entry" => cb.tripped /\ cb.reason # "Geoblock"

EntryAllowed ==
  pc = "enter" => cb.reason # "Geoblock" /\ ~DrawnDown(cb, value)

IInv ==
  /\ Good(cb)
  /\ value \in Nat /\ boots \in Nat
  /\ savedPeak \in Nat /\ savedPeak <= cb.peak
  /\ Observed
  /\ EntryAllowed

\* A step after which the breaker still is tripped if it was.
LEMMA StayStep ==
  ASSUME IInv, Stays(cb, cb'), value' \in Nat, boots' = boots,
         savedPeak' \in {savedPeak, cb.peak},
         DOMAIN seen' = DOMAIN seen, seen'.answered = seen.answered,
         seen'.stranded = "entry" =>
           seen.stranded = "entry" \/ (cb'.tripped /\ cb'.reason # "Geoblock"),
         EntryAllowed'
  PROVE  IInv' /\ ~Recovered
<1>1. Good(cb) /\ Good(cb')
  BY DEF IInv, Stays
<1>2. cb.peak \in Nat /\ cb'.peak \in Nat /\ cb'.peak >= cb.peak /\ cb'.streak = cb.streak
  BY <1>1 DEF Good, Stays
<1>3. savedPeak' \in Nat /\ savedPeak' <= cb'.peak
  BY <1>2 DEF IInv
<1>4. Observed'
  BY <1>2 DEF IInv, Observed, Stays
<1>5. ~Recovered
  BY DEF Recovered, Stays
<1> QED BY <1>1, <1>3, <1>4, <1>5 DEF IInv

LEMMA InitIInv ==
  ASSUME Init PROVE IInv
<1>1. value \in Nat /\ savedPeak \in Nat /\ savedPeak = 0
  BY LoopAssumption DEF Init
<1>2. /\ Good(cb) /\ cb.streak = 0 /\ cb.peak >= savedPeak
  BY <1>1, BootGood DEF Init
<1>3. cb.peak \in Nat
  BY <1>2 DEF Good
<1> QED BY <1>1, <1>2, <1>3 DEF Init, IInv, Observed, Unseen, EntryAllowed

LEMMA SameBreaker ==
  ASSUME IInv, cb' = cb PROVE Stays(cb, cb')
<1>1. Good(cb)
  BY DEF IInv
<1>2. cb.peak \in Nat /\ cb.peak >= cb.peak
  BY <1>1 DEF Good
<1> QED BY <1>1, <1>2, SameStays

LEMMA DrainStep ==
  ASSUME IInv, Drain PROVE IInv' /\ ~Recovered
<1>1. value' \in Nat
  BY DEF Drain, IInv
<1>2. cb' = cb /\ seen' = seen /\ savedPeak' = savedPeak /\ boots' = boots /\ pc' = "check"
  BY DEF Drain
<1> QED BY <1>1, <1>2, SameBreaker, StayStep DEF EntryAllowed

LEMMA CheckStep ==
  ASSUME Enabled, IInv, CheckBreaker PROVE IInv' /\ ~Recovered
<1>1. Good(cb) /\ value' \in Nat
  BY LoopAssumption DEF IInv, CheckBreaker
<1>2. /\ cb' = Check(cb, value') /\ seen' = seen
      /\ savedPeak' = savedPeak /\ boots' = boots
      /\ pc' = "enter" => IsTradingAllowed(cb')
  BY DEF CheckBreaker
<1>3. /\ Stays(cb, cb')
      /\ cb'.tripped \/ ~DrawnDown(cb', value')
  BY <1>1, <1>2, CheckGood
<1>4. ~cb'.tripped => cb'.reason # "Geoblock"
  BY <1>3 DEF Stays, Good, NoReason
<1>5. EntryAllowed'
  BY <1>2, <1>3, <1>4 DEF EntryAllowed, IsTradingAllowed
<1> QED BY <1>1, <1>2, <1>3, <1>5, StayStep

LEMMA TryEntryStep ==
  ASSUME Enabled, IInv, TryEntry PROVE IInv' /\ ~Recovered
<1>1. Good(cb) /\ cb.reason # "Geoblock" /\ ~DrawnDown(cb, value)
  BY DEF IInv, EntryAllowed, TryEntry
<1>2. PICK accepted \in {"none", "some", "all"}, n \in Int :
        /\ cb' = AfterPinned(IF accepted = "some" THEN CheckGasCritical(cb, "PartialFill")
                             ELSE cb, window, n)
        /\ seen' = IF accepted = "some" THEN [seen EXCEPT !.stranded = "entry"] ELSE seen
  BY DEF TryEntry, Pinned
<1>3. /\ value' = value /\ savedPeak' = savedPeak /\ boots' = boots
  BY DEF TryEntry
<1> DEFINE b == IF accepted = "some" THEN CheckGasCritical(cb, "PartialFill") ELSE cb
<1>4. /\ Stays(cb, b) /\ b.peak = cb.peak /\ b.reason # "Geoblock"
      /\ accepted = "some" => b.tripped
  <2>1. "PartialFill" \in Reasons /\ "PartialFill" # "Geoblock"
    BY DEF Reasons
  <2>2. CASE accepted = "some"
    BY <1>1, <2>1, <2>2, TripGood DEF CheckGasCritical, Stays
  <2>3. CASE accepted # "some"
    BY <1>1, <2>3, SameStays DEF Good
  <2> QED BY <2>2, <2>3
<1> HIDE DEF b
<1>5. cb' = AfterPinned(b, window, n) /\ Good(b)
  BY <1>2, <1>4 DEF b, Stays
<1>6. /\ Stays(b, cb') /\ cb'.peak = b.peak
      /\ b.tripped \/ cb'.reason # "Geoblock"
  BY <1>5, AfterPinnedGood
<1>7. cb'.reason # "Geoblock"
  BY <1>4, <1>6 DEF Stays
<1>8. Stays(cb, cb') /\ cb'.peak = cb.peak
  BY <1>1, <1>4, <1>6 DEF Stays, Good
<1>9. EntryAllowed'
  BY <1>1, <1>3, <1>7, <1>8 DEF EntryAllowed, DrawnDown
<1>10. /\ DOMAIN seen' = DOMAIN seen /\ seen'.answered = seen.answered
       /\ seen'.stranded = "entry" => seen.stranded = "entry" \/ accepted = "some"
  BY <1>2 DEF IInv, Observed
<1>11. accepted = "some" => cb'.tripped
  BY <1>4, <1>6 DEF Stays
<1>12. value' \in Nat
  BY <1>3 DEF IInv
<1> QED BY <1>3, <1>7, <1>8, <1>9, <1>10, <1>11, <1>12, StayStep

LEMMA EndBatchStep ==
  ASSUME IInv, EndBatch PROVE IInv' /\ ~Recovered
<1>1. Good(cb) /\ value \in Nat
  BY DEF IInv
<1>2. Stays(cb, cb')
  BY SameBreaker DEF EndBatch
<1>3. /\ value' = value /\ boots' = boots /\ pc' # "enter"
      /\ savedPeak' \in {savedPeak, cb.peak}
      /\ seen' = seen
  BY DEF EndBatch
<1> QED BY <1>1, <1>2, <1>3, StayStep DEF EntryAllowed

LEMMA ProactiveExitsStep ==
  ASSUME Enabled, IInv, ProactiveExits PROVE IInv' /\ ~Recovered
<1>1. Good(cb) /\ value \in Nat
  BY DEF IInv
<1>2. Stays(cb, cb')
  BY <1>1, AfterPinnedGood DEF ProactiveExits, Pinned
<1>3. /\ value' = value /\ boots' = boots /\ pc' # "enter"
      /\ savedPeak' \in {savedPeak, cb.peak}
      /\ seen' = seen
  BY DEF ProactiveExits
<1> QED BY <1>1, <1>2, <1>3, StayStep DEF EntryAllowed

LEMMA ScanStep ==
  ASSUME IInv, Scan PROVE IInv' /\ ~Recovered
<1>1. Good(cb) /\ value \in Nat
  BY DEF IInv
<1>2. Stays(cb, cb')
  BY <1>1, RecordsGood, SameBreaker DEF Scan, Skip
<1>3. /\ value' = value /\ boots' = boots /\ pc' # "enter"
      /\ savedPeak' \in {savedPeak, cb.peak}
      /\ seen' = seen
  BY DEF Scan, Skip
<1> QED BY <1>1, <1>2, <1>3, StayStep DEF EntryAllowed

LEMMA SaveStateStep ==
  ASSUME IInv, SaveState PROVE IInv' /\ ~Recovered
<1>1. Good(cb) /\ value \in Nat
  BY DEF IInv
<1>2. Stays(cb, cb')
  BY SameBreaker DEF SaveState, Skip
<1>3. /\ value' = value /\ boots' = boots /\ pc' # "enter"
      /\ savedPeak' \in {savedPeak, cb.peak}
      /\ seen' = seen
  BY DEF SaveState, Skip
<1> QED BY <1>1, <1>2, <1>3, StayStep DEF EntryAllowed

LEMMA PollResolutionsStep ==
  ASSUME IInv, PollResolutions PROVE IInv' /\ ~Recovered
<1>1. Good(cb) /\ value \in Nat
  BY DEF IInv
<1>2. Stays(cb, cb')
  BY <1>1, RecordsGood, SameBreaker DEF PollResolutions, Skip
<1>3. /\ value' = value /\ boots' = boots /\ pc' # "enter"
      /\ savedPeak' \in {savedPeak, cb.peak}
      /\ seen' = seen
  BY DEF PollResolutions, Skip
<1> QED BY <1>1, <1>2, <1>3, StayStep DEF EntryAllowed

LEMMA CheckGasStep ==
  ASSUME Enabled, IInv, CheckGas PROVE IInv' /\ ~Recovered
<1>1. Good(cb) /\ value \in Nat
  BY DEF IInv
<1>2. Stays(cb, cb')
  BY <1>1, TripGood, SameBreaker DEF CheckGas, Skip, CheckGasCritical, Reasons
<1>3. /\ value' = value /\ boots' = boots /\ pc' # "enter"
      /\ savedPeak' \in {savedPeak, cb.peak}
      /\ seen' = seen
  BY DEF CheckGas, Skip
<1> QED BY <1>1, <1>2, <1>3, StayStep DEF EntryAllowed

LEMMA CheckUsdcStep ==
  ASSUME Enabled, IInv, CheckUsdc PROVE IInv' /\ ~Recovered
<1>1. Good(cb) /\ value \in Nat
  BY DEF IInv
<1>2. Stays(cb, cb')
  BY <1>1, TripGood, SameBreaker DEF CheckUsdc, Skip, CheckGasCritical, Reasons
<1>3. /\ value' = value /\ boots' = boots /\ pc' # "enter"
      /\ savedPeak' \in {savedPeak, cb.peak}
      /\ seen' = seen
  BY DEF CheckUsdc, Skip
<1> QED BY <1>1, <1>2, <1>3, StayStep DEF EntryAllowed

LEMMA SleepStep ==
  ASSUME IInv, NEW d, Sleep(d) PROVE IInv' /\ ~Recovered
<1>1. Good(cb) /\ value \in Nat
  BY DEF IInv
<1>2. Stays(cb, cb')
  BY <1>1, RecordsGood DEF Sleep
<1>3. /\ value' = value /\ boots' = boots /\ pc' # "enter"
      /\ savedPeak' = savedPeak /\ seen' = seen
  BY DEF Sleep
<1> QED BY <1>1, <1>2, <1>3, StayStep DEF EntryAllowed

LEMMA ReplaceStep ==
  ASSUME Enabled, IInv, Replace PROVE IInv' /\ ~Recovered
<1>1. Good(cb) /\ value \in Nat /\ DOMAIN seen = {"stranded", "answered"}
  BY DEF IInv, Observed
<1>2. Stays(cb, cb')
  BY <1>1, AfterPinnedGood DEF Replace, Pinned
<1>3. /\ value' = value /\ boots' = boots /\ pc' # "enter"
      /\ savedPeak' = savedPeak
      /\ seen' = seen \/ seen' = [seen EXCEPT !.stranded = "replacement"]
  BY DEF Replace
<1>4. /\ DOMAIN seen' = DOMAIN seen /\ seen'.answered = seen.answered
      /\ seen'.stranded = "entry" => seen.stranded = "entry"
  BY <1>1, <1>3
<1> QED BY <1>1, <1>2, <1>3, <1>4, StayStep DEF EntryAllowed

\* The one step that may open the breaker: the streak reached the threshold,
\* and as many answers were seen.
LEMMA ProbeStep ==
  ASSUME Enabled, IInv, Probe
  PROVE  IInv' /\ (Recovered => seen'.answered >= RecoveryThreshold)
<1>1. Good(cb) /\ Observed /\ cb.peak \in Nat /\ cb.streak \in Nat
  BY DEF IInv, Good
<1>2. /\ value' = value /\ boots' = boots /\ pc' # "enter" /\ savedPeak' = savedPeak
  BY DEF Probe
<1>3. RecoveryThreshold \in Nat \ {0}
  BY BreakerAssumption
<1>4. CASE cb' = cb /\ seen' = seen
  <2>1. Stays(cb, cb')
    BY <1>4, SameBreaker
  <2> QED BY <1>2, <1>4, <2>1, StayStep DEF IInv, EntryAllowed
<1>5. CASE /\ cb' = CheckGasCritical(ProbeFailure(cb), "Geoblock")
           /\ seen' = [seen EXCEPT !.answered = 0]
  <2>1. /\ Good(cb') /\ cb'.tripped /\ cb'.streak = 0 /\ cb'.peak = cb.peak
        /\ cb.tripped => cb'.reason = cb.reason
    BY <1>1, <1>5, ForbiddenGood
  <2>2. /\ DOMAIN seen' = DOMAIN seen /\ seen'.answered = 0
        /\ seen'.stranded = seen.stranded
    BY <1>1, <1>5 DEF Observed
  <2>3. Observed'
    BY <1>1, <2>1, <2>2 DEF Observed
  <2> QED BY <1>2, <2>1, <2>3 DEF IInv, EntryAllowed, Recovered
<1>6. CASE /\ cb' = ProbeSuccess(cb)
           /\ seen' = [seen EXCEPT !.answered = Smaller(@ + 1, RecoveryThreshold)]
  <2>1. /\ Good(cb') /\ cb'.peak = cb.peak
        /\ cb.reason # "Geoblock" => cb' = cb
        /\ cb'.streak <= cb.streak + 1
        /\ \/ cb.tripped => cb'.tripped
           \/ cb.streak + 1 >= RecoveryThreshold
    BY <1>1, <1>6, ProbeSuccessGood
  <2>2. /\ DOMAIN seen' = DOMAIN seen
        /\ seen'.answered = Smaller(seen.answered + 1, RecoveryThreshold)
        /\ seen'.stranded = seen.stranded
    BY <1>1, <1>6 DEF Observed
  <2>3. cb.streak <= seen.answered /\ seen.answered \in Nat
    BY <1>1 DEF Observed
  <2>4. /\ seen'.answered \in Nat
        /\ seen'.answered = seen.answered + 1 \/ seen'.answered = RecoveryThreshold
        /\ seen'.answered >= cb.streak + 1 \/ seen'.answered = RecoveryThreshold
    BY <1>1, <1>3, <2>2, <2>3 DEF Smaller
  <2>5. cb'.streak <= seen'.answered
    BY <1>1, <1>3, <2>1, <2>4 DEF Good
  <2>6. Observed'
    BY <1>1, <2>1, <2>2, <2>4, <2>5 DEF Observed
  <2>7. Recovered => seen'.answered >= RecoveryThreshold
    BY <1>1, <1>3, <2>1, <2>4 DEF Recovered
  <2> QED BY <1>2, <2>1, <2>6, <2>7 DEF IInv, EntryAllowed
<1> QED BY <1>4, <1>5, <1>6 DEF Probe

LEMMA RestartStep ==
  ASSUME IInv, Restart PROVE IInv' /\ ~Recovered /\ boots' # boots
<1>1. value' \in Nat /\ savedPeak \in Nat /\ boots \in Nat
  BY LoopAssumption DEF IInv, Restart
<1>2. /\ Good(cb') /\ cb'.streak = 0 /\ cb'.peak >= savedPeak
  BY <1>1, BootGood DEF Restart
<1>3. cb'.peak \in Nat
  BY <1>2 DEF Good
<1> QED BY <1>1, <1>2, <1>3
        DEF Restart, IInv, Observed, Unseen, EntryAllowed, Recovered

\* Every step keeps the invariant, and opens the breaker only by a streak.
LEMMA NextStep ==
  ASSUME Enabled, IInv, [Next]_vars
  PROVE  IInv' /\ (Recovered => seen'.answered >= RecoveryThreshold)
<1>1. CASE Tick
  BY <1>1, DrainStep, CheckStep, TryEntryStep, EndBatchStep, ReplaceStep,
     ProactiveExitsStep, ScanStep, SaveStateStep, PollResolutionsStep,
     CheckGasStep, CheckUsdcStep, ProbeStep DEF Tick
<1>2. CASE Sleep(0) \/ Sleep(1)
  BY <1>2, SleepStep
<1>3. CASE Restart
  BY <1>3, RestartStep
<1>4. CASE UNCHANGED vars
  BY <1>4 DEF vars, IInv, Observed, EntryAllowed, Recovered
<1> QED BY <1>1, <1>2, <1>3, <1>4 DEF Next

\* A value that is no drawdown below one peak is none below a lower one.
LEMMA LowerPeak ==
  ASSUME NEW p \in Nat, NEW s \in Nat, s <= p, NEW v \in Nat, s > 0,
         (s - v) * DrawdownDen >= DrawdownNum * s
  PROVE  (p - v) * DrawdownDen >= DrawdownNum * p
<1> DEFINE m == DrawdownNum
           n == DrawdownDen
<1>1. m \in Nat /\ n \in Nat /\ n > 0
  BY BreakerAssumption
<1> HIDE DEF m, n
<1>2. (s - v) * n >= m * s
  BY DEF m, n
<1>3. s * n - v * n >= m * s
  BY <1>1, <1>2
<1>4. v * n >= 0
  BY <1>1
<1>5. s * (n - m) >= v * n
  BY <1>1, <1>3
<1>6. n - m >= 0
  BY <1>1, <1>4, <1>5
<1>7. p * (n - m) >= s * (n - m)
  BY <1>1, <1>6
<1>8. p * (n - m) >= v * n
  BY <1>1, <1>5, <1>7
<1>9. (p - v) * n >= m * p
  BY <1>1, <1>8
<1> QED BY <1>9 DEF m, n

\* An entry is tried: the value the round's check read is no drawdown below any
\* peak ever saved.
LEMMA EnteringStep ==
  ASSUME IInv, [Next]_vars, Entering
  PROVE  ~DrawnDown([cb EXCEPT !.peak = savedPeak], value)
<1> DEFINE s == [cb EXCEPT !.peak = savedPeak]
<1>1. Good(cb) /\ ~DrawnDown(cb, value)
  BY DEF Entering, IInv, EntryAllowed
<1>2. /\ cb.peak \in Nat /\ savedPeak \in Nat /\ savedPeak <= cb.peak
      /\ value \in Nat
  BY <1>1 DEF IInv, Good
<1>3. s.peak = savedPeak
  BY <1>1 DEF Good
<1> HIDE DEF s
<1>4. ASSUME savedPeak > 0, (savedPeak - value) * DrawdownDen >= DrawdownNum * savedPeak
      PROVE  FALSE
  <2>1. (cb.peak - value) * DrawdownDen >= DrawdownNum * cb.peak
    BY <1>2, <1>4, LowerPeak
  <2>2. cb.peak > 0
    BY <1>2, <1>4
  <2> QED BY <1>1, <2>1, <2>2 DEF DrawnDown
<1>5. ~DrawnDown(s, value)
  BY <1>3, <1>4 DEF DrawnDown
<1> QED BY <1>5 DEF s

-----------------------------------------------------------------------------
(* Types, and a disabled breaker.                                          *)

\* The windows the tracker keeps.
Windows == {w \in Seq(BOOLEAN) : Len(w) <= WindowSize}

LEMMA RecordFillType ==
  ASSUME NEW w \in Windows, NEW r \in BOOLEAN
  PROVE  RecordFill(w, r) \in Windows
<1>1. WindowSize \in Nat \ {0} /\ w \in Seq(BOOLEAN) /\ Len(w) \in Nat /\ Len(w) <= WindowSize
  BY BreakerAssumption DEF Windows
<1>2. CASE Len(w) >= WindowSize
  <2>1. w # <<>>
    BY <1>1, <1>2
  <2>2. Tail(w) \in Seq(BOOLEAN) /\ Len(Tail(w)) = Len(w) - 1
    BY <1>1, <2>1
  <2>3. Append(Tail(w), r) \in Seq(BOOLEAN) /\ Len(Append(Tail(w), r)) = Len(w)
    BY <1>1, <2>2
  <2> QED BY <1>1, <1>2, <2>3 DEF RecordFill, Windows
<1>3. CASE ~(Len(w) >= WindowSize)
  <2>1. Append(w, r) \in Seq(BOOLEAN) /\ Len(Append(w, r)) = Len(w) + 1
    BY <1>1
  <2> QED BY <1>1, <1>3, <2>1 DEF RecordFill, Windows
<1> QED BY <1>2, <1>3

LEMMA WindowType ==
  ASSUME NEW w \in Windows, NEW n \in Nat, NEW reverted \in [1..n -> BOOLEAN]
  PROVE  FoldLeft(LAMBDA x, r : RecordFill(x, r), w, reverted) \in Windows
<1> DEFINE S == 1..n
           c == [s \in SUBSET S |-> Max(s)]
           step == [x \in Windows \X S |-> RecordFill(x[1], reverted[x[2]])]
           E(K) == [s \in SUBSET S |-> IF s = {} THEN w
                      ELSE RecordFill(K[s \ {Max(s)}], reverted[Max(s)])]
           C == CHOOSE K : K = E(K)
<1>1. IsFiniteSet(S) /\ DOMAIN reverted = S
  BY FS_Interval
<1>2. Picks(c, S)
  BY MaxIn DEF Picks
<1>3. step \in [Windows \X S -> Windows]
  BY RecordFillType
<1>4. \A x \in Windows, i \in S : step[<<x, i>>] = RecordFill(x, reverted[i])
  OBVIOUS
<1>5. FoldLeft(LAMBDA x, r : RecordFill(x, r), w, reverted) = C[S]
  BY <1>1, Zenon DEF FoldLeft, MapThenFoldSet
<1> HIDE DEF step
<1>6. PICK G \in [SUBSET S -> Windows] : Folding(G, S, c, w, step)
  <2> HIDE DEF c, S
  <2> QED BY <1>1, <1>2, <1>3, FoldExists
<1>7. ASSUME NEW s \in SUBSET S
      PROVE  G[s] = IF s = {} THEN w ELSE RecordFill(G[s \ {Max(s)}], reverted[Max(s)])
  <2>1. CASE s = {}
    BY <1>6, <2>1 DEF Folding
  <2>2. CASE s # {}
    <3>1. Max(s) \in S /\ c[s] = Max(s) /\ s \ {Max(s)} \in SUBSET S
      BY <2>2, MaxIn
    <3>2. G[s \ {Max(s)}] \in Windows
      BY <3>1
    <3> HIDE DEF c, S
    <3> QED BY <2>2, <1>6, <3>1, <3>2, <1>4 DEF Folding
  <2> QED BY <2>1, <2>2
<1>8. G = E(G)
  <2> HIDE DEF S, c
  <2> QED BY <1>7
<1>9. C = E(C)
  BY <1>8
<1> HIDE DEF C
<1>10. ASSUME NEW s \in SUBSET S, s = {} \/ C[s \ {c[s]}] = G[s \ {c[s]}]
       PROVE  C[s] = G[s]
  <2>1. c[s] = Max(s)
    OBVIOUS
  <2>2. C[s] = IF s = {} THEN w ELSE RecordFill(C[s \ {Max(s)}], reverted[Max(s)])
    <3> HIDE DEF c, S
    <3> QED BY <1>9
  <2> HIDE DEF c, S
  <2> QED BY <1>7, <1>10, <2>1, <2>2
<1>11. C[S] = G[S]
  <2> HIDE DEF c, S
  <2>1. Alike(C, G, S, c)
    BY <1>10 DEF Alike
  <2> QED BY <1>1, <1>2, <2>1, FoldAgree
<1> QED BY <1>5, <1>6, <1>11


\* What is left of the errors is of the same set.
LEMMA RecentType ==
  ASSUME NEW S, NEW e \in Seq(S)
  PROVE  Recent(e) \in Seq(S)
<1>1. Len(e) \in Nat /\ DOMAIN e = 1..Len(e) /\ IsFiniteSet(1..Len(e))
  BY FS_Interval
<1>2. Expired(e) \in SUBSET (1..Len(e))
  BY <1>1 DEF Expired
<1>3. Cardinality(Expired(e)) \in Nat
  BY <1>1, <1>2, FS_Subset, FS_CardinalityType
<1>4. \A i \in (Cardinality(Expired(e)) + 1)..Len(e) : e[i] \in S
  BY <1>1, <1>3
<1> QED BY <1>1, <1>3, <1>4 DEF Recent

\* A breaker of the loop: its type, a reason exactly when tripped, and a peak
\* that the portfolio once had.
Typed(b) == /\ b \in Breaker /\ (b.tripped <=> b.reason # NoReason)
            /\ b.peak \in Values

LEMMA TripTyped ==
  ASSUME NEW b, Typed(b), NEW reason \in Reasons
  PROVE  Typed(Trip(b, reason))
<1>1. CASE ~Enabled \/ b.tripped
  BY <1>1 DEF Trip
<1>2. CASE ~(~Enabled \/ b.tripped)
  <2> DEFINE r == [b EXCEPT !.tripped = TRUE, !.reason = reason]
  <2>1. Trip(b, reason) = r
    BY <1>2 DEF Trip
  <2>2. r \in Breaker /\ r.tripped = TRUE /\ r.reason = reason /\ r.peak = b.peak
    BY DEF Typed, Breaker
  <2>3. reason # NoReason
    BY DEF Reasons, NoReason
  <2>4. r.tripped <=> r.reason # NoReason
    BY <2>2, <2>3
  <2> HIDE DEF r
  <2> QED BY <2>1, <2>2, <2>4 DEF Typed
<1> QED BY <1>1, <1>2

\* Neither the trip nor its reason changes.
LEMMA SameTrip ==
  ASSUME NEW b, Typed(b), NEW r \in Breaker, r.tripped = b.tripped,
         r.reason = b.reason, r.peak \in Values
  PROVE  Typed(r)
BY Zenon DEF Typed

LEMMA CheckTyped ==
  ASSUME NEW b, Typed(b), NEW v \in Values
  PROVE  Typed(Check(b, v))
<1> DEFINE seen1 == [b EXCEPT !.peak = Larger(@, v)]
           kept1 == [seen1 EXCEPT !.errors = Recent(@)]
<1>0. Larger(b.peak, v) \in Values /\ Values \subseteq Nat
  BY LoopAssumption DEF Larger, Typed
<1>1. /\ seen1 \in Breaker /\ seen1.tripped = b.tripped /\ seen1.reason = b.reason
      /\ seen1.peak = Larger(b.peak, v) /\ seen1.errors \in Seq(0..ErrorWindow + 1)
  BY <1>0 DEF Typed, Breaker
<1>2. Typed(seen1)
  <2> HIDE DEF seen1
  <2> QED BY <1>0, <1>1, SameTrip
<1>3. Recent(seen1.errors) \in Seq(0..ErrorWindow + 1)
  BY <1>1, RecentType
<1>4. /\ kept1 \in Breaker /\ kept1.tripped = seen1.tripped /\ kept1.reason = seen1.reason
      /\ kept1.peak = seen1.peak
  <2> HIDE DEF seen1
  <2> QED BY <1>1, <1>3 DEF Breaker
<1>5. Typed(kept1)
  <2>1. kept1.peak \in Values
    BY <1>0, <1>1, <1>4
  <2> HIDE DEF kept1, seen1
  <2> QED BY <1>2, <1>4, <2>1, SameTrip
<1>6. \/ Check(b, v) = b
      \/ Check(b, v) = Trip(seen1, "Drawdown")
      \/ Check(b, v) = Trip(kept1, "ErrorBurst")
      \/ Check(b, v) = Trip(kept1, "ApiUnreachable")
      \/ Check(b, v) = kept1
  BY Zenon DEF Check
<1>7. {"Drawdown", "ErrorBurst", "ApiUnreachable"} \subseteq Reasons
  BY DEF Reasons
<1> HIDE DEF seen1, kept1
<1> QED BY <1>2, <1>5, <1>6, <1>7, TripTyped

LEMMA RecordsTyped ==
  ASSUME NEW b, Typed(b)
  PROVE  Typed(RecordError(b)) /\ Typed(RecordApiSuccess(b)) /\ Typed(ProbeFailure(b))
<1>0. Values \subseteq Nat /\ ErrorWindow \in Nat /\ ApiTimeout \in Nat /\ RecoveryThreshold \in Nat
  BY LoopAssumption, BreakerAssumption
<1>1. Recent(Append(b.errors, 0)) \in Seq(0..ErrorWindow + 1)
  <2>1. Append(b.errors, 0) \in Seq(0..ErrorWindow + 1)
    BY <1>0 DEF Typed, Breaker
  <2> QED BY <2>1, RecentType
<1>2. /\ RecordError(b) \in Breaker /\ RecordError(b).tripped = b.tripped
      /\ RecordError(b).reason = b.reason /\ RecordError(b).peak = b.peak
  BY <1>1 DEF RecordError, Typed, Breaker
<1>3. /\ RecordApiSuccess(b) \in Breaker /\ RecordApiSuccess(b).tripped = b.tripped
      /\ RecordApiSuccess(b).reason = b.reason /\ RecordApiSuccess(b).peak = b.peak
  <2>1. <<>> \in Seq(0..ErrorWindow + 1) /\ 0 \in 0..ApiTimeout
    BY <1>0
  <2> QED BY <2>1 DEF RecordApiSuccess, Typed, Breaker
<1>4. /\ ProbeFailure(b) \in Breaker /\ ProbeFailure(b).tripped = b.tripped
      /\ ProbeFailure(b).reason = b.reason /\ ProbeFailure(b).peak = b.peak
  <2>1. 0 \in 0..RecoveryThreshold
    BY <1>0
  <2>2. ProbeFailure(b) \in Breaker
    BY <2>1 DEF ProbeFailure, Typed, Breaker
  <2> QED BY <2>2 DEF ProbeFailure, Typed, Breaker
<1>5. b.peak \in Values
  BY DEF Typed
<1> QED BY <1>2, <1>3, <1>4, <1>5, SameTrip

LEMMA BootTyped ==
  ASSUME NEW v \in Values, NEW p \in Values \cup {0}
  PROVE  Typed(Boot(v, p))
<1>0. Values \subseteq Nat /\ ErrorWindow \in Nat /\ ApiTimeout \in Nat /\ RecoveryThreshold \in Nat
  BY LoopAssumption, BreakerAssumption
<1>1. Larger(p, v) \in Values
  BY <1>0 DEF Larger
<1>2. NewBreaker(v) \in Breaker /\ NewBreaker(v).tripped = FALSE /\ NewBreaker(v).reason = NoReason
  BY <1>0 DEF NewBreaker, Breaker
<1> DEFINE n == SetPeak(NewBreaker(v), Larger(p, v))
<1>3. n \in Breaker /\ n.tripped = FALSE /\ n.reason = NoReason /\ n.peak = Larger(p, v)
  BY <1>0, <1>1, <1>2 DEF SetPeak, Breaker
<1> HIDE DEF n
<1>4. ~n.tripped
  BY <1>3
<1>5. Typed(n)
  BY <1>1, <1>3, <1>4 DEF Typed
<1> QED BY <1>5, RecordsTyped DEF Boot, n

LEMMA AgeTyped ==
  ASSUME NEW b, Typed(b), NEW d \in Nat
  PROVE  Typed(AgeBy(b, d))
<1>0. Values \subseteq Nat /\ ErrorWindow \in Nat /\ ApiTimeout \in Nat /\ RecoveryThreshold \in Nat
  BY LoopAssumption, BreakerAssumption
<1> DEFINE errors == [i \in DOMAIN b.errors |-> Smaller(b.errors[i] + d, ErrorWindow + 1)]
<1>1. errors \in Seq(0..ErrorWindow + 1)
  <2>1. b.errors \in Seq(0..ErrorWindow + 1)
    BY DEF Typed, Breaker
  <2>2. DOMAIN b.errors = 1..Len(b.errors) /\ Len(b.errors) \in Nat
    BY <2>1
  <2>3. \A i \in 1..Len(b.errors) : Smaller(b.errors[i] + d, ErrorWindow + 1) \in 0..ErrorWindow + 1
    BY <1>0, <2>1, <2>2 DEF Smaller
  <2> QED BY <2>2, <2>3
<1>2. Smaller(b.api + d, ApiTimeout) \in 0..ApiTimeout
  BY <1>0 DEF Smaller, Typed, Breaker
<1> DEFINE r == [b EXCEPT !.errors = errors, !.api = Smaller(b.api + d, ApiTimeout)]
<1>3. AgeBy(b, d) = r
  BY DEF AgeBy, Typed, Breaker
<1> HIDE DEF errors
<1>4. r \in Breaker /\ r.tripped = b.tripped /\ r.reason = b.reason /\ r.peak = b.peak
  BY <1>1, <1>2 DEF Typed, Breaker
<1>5. b.peak \in Values
  BY DEF Typed
<1> HIDE DEF r
<1> QED BY <1>3, <1>4, <1>5, SameTrip

LEMMA ProbeTyped ==
  ASSUME NEW b, Typed(b)
  PROVE  Typed(ProbeSuccess(b))
<1>0. Values \subseteq Nat /\ ErrorWindow \in Nat /\ ApiTimeout \in Nat /\ RecoveryThreshold \in Nat
  BY LoopAssumption, BreakerAssumption
<1>1. CASE ~b.tripped \/ b.reason # "Geoblock"
  BY <1>1 DEF ProbeSuccess
<1>2. CASE ~(~b.tripped \/ b.reason # "Geoblock") /\ b.streak + 1 < RecoveryThreshold
  <2> DEFINE r == [b EXCEPT !.streak = @ + 1]
  <2>1. ProbeSuccess(b) = r
    BY <1>2 DEF ProbeSuccess
  <2>2. b \in Breaker /\ b.streak + 1 \in 0..RecoveryThreshold
    BY <1>0, <1>2 DEF Typed, Breaker
  <2>4. r \in Breaker
    BY <2>2 DEF Breaker
  <2>5. r.tripped = b.tripped /\ r.reason = b.reason /\ r.peak = b.peak
    BY <2>2 DEF Breaker
  <2>3. b.peak \in Values
    BY DEF Typed
  <2> HIDE DEF r
  <2> QED BY <2>1, <2>3, <2>4, <2>5, SameTrip
<1>3. CASE ~(~b.tripped \/ b.reason # "Geoblock") /\ ~(b.streak + 1 < RecoveryThreshold)
  <2> DEFINE r == [b EXCEPT !.tripped = FALSE, !.reason = NoReason, !.streak = 0, !.api = 0]
  <2>1. ProbeSuccess(b) = r
    BY <1>3 DEF ProbeSuccess
  <2>2. r \in Breaker /\ r.tripped = FALSE /\ r.reason = NoReason /\ r.peak = b.peak
    <3>1. 0 \in 0..RecoveryThreshold /\ 0 \in 0..ApiTimeout
      BY <1>0
    <3> QED BY <3>1 DEF Typed, Breaker
  <2>3. b.peak \in Values
    BY DEF Typed
  <2> HIDE DEF r
  <2>4. ~r.tripped
    BY <2>2
  <2> QED BY <2>1, <2>2, <2>3, <2>4 DEF Typed
<1> QED BY <1>1, <1>2, <1>3

\* What the type invariant rests on.
LoopTyped ==
  /\ pc \in {"drain", "check", "enter", "replace", "exit", "scan", "save",
             "poll", "gas", "usdc", "probe", "sleep"}
  /\ left \in 0..MaxBatch
  /\ Typed(cb)
  /\ window \in Windows
  /\ timer \in [Tasks -> Nat] /\ \A t \in Tasks : timer[t] \in 0..Every[t]
  /\ value \in Values /\ savedPeak \in Values \cup {0}
  /\ net \in Answers /\ boots \in 1..MaxBoots

LEMMA LoopTypedInit == Init => LoopTyped
<1> SUFFICES ASSUME Init PROVE LoopTyped
  OBVIOUS
<1>1. /\ value \in Values /\ savedPeak \in Values \cup {0} /\ cb = Boot(value, savedPeak)
  BY DEF Init
<1>2. Typed(cb)
  BY <1>1, BootTyped
<1>3. window \in Windows
  BY BreakerAssumption DEF Init, Windows
<1>4. timer \in [Tasks -> Nat] /\ \A t \in Tasks : timer[t] \in 0..Every[t]
  BY LoopAssumption DEF Init
<1> QED BY <1>1, <1>2, <1>3, <1>4, LoopAssumption DEF Init, LoopTyped

\* A task that ran, or was skipped.
LEMMA TimerTyped ==
  ASSUME LoopTyped, NEW t \in Tasks, Ran(t) \/ timer' = timer
  PROVE  timer' \in [Tasks -> Nat] /\ \A u \in Tasks : timer'[u] \in 0..Every[u]
BY LoopAssumption DEF LoopTyped, Ran

LEMMA PinnedTyped ==
  ASSUME LoopTyped, NEW b, Typed(b), NEW n \in 0..MaxPinned, Pinned(b, n)
  PROVE  Typed(cb') /\ window' \in Windows
<1>1. n \in Nat
  BY LoopAssumption
<1>2. [i \in 1..n |-> TRUE] \in [1..n -> BOOLEAN]
  OBVIOUS
<1>3. AfterReverts(window, n) \in Windows
  BY <1>1, <1>2, WindowType DEF LoopTyped, AfterReverts
<1>4. "RevertRate" \in Reasons
  BY DEF Reasons
<1>5. Typed(AfterPinned(b, window, n))
  BY <1>4, TripTyped DEF AfterPinned, CheckRevertCritical
<1> QED BY <1>3, <1>5 DEF Pinned

LEMMA DrainTyped == ASSUME LoopTyped, Drain PROVE LoopTyped'
<1>1. PICK n \in 0..MaxFills : \E reverted \in [1..n -> BOOLEAN] :
        window' = FoldLeft(LAMBDA w, r : RecordFill(w, r), window, reverted)
  BY DEF Drain
<1>2. PICK reverted \in [1..n -> BOOLEAN] :
        window' = FoldLeft(LAMBDA w, r : RecordFill(w, r), window, reverted)
  BY <1>1
<1>3. n \in Nat /\ window \in Windows
  BY LoopAssumption DEF LoopTyped
<1>4. window' \in Windows
  BY <1>2, <1>3, WindowType
<1> QED BY <1>4 DEF Drain, LoopTyped

LEMMA CheckTypedStep == ASSUME LoopTyped, CheckBreaker PROVE LoopTyped'
<1>1. value' \in Values /\ Typed(cb')
  BY CheckTyped DEF CheckBreaker, LoopTyped
<1>2. left' \in 0..MaxBatch /\ pc' \in {"enter", "replace", "scan"}
  BY LoopAssumption DEF CheckBreaker
<1> QED BY <1>1, <1>2 DEF CheckBreaker, LoopTyped

LEMMA EntryTyped == ASSUME LoopTyped, TryEntry PROVE LoopTyped'
<1>1. PICK accepted \in {"none", "some", "all"} :
        \E n \in 0..(IF accepted = "all" THEN 0 ELSE MaxPinned) :
           Pinned(IF accepted = "some" THEN CheckGasCritical(cb, "PartialFill") ELSE cb, n)
  BY DEF TryEntry
<1>2. PICK n \in 0..MaxPinned :
        Pinned(IF accepted = "some" THEN CheckGasCritical(cb, "PartialFill") ELSE cb, n)
  BY <1>1, LoopAssumption
<1>3. "PartialFill" \in Reasons
  BY DEF Reasons
<1>4. Typed(IF accepted = "some" THEN CheckGasCritical(cb, "PartialFill") ELSE cb)
  BY <1>3, TripTyped DEF CheckGasCritical, LoopTyped
<1>5. Typed(cb') /\ window' \in Windows
  BY <1>2, <1>4, PinnedTyped
<1>6. left' \in 0..MaxBatch
  BY LoopAssumption DEF TryEntry, LoopTyped
<1> QED BY <1>5, <1>6 DEF TryEntry, LoopTyped

LEMMA ReplaceTyped == ASSUME LoopTyped, Replace \/ ProactiveExits PROVE LoopTyped'
<1>1. PICK n \in 0..MaxPinned : Pinned(cb, n)
  BY DEF Replace, ProactiveExits
<1>2. Typed(cb)
  BY DEF LoopTyped
<1>3. Typed(cb') /\ window' \in Windows
  BY <1>1, <1>2, PinnedTyped
<1> QED BY <1>3 DEF Replace, ProactiveExits, LoopTyped

LEMMA TaskTyped ==
  ASSUME LoopTyped, Scan \/ SaveState \/ PollResolutions \/ CheckGas \/ CheckUsdc
  PROVE  LoopTyped'
<1>0. {"Gas", "Usdc"} \subseteq Reasons /\ Typed(cb)
  BY DEF Reasons, LoopTyped
<1>1. /\ Typed(RecordApiSuccess(cb)) /\ Typed(RecordError(cb))
      /\ Typed(CheckGasCritical(cb, "Gas")) /\ Typed(CheckGasCritical(cb, "Usdc"))
  BY <1>0, RecordsTyped, TripTyped DEF CheckGasCritical
<1>2. Typed(cb')
  BY <1>0, <1>1 DEF Scan, SaveState, PollResolutions, CheckGas, CheckUsdc, Skip
<1>3. \E t \in Tasks : Ran(t) \/ timer' = timer
  BY DEF Scan, SaveState, PollResolutions, CheckGas, CheckUsdc, Skip, Tasks
<1>4. timer' \in [Tasks -> Nat] /\ \A u \in Tasks : timer'[u] \in 0..Every[u]
  BY <1>3, TimerTyped
<1>5. savedPeak' \in Values \cup {0}
  BY DEF Scan, SaveState, PollResolutions, CheckGas, CheckUsdc, Skip, LoopTyped, Typed
<1>6. pc' \in {"save", "poll", "gas", "usdc", "probe", "sleep"}
  BY DEF Scan, SaveState, PollResolutions, CheckGas, CheckUsdc, Skip
<1>7. UNCHANGED <<left, window, value, net, boots>>
  BY DEF Scan, SaveState, PollResolutions, CheckGas, CheckUsdc
<1> QED BY <1>2, <1>4, <1>5, <1>6, <1>7 DEF LoopTyped

LEMMA ProbeTypedStep == ASSUME LoopTyped, Probe PROVE LoopTyped'
<1>0. "Geoblock" \in Reasons /\ Typed(cb)
  BY DEF Reasons, LoopTyped
<1>1. Typed(ProbeSuccess(cb)) /\ Typed(CheckGasCritical(ProbeFailure(cb), "Geoblock"))
  BY <1>0, ProbeTyped, RecordsTyped, TripTyped DEF CheckGasCritical
<1>2. Typed(cb')
  BY <1>0, <1>1 DEF Probe
<1> QED BY <1>2 DEF Probe, LoopTyped

LEMMA SleepTyped == ASSUME LoopTyped, NEW d \in Nat, Sleep(d) PROVE LoopTyped'
<1>1. Typed(cb')
  BY AgeTyped DEF Sleep, LoopTyped
<1>2. \A t \in Tasks : timer[t] \in Nat /\ Every[t] \in Nat
  BY LoopAssumption DEF LoopTyped
<1>3. \A t \in Tasks : Smaller(timer[t] + d, Every[t]) \in 0..Every[t]
  BY <1>2 DEF Smaller
<1>4. timer' \in [Tasks -> Nat] /\ \A t \in Tasks : timer'[t] \in 0..Every[t]
  BY <1>2, <1>3 DEF Sleep
<1> QED BY <1>1, <1>4 DEF Sleep, LoopTyped

LEMMA RestartTyped == ASSUME LoopTyped, Restart PROVE LoopTyped'
<1>1. value' \in Values /\ Typed(cb')
  BY BootTyped DEF Restart, LoopTyped
<1>2. window' \in Windows
  BY BreakerAssumption DEF Restart, Windows
<1>3. timer' \in [Tasks -> Nat] /\ \A t \in Tasks : timer'[t] \in 0..Every[t]
  BY LoopAssumption DEF Restart
<1>4. left' \in 0..MaxBatch /\ boots' \in 1..MaxBoots
  BY LoopAssumption DEF Restart, LoopTyped
<1> QED BY <1>1, <1>2, <1>3, <1>4 DEF Restart, LoopTyped

LEMMA LoopTypedStep == LoopTyped /\ [Next]_vars => LoopTyped'
<1> SUFFICES ASSUME LoopTyped, [Next]_vars PROVE LoopTyped'
  OBVIOUS
<1>1. CASE Drain
  BY <1>1, DrainTyped
<1>2. CASE CheckBreaker
  BY <1>2, CheckTypedStep
<1>3. CASE TryEntry
  BY <1>3, EntryTyped
<1>4. CASE EndBatch
  BY <1>4 DEF EndBatch, LoopTyped
<1>5. CASE Replace \/ ProactiveExits
  BY <1>5, ReplaceTyped
<1>6. CASE Scan \/ SaveState \/ PollResolutions \/ CheckGas \/ CheckUsdc
  BY <1>6, TaskTyped
<1>7. CASE Probe
  BY <1>7, ProbeTypedStep
<1>8. CASE Sleep(0) \/ Sleep(1)
  BY <1>8, SleepTyped
<1>9. CASE Restart
  BY <1>9, RestartTyped
<1>10. CASE UNCHANGED vars
  BY <1>10 DEF vars, LoopTyped
<1> QED BY <1>1, <1>2, <1>3, <1>4, <1>5, <1>6, <1>7, <1>8, <1>9, <1>10 DEF Next, Tick

\* A breaker that is not enabled is never tripped.
Untripped == ~cb.tripped

LEMMA OffNeverTrips ==
  ASSUME ~Enabled, LoopTyped, Untripped, [Next]_vars
  PROVE  Untripped'
<1> USE DEF Untripped
<1>0. cb \in Breaker
  BY DEF LoopTyped, Typed
<1>1. \A b, reason : CheckGasCritical(b, reason) = b /\ CheckRevertCritical(b) = b
  BY DEF CheckGasCritical, CheckRevertCritical, Trip
<1>2. \A b, v : Check(b, v) = b
  BY DEF Check
<1>3. /\ ~RecordError(cb).tripped /\ ~RecordApiSuccess(cb).tripped
      /\ ~ProbeFailure(cb).tripped /\ \A d : ~AgeBy(cb, d).tripped
  BY <1>0 DEF RecordError, RecordApiSuccess, ProbeFailure, AgeBy, Breaker
<1>4. ProbeSuccess(cb) = cb
  BY DEF ProbeSuccess
<1>5. \A b, n : Pinned(b, n) => cb' = b
  BY <1>1 DEF Pinned, AfterPinned
<1>6. CASE Tick
  <2>1. CASE Drain \/ EndBatch
    BY <2>1 DEF Drain, EndBatch
  <2>2. CASE CheckBreaker
    BY <1>2, <2>2 DEF CheckBreaker
  <2>3. CASE TryEntry
    <3>1. PICK accepted \in {"none", "some", "all"} :
            \E n \in 0..(IF accepted = "all" THEN 0 ELSE MaxPinned) :
               Pinned(IF accepted = "some" THEN CheckGasCritical(cb, "PartialFill") ELSE cb, n)
      BY <2>3 DEF TryEntry
    <3>2. cb' = cb
      BY <1>1, <1>5, <3>1
    <3> QED BY <3>2
  <2>4. CASE Replace \/ ProactiveExits
    BY <1>5, <2>4 DEF Replace, ProactiveExits
  <2>5. CASE Scan \/ SaveState \/ PollResolutions \/ CheckGas \/ CheckUsdc
    BY <1>1, <1>3, <2>5 DEF Scan, SaveState, PollResolutions, CheckGas, CheckUsdc, Skip
  <2>6. CASE Probe
    BY <1>1, <1>3, <1>4, <2>6 DEF Probe
  <2> QED BY <1>6, <2>1, <2>2, <2>3, <2>4, <2>5, <2>6 DEF Tick
<1>7. CASE Sleep(0) \/ Sleep(1)
  BY <1>3, <1>7 DEF Sleep
<1>8. CASE Restart
  <2>1. ~Boot(value', savedPeak).tripped
    BY DEF Boot, RecordApiSuccess, SetPeak, NewBreaker
  <2> QED BY <1>8, <2>1 DEF Restart
<1>9. CASE UNCHANGED vars
  BY <1>9 DEF vars
<1> QED BY <1>6, <1>7, <1>8, <1>9 DEF Next

-----------------------------------------------------------------------------
(* The theorems.                                                           *)

\* The invariant holds throughout, with the breaker enabled.
THEOREM LoopInvariant == ASSUME Enabled PROVE Spec => []IInv
<1>1. Init => IInv
  BY InitIInv
<1>2. IInv /\ [Next]_vars => IInv'
  BY NextStep
<1> QED BY <1>1, <1>2, PTL DEF Spec

\* An entry that stranded inventory keeps the breaker tripped (CircuitBreaker
\* trips once and recovers only from a geoblock) until the process restarts.
THEOREM StrandedHalts == ASSUME Enabled PROVE Spec => []StrandedEntryHalts
<1>1. IInv => StrandedEntryHalts
  BY DEF IInv, Observed, StrandedEntryHalts
<1> QED BY <1>1, LoopInvariant, PTL

\* A round that tries entries read, at its check, a value that is no drawdown
\* below any peak the process ever saved, over any number of restarts.
THEOREM ChecksAgainstPeak == ASSUME Enabled PROVE Spec => EntryCheckedAgainstPeak
<1>1. IInv /\ [Next]_vars =>
        [Entering => ~DrawnDown([cb EXCEPT !.peak = savedPeak], value)]_vars
  BY EnteringStep
<1> QED BY <1>1, LoopInvariant, PTL DEF Spec, EntryCheckedAgainstPeak

\* Breaker, window, timers and peaks keep their types, and the breaker has a
\* reason exactly when it is tripped (circuit_breaker.rs), enabled or not.
THEOREM LoopTypeOK == Spec => []TypeOK
<1>1. LoopTyped => TypeOK
  BY DEF LoopTyped, Typed, Windows, TypeOK
<1> QED BY <1>1, LoopTypedInit, LoopTypedStep, PTL DEF Spec

\* The breaker opens by itself only after RecoveryThreshold answers since the
\* last 403, none of which needs to be a 200; one that is not enabled never trips.
THEOREM AnswersRecover == Spec => RecoveryNeedsAnswers
<1>1. CASE Enabled
  <2>1. IInv /\ [Next]_vars =>
          [Recovered => seen'.answered >= RecoveryThreshold]_vars
    BY <1>1, NextStep
  <2>2. Spec => []IInv
    BY <1>1, LoopInvariant
  <2> QED BY <2>1, <2>2, PTL DEF Spec, RecoveryNeedsAnswers
<1>2. CASE ~Enabled
  <2>1. Init => Untripped
    BY DEF Init, Boot, RecordApiSuccess, SetPeak, NewBreaker, Untripped
  <2>2. LoopTyped /\ Untripped /\ [Next]_vars => Untripped'
    BY <1>2, OffNeverTrips
  <2>3. Untripped => [Recovered => seen'.answered >= RecoveryThreshold]_vars
    BY DEF Recovered, Untripped
  <2> QED BY <2>1, <2>2, <2>3, LoopTypedInit, LoopTypedStep, PTL DEF Spec, RecoveryNeedsAnswers
<1> QED BY <1>1, <1>2

-----------------------------------------------------------------------------
(* LiveExits: the invariant.                                               *)

ExitType ==
  [busy : BOOLEAN, pending : SUBSET Legs, polled : SUBSET Legs,
   asked : [Legs -> Nat], fill : [Legs -> Nat], polls : [Legs -> Nat],
   path : {"none", "proactive", "replaced"}]

\* An attempt waits in a live process only.
Waiting ==
  /\ exit \in ExitType
  /\ ~exit.busy => exit = NoExit
  /\ exit.busy => LiveMode

\* What a trade has taken out of the wallet, and what of it the books still have.
Gone == [t \in Trades |-> IF t.sale /\ ~t.failed THEN t.size ELSE 0]
Unbooked == [t \in Trades |-> IF t.sale /\ ~t.failed /\ ~t.told THEN t.size ELSE 0]

Total(w, s) == SumFunctionOnSet([i \in DOMAIN s |-> w[s[i]]], DOMAIN s)

\* The venue sells what it has.  What is in the wallet, or was sold and is not
\* yet booked, is on the books but for what is explained.  The first booking of
\* a leg finds all of its shares on the books.
VenueOf(l) ==
  /\ wallet[l] + Total(Gone, trades[l]) <= Size[l]
  /\ \A i \in DOMAIN trades[l] :
       trades[l][i].size <= Size[l] /\ (trades[l][i].failed => trades[l][i].reports = 2)

BooksOf(l) ==
  wallet[l] + Total(Unbooked, trades[l]) <= shares[l] + undone[l] + misread[l] + paper[l]

LedgerOf(l) ==
  /\ LiveMode /\ <<"exit", l>> \notin keys => shares[l] = Size[l] /\ booked[l] = 0
  /\ booked[l] + shares[l] <= Size[l]

\* Polling is for what the manager holds, and never finds more than was bought.
PolledOf(l) ==
  /\ l \in exit.polled => exit.asked[l] = shares[l]
  /\ exit.polls[l] + shares[l] <= Size[l]

ExitsInv ==
  /\ ExitsTypeOK /\ Waiting
  /\ \A l \in Legs : VenueOf(l) /\ BooksOf(l) /\ LedgerOf(l) /\ PolledOf(l)

LEMMA NoExitType == NoExit \in ExitType
  BY DEF NoExit, ExitType

-----------------------------------------------------------------------------
(* LiveExits: sums over the trades of a leg.                               *)

LEMMA TotalType ==
  ASSUME NEW T, NEW w \in [T -> Nat], NEW s \in Seq(T)
  PROVE  Total(w, s) \in Nat
<1> DEFINE f == [i \in DOMAIN s |-> w[s[i]]]
<1>1. IsFiniteSet(DOMAIN s)
  BY FS_Interval
<1>2. \A i \in DOMAIN s : f[i] \in Nat
  OBVIOUS
<1> HIDE DEF f
<1>3. SumFunctionOnSet(f, DOMAIN s) \in Nat
  BY <1>1, <1>2, SumNat
<1> QED BY <1>3 DEF Total, f

LEMMA FiniteDomain ==
  ASSUME NEW T, NEW s \in Seq(T), NEW i
  PROVE  IsFiniteSet(DOMAIN s) /\ IsFiniteSet(DOMAIN s \ {i})
<1>1. Len(s) \in Nat /\ DOMAIN s = 1..Len(s)
  OBVIOUS
<1>2. IsFiniteSet(1..Len(s))
  BY <1>1, FS_Interval
<1>3. IsFiniteSet(1..Len(s) \ {i})
  BY <1>2, FS_Subset
<1> QED BY <1>1, <1>2, <1>3

LEMMA SumChanged ==
  ASSUME NEW f, NEW g, NEW D, NEW i \in D, IsFiniteSet(D),
         \A j \in D : f[j] \in Int /\ g[j] \in Int, \A j \in D \ {i} : g[j] = f[j]
  PROVE  SumFunctionOnSet(g, D) + f[i] = SumFunctionOnSet(f, D) + g[i]
<1>1. SumFunctionOnSet(f, D) = f[i] + SumFunctionOnSet(f, D \ {i})
  BY SumRemove
<1>2. SumFunctionOnSet(g, D) = g[i] + SumFunctionOnSet(g, D \ {i})
  BY SumRemove
<1>3. IsFiniteSet(D \ {i})
  BY FS_Subset
<1>4. SumFunctionOnSet(g, D \ {i}) = SumFunctionOnSet(f, D \ {i})
  BY <1>3, SumSame
<1>5. SumFunctionOnSet(f, D \ {i}) \in Int
  BY <1>3, SumType
<1> QED BY <1>1, <1>2, <1>4, <1>5

Only(T, s, r, i) ==
  /\ s \in Seq(T) /\ r \in Seq(T) /\ i \in DOMAIN s /\ DOMAIN r = DOMAIN s
  /\ \A j \in DOMAIN s \ {i} : r[j] = s[j]

\* A trade that is changed counts as what it is now.
LEMMA TotalChanged ==
  ASSUME NEW T, NEW w \in [T -> Nat], NEW s, NEW r, NEW i, Only(T, s, r, i)
  PROVE  Total(w, r) + w[s[i]] = Total(w, s) + w[r[i]]
<1> DEFINE D == DOMAIN s
           f == [j \in D |-> w[s[j]]]
           g == [j \in D |-> w[r[j]]]
<1>1. IsFiniteSet(D) /\ IsFiniteSet(D \ {i}) /\ i \in D
  BY FiniteDomain DEF Only
<1>2. \A j \in D : s[j] \in T /\ r[j] \in T
  BY DEF Only
<1>3. \A j \in D : f[j] = w[s[j]] /\ f[j] \in Int /\ g[j] = w[r[j]] /\ g[j] \in Int
  BY <1>2
<1>4. Total(w, s) = SumFunctionOnSet(f, D) /\ Total(w, r) = SumFunctionOnSet(g, D)
  BY DEF Total, Only
<1> HIDE DEF f, g, D
<1>5. \A j \in D : f[j] \in Int /\ g[j] \in Int
  BY <1>3
<1>6. \A j \in D \ {i} : g[j] = f[j]
  BY <1>3 DEF D, Only
<1>7. SumFunctionOnSet(g, D) + f[i] = SumFunctionOnSet(f, D) + g[i]
  BY <1>1, <1>5, <1>6, SumChanged
<1> QED BY <1>1, <1>3, <1>4, <1>7

\* A further trade adds what it counts.
LEMMA TotalAppend ==
  ASSUME NEW T, NEW w \in [T -> Nat], NEW s \in Seq(T), NEW t \in T
  PROVE  Total(w, Append(s, t)) = Total(w, s) + w[t]
<1> DEFINE r == Append(s, t)
           n == Len(r)
           f == [j \in DOMAIN s |-> w[s[j]]]
           g == [j \in DOMAIN r |-> w[r[j]]]
<1>1. /\ n \in Nat /\ n # 0 /\ DOMAIN r = 1..n /\ DOMAIN s = 1..(n - 1)
      /\ \A j \in 1..(n - 1) : r[j] = s[j] /\ s[j] \in T
      /\ r[n] = t
  OBVIOUS
<1>2. /\ \A j \in 1..n : g[j] \in Int
      /\ \A j \in 1..(n - 1) : f[j] \in Int /\ g[j] = f[j]
      /\ g[n] = w[t]
  BY <1>1
<1>3. Total(w, r) = SumFunctionOnSet(g, 1..n) /\ Total(w, s) = SumFunctionOnSet(f, 1..(n - 1))
  BY <1>1 DEF Total
<1>4. IsFiniteSet(1..(n - 1))
  BY <1>1, FS_Interval
<1> HIDE DEF f, g, n
<1>5. SumFunctionOnSet(g, 1..n) = SumFunctionOnSet(g, 1..(n - 1)) + g[n]
  BY <1>1, <1>2, SumUpTo
<1>6. SumFunctionOnSet(g, 1..(n - 1)) = SumFunctionOnSet(f, 1..(n - 1))
  BY <1>2, <1>4, SumSame
<1> QED BY <1>2, <1>3, <1>5, <1>6

LEMMA TotalNone == ASSUME NEW w PROVE Total(w, <<>>) = 0
<1>1. DOMAIN <<>> = {}
  OBVIOUS
<1> QED BY <1>1, SumEmpty DEF Total

LEMMA TotalOne ==
  ASSUME NEW T, NEW w \in [T -> Nat], NEW t \in T
  PROVE  Total(w, <<t>>) = w[t]
<1>1. <<>> \in Seq(T) /\ <<t>> = Append(<<>>, t) /\ w[t] \in Nat
  OBVIOUS
<1>2. Total(w, Append(<<>>, t)) = Total(w, <<>>) + w[t]
  BY <1>1, TotalAppend
<1> QED BY <1>1, <1>2, TotalNone

LEMMA Weights == Gone \in [Trades -> Nat] /\ Unbooked \in [Trades -> Nat]
<1>1. \A t \in Trades : t.size \in Nat
  BY DEF Trades
<1> QED BY <1>1 DEF Gone, Unbooked

LEMMA WeightIs ==
  ASSUME NEW t \in Trades
  PROVE  /\ t.size \in Nat /\ t.sale \in BOOLEAN /\ t.failed \in BOOLEAN /\ t.told \in BOOLEAN
         /\ t.reports \in 0..2
         /\ Gone[t] = IF t.sale /\ ~t.failed THEN t.size ELSE 0
         /\ Unbooked[t] = IF t.sale /\ ~t.failed /\ ~t.told THEN t.size ELSE 0
  BY DEF Trades, Gone, Unbooked

LEMMA TotalsChanged ==
  ASSUME NEW s, NEW r, NEW i, Only(Trades, s, r, i)
  PROVE  /\ Total(Gone, s) \in Nat /\ Total(Unbooked, s) \in Nat
         /\ Total(Gone, r) \in Nat /\ Total(Unbooked, r) \in Nat
         /\ Total(Gone, r) + Gone[s[i]] = Total(Gone, s) + Gone[r[i]]
         /\ Total(Unbooked, r) + Unbooked[s[i]] = Total(Unbooked, s) + Unbooked[r[i]]
<1> DEFINE T == Trades
<1>1. Gone \in [T -> Nat] /\ Unbooked \in [T -> Nat] /\ Only(T, s, r, i)
  BY Weights
<1> HIDE DEF T
<1>2. s \in Seq(T) /\ r \in Seq(T)
  BY <1>1 DEF Only
<1>3. Total(Gone, s) \in Nat /\ Total(Unbooked, s) \in Nat
  BY <1>1, <1>2, TotalType
<1>4. Total(Gone, r) \in Nat /\ Total(Unbooked, r) \in Nat
  BY <1>1, <1>2, TotalType
<1>5. Total(Gone, r) + Gone[s[i]] = Total(Gone, s) + Gone[r[i]]
  BY <1>1, TotalChanged
<1>6. Total(Unbooked, r) + Unbooked[s[i]] = Total(Unbooked, s) + Unbooked[r[i]]
  BY <1>1, TotalChanged
<1> QED BY <1>3, <1>4, <1>5, <1>6

\* One trade of a leg is changed.
LEMMA TradeChanged ==
  ASSUME NEW s \in Seq(Trades), NEW i \in DOMAIN s, NEW t \in Trades,
         NEW r, r = [s EXCEPT ![i] = t]
  PROVE  Only(Trades, s, r, i) /\ r[i] = t
<1> DEFINE T == Trades
<1>1. s \in Seq(T) /\ t \in T
  OBVIOUS
<1> HIDE DEF T
<1>2. r \in Seq(T) /\ DOMAIN r = DOMAIN s /\ r[i] = t /\ \A j \in DOMAIN s \ {i} : r[j] = s[j]
  BY <1>1
<1>3. Only(T, s, r, i) /\ r[i] = t
  BY <1>1, <1>2 DEF Only
<1> QED BY <1>3 DEF T

-----------------------------------------------------------------------------
(* LiveExits: the invariant holds at the start, and every step keeps it.   *)

ChannelOK ==
  /\ channel \in Seq(Events) /\ Len(channel) <= Room
  /\ \A k \in DOMAIN channel : channel[k].trade \in DOMAIN trades[channel[k].leg]

FillOK == \A l \in Legs : exit.fill[l] \in {0} \cup DOMAIN trades[l]

LEMMA TradesAre ==
  ASSUME trades \in [Legs -> Seq(Trades)], NEW l \in Legs
  PROVE  /\ trades[l] \in Seq(Trades) /\ \A i \in DOMAIN trades[l] : trades[l][i] \in Trades
         /\ Total(Gone, trades[l]) \in Nat /\ Total(Unbooked, trades[l]) \in Nat
<1> DEFINE T == Trades
           s == trades[l]
<1>1. Gone \in [T -> Nat] /\ Unbooked \in [T -> Nat] /\ s \in Seq(T)
  BY Weights
<1> HIDE DEF T, s
<1>2. Total(Gone, s) \in Nat /\ Total(Unbooked, s) \in Nat
  BY <1>1, TotalType
<1>3. \A i \in DOMAIN s : s[i] \in T
  BY <1>1
<1> QED BY <1>1, <1>2, <1>3 DEF T, s

LEMMA ExitsInitInv == ExitsInit => ExitsInv
<1> SUFFICES ASSUME ExitsInit PROVE ExitsInv
  OBVIOUS
<1>1. Size \in [Legs -> Nat] /\ \E l \in Legs : Size[l] > 0
  BY SizesAssumption
<1>2. ASSUME NEW n \in Nat, NEW r \in 0..2 PROVE Trade(n, FALSE, r) \in Trades
  BY DEF Trade, Trades
<1>3. ASSUME NEW l \in Legs
      PROVE  /\ trades[l] \in Seq(Trades) /\ Total(Gone, trades[l]) = 0 /\ Total(Unbooked, trades[l]) = 0
             /\ \A i \in DOMAIN trades[l] : trades[l][i].size <= Size[l] /\ ~trades[l][i].failed
  <2>1. CASE ~executor
    <3>1. trades[l] = <<>>
      BY <2>1 DEF ExitsInit
    <3> QED BY <3>1, TotalNone
  <2>2. CASE executor
    <3>1. PICK r \in 0..2 : trades[l] = <<Trade(Size[l], FALSE, r)>>
      BY <2>2 DEF ExitsInit
    <3> DEFINE t == Trade(Size[l], FALSE, r)
               T == Trades
    <3>2. t \in T /\ t.size = Size[l] /\ ~t.failed /\ Gone[t] = 0 /\ Unbooked[t] = 0 /\ Size[l] \in Nat
      <4>1. t \in Trades /\ t.size = Size[l] /\ ~t.failed /\ ~t.sale
        BY <1>1, <1>2 DEF Trade
      <4> HIDE DEF t
      <4> QED BY <1>1, <4>1, WeightIs
    <3>3. trades[l] = <<t>>
      BY <3>1
    <3>4. Gone \in [T -> Nat] /\ Unbooked \in [T -> Nat]
      BY Weights
    <3> HIDE DEF t, T
    <3>6. Total(Gone, <<t>>) = 0 /\ Total(Unbooked, <<t>>) = 0
      BY <3>2, <3>4, TotalOne
    <3>8. trades[l] \in Seq(T) /\ \A i \in DOMAIN trades[l] : trades[l][i] = t
      BY <3>2, <3>3
    <3> QED BY <3>2, <3>3, <3>6, <3>8 DEF T
  <2> QED BY <2>1, <2>2
<1>4. trades \in [Legs -> Seq(Trades)]
  <2>1. trades = [l \in Legs |-> trades[l]]
    <3>1. CASE ~executor
      BY <3>1 DEF ExitsInit
    <3>2. CASE executor
      <4>1. PICK r \in [Legs -> 0..2] : trades = [l \in Legs |-> <<Trade(Size[l], FALSE, r[l])>>]
        BY <3>2 DEF ExitsInit
      <4> QED BY <4>1
    <3> QED BY <3>1, <3>2
  <2> DEFINE Q == Seq(Trades)
  <2>3. \A l \in Legs : trades[l] \in Q
    BY <1>3
  <2> HIDE DEF Q
  <2>4. trades \in [Legs -> Q]
    BY <2>1, <2>3
  <2> QED BY <2>4 DEF Q
<1>5. Waiting
  BY NoExitType DEF ExitsInit, Waiting, NoExit
<1>6. ExitsTypeOK
  <2>1. /\ shares \in [Legs -> Nat] /\ booked \in [Legs -> Nat] /\ wallet \in [Legs -> Nat]
        /\ undone \in [Legs -> Nat] /\ misread \in [Legs -> Nat] /\ paper \in [Legs -> Nat]
        /\ \A l \in Legs : shares[l] <= Size[l] /\ wallet[l] <= Size[l]
        /\ isOpen = (\E l \in Legs : shares[l] > 0) /\ isOpen \in BOOLEAN
    BY <1>1 DEF ExitsInit
  <2>2. channel \in Seq(Events) /\ Len(channel) <= Room /\ channel = <<>>
    BY BoundsAssumption DEF ExitsInit
  <2>3. /\ exit.busy \in BOOLEAN /\ exit.pending \subseteq Legs /\ exit.polled \subseteq Legs
        /\ exit.asked \in [Legs -> Nat] /\ exit.polls \in [Legs -> Nat]
        /\ \A l \in Legs : exit.fill[l] = 0
    BY DEF ExitsInit, NoExit
  <2>4. keys \subseteq {"exit", "liquidate"} \X Legs /\ request \in BOOLEAN
        /\ killed \in BOOLEAN /\ live \in BOOLEAN /\ executor \in BOOLEAN /\ shadow \in BOOLEAN
        /\ cooling \in BOOLEAN
    BY DEF ExitsInit
  <2> QED BY <1>4, <2>1, <2>2, <2>3, <2>4 DEF ExitsTypeOK
<1>7. ASSUME NEW l \in Legs PROVE VenueOf(l) /\ BooksOf(l) /\ LedgerOf(l) /\ PolledOf(l)
  <2>1. /\ shares[l] = Size[l] /\ Size[l] \in Nat /\ booked[l] = 0 /\ wallet[l] \in {0, Size[l]}
        /\ undone[l] = 0 /\ misread[l] = 0 /\ paper[l] = 0
        /\ exit.polls[l] = 0 /\ exit.polled = {}
    BY <1>1 DEF ExitsInit, NoExit
  <2> QED BY <1>3, <2>1 DEF VenueOf, BooksOf, LedgerOf, PolledOf
<1> QED BY <1>5, <1>6, <1>7 DEF ExitsInv

\* The invariant over a step that leaves books and venue alone.
LEMMA QuietStep ==
  ASSUME ExitsInv, UNCHANGED <<books, venue, executor, causes>>,
         shadow' \in BOOLEAN, shadow => shadow', cooling' \in BOOLEAN, request' \in BOOLEAN,
         killed' \in BOOLEAN, live' \in BOOLEAN,
         ChannelOK', Waiting', FillOK', \A l \in Legs : PolledOf(l)'
  PROVE  ExitsInv'
<1>1. ExitsTypeOK'
  BY DEF ExitsInv, ExitsTypeOK, ExitType, Waiting, ChannelOK, FillOK, books, venue, causes
<1>2. \A l \in Legs : VenueOf(l)' /\ BooksOf(l)'
  BY DEF ExitsInv, VenueOf, BooksOf, books, venue, causes
<1>3. \A l \in Legs : LedgerOf(l)'
  BY DEF ExitsInv, ExitsTypeOK, LedgerOf, LiveMode, books
<1> QED BY <1>1, <1>2, <1>3 DEF ExitsInv

\* What the type invariant says of the channel.
LEMMA ChannelIs ==
  ASSUME ExitsInv
  PROVE  /\ ChannelOK /\ FillOK
         /\ channel # <<>> =>
              /\ Head(channel) \in Events /\ Head(channel).leg \in Legs
              /\ Head(channel).trade \in DOMAIN trades[Head(channel).leg]
              /\ Tail(channel) \in Seq(Events) /\ Len(Tail(channel)) <= Room
              /\ \A k \in DOMAIN Tail(channel) :
                   Tail(channel)[k].trade \in DOMAIN trades[Tail(channel)[k].leg]
<1>1. ChannelOK /\ FillOK
  BY DEF ExitsInv, ExitsTypeOK, ChannelOK, FillOK
<1>2. ASSUME channel # <<>>
      PROVE  /\ Head(channel) \in Events /\ Head(channel) = channel[1] /\ 1 \in DOMAIN channel
             /\ Tail(channel) \in Seq(Events) /\ Len(Tail(channel)) <= Room
             /\ \A k \in DOMAIN Tail(channel) :
                  k + 1 \in DOMAIN channel /\ Tail(channel)[k] = channel[k + 1]
  <2> DEFINE T == Events
  <2>1. channel \in Seq(T) /\ Len(channel) <= Room /\ Room \in Nat
    BY <1>1, BoundsAssumption DEF ChannelOK
  <2> HIDE DEF T
  <2>2. /\ Head(channel) \in T /\ Head(channel) = channel[1] /\ 1 \in DOMAIN channel
        /\ Tail(channel) \in Seq(T) /\ Len(Tail(channel)) <= Room
        /\ \A k \in DOMAIN Tail(channel) :
             k + 1 \in DOMAIN channel /\ Tail(channel)[k] = channel[k + 1]
    BY <1>2, <2>1
  <2> QED BY <2>2 DEF T
<1>3. \A e \in Events : e.leg \in Legs
  BY DEF Events
<1>4. channel # <<>> =>
        /\ Head(channel).trade \in DOMAIN trades[Head(channel).leg]
        /\ \A k \in DOMAIN Tail(channel) :
             Tail(channel)[k].trade \in DOMAIN trades[Tail(channel)[k].leg]
  BY <1>1, <1>2 DEF ChannelOK
<1> QED BY <1>1, <1>2, <1>3, <1>4

LEMMA ReceiveStep ==
  ASSUME ExitsInv, Receive
  PROVE  ExitsInv'
<1> DEFINE e == Head(channel)
           told == [exit EXCEPT !.pending = @ \ {e.leg}, !.fill[e.leg] = e.trade]
<1>1. /\ exit \in ExitType /\ exit.busy /\ channel # <<>> /\ channel' = Tail(channel)
      /\ exit' = IF e.ok /\ e.leg \in exit.pending THEN told ELSE exit
      /\ UNCHANGED <<books, venue, kill, executor, cooling, live, causes>>
  BY DEF ExitsInv, Waiting, Receive
<1>2. e.leg \in Legs /\ e.trade \in Nat /\ e.trade \in DOMAIN trades[e.leg]
  BY <1>1, ChannelIs DEF Events
<1> HIDE DEF e
<1>3. /\ told \in ExitType /\ told.busy = exit.busy /\ told.polled = exit.polled
      /\ told.asked = exit.asked /\ told.polls = exit.polls
      /\ \A l \in Legs : told.fill[l] = IF l = e.leg THEN e.trade ELSE exit.fill[l]
  BY <1>1, <1>2 DEF ExitType
<1> HIDE DEF told
<1>4. /\ exit' \in ExitType /\ exit'.busy = exit.busy /\ exit'.polled = exit.polled
      /\ exit'.asked = exit.asked /\ exit'.polls = exit.polls
      /\ \A l \in Legs : exit'.fill[l] = exit.fill[l] \/ (l = e.leg /\ exit'.fill[l] = e.trade)
  BY <1>1, <1>3
<1>5. Waiting'
  BY <1>1, <1>4 DEF ExitsInv, Waiting, LiveMode, kill
<1>6. FillOK'
  BY <1>1, <1>2, <1>4, ChannelIs DEF FillOK, venue
<1>7. \A l \in Legs : PolledOf(l)'
  BY <1>1, <1>4 DEF ExitsInv, PolledOf, books
<1>8. ChannelOK'
  BY <1>1, ChannelIs DEF ChannelOK, venue
<1> QED BY <1>1, <1>5, <1>6, <1>7, <1>8, QuietStep DEF ExitsInv, ExitsTypeOK, kill

LEMMA PollStep ==
  ASSUME ExitsInv, NEW l \in Legs, Poll(l)
  PROVE  ExitsInv'
<1> DEFINE n == wallet[l] - exit.asked[l]
           polled == [exit EXCEPT !.polled = @ \ {l}, !.polls[l] = n]
<1>1. /\ exit \in ExitType /\ exit.busy /\ l \in exit.polled /\ wallet[l] > exit.asked[l]
      /\ exit' = polled
      /\ UNCHANGED <<books, venue, kill, executor, cooling, channel, live, causes>>
  BY DEF ExitsInv, Waiting, Poll
<1>2. /\ wallet[l] \in Nat /\ wallet[l] <= Size[l] /\ Size[l] \in Nat /\ shares[l] \in Nat
      /\ exit.asked[l] = shares[l]
  BY <1>1, SizesAssumption DEF ExitsInv, ExitsTypeOK, PolledOf
<1>3. n \in Nat /\ n + shares[l] <= Size[l]
  BY <1>1, <1>2
<1> HIDE DEF n
<1>4. /\ polled \in ExitType /\ polled.busy = exit.busy /\ polled.polled = exit.polled \ {l}
      /\ polled.asked = exit.asked /\ polled.fill = exit.fill
      /\ \A m \in Legs : polled.polls[m] = IF m = l THEN n ELSE exit.polls[m]
  BY <1>1, <1>3 DEF ExitType
<1> HIDE DEF polled
<1>5. Waiting'
  BY <1>1, <1>4 DEF ExitsInv, Waiting, LiveMode, kill
<1>6. FillOK' /\ ChannelOK'
  BY <1>1, <1>4, ChannelIs DEF FillOK, ChannelOK, venue
<1>7. \A m \in Legs : PolledOf(m)'
  BY <1>1, <1>3, <1>4 DEF ExitsInv, PolledOf, books
<1> QED BY <1>1, <1>5, <1>6, <1>7, QuietStep DEF ExitsInv, ExitsTypeOK, kill

\* Steps that touch no trade and no exit.
LEMMA AsideStep ==
  ASSUME ExitsInv, Dispatch \/ Enter \/ Ask \/ Kill \/ CoolDown \/ UNCHANGED exitsVars
  PROVE  ExitsInv'
<1>1. UNCHANGED <<books, venue, executor, exit, causes>>
  BY DEF Dispatch, Enter, Ask, Kill, CoolDown, exitsVars
<1>2. /\ shadow' \in BOOLEAN /\ cooling' \in BOOLEAN /\ request' \in BOOLEAN
      /\ killed' \in BOOLEAN /\ live' \in BOOLEAN
      /\ shadow' = shadow \/ (~exit.busy /\ shadow' = TRUE)
  BY DEF ExitsInv, ExitsTypeOK, Dispatch, Enter, Ask, Kill, CoolDown, exitsVars, kill
<1>3. channel' = channel \/ (channel # <<>> /\ channel' = Tail(channel))
  BY DEF Dispatch, Enter, Ask, Kill, CoolDown, exitsVars
<1>4. ChannelOK' /\ FillOK'
  BY <1>1, <1>3, ChannelIs DEF ChannelOK, FillOK, venue
<1>5. Waiting'
  BY <1>1, <1>2 DEF ExitsInv, Waiting, LiveMode
<1>6. \A l \in Legs : PolledOf(l)'
  BY <1>1 DEF ExitsInv, PolledOf, books
<1> QED BY <1>1, <1>2, <1>4, <1>5, <1>6, QuietStep

\* An event that is sent is about a trade there is.
LEMMA EmitStep ==
  ASSUME ChannelOK, \A l \in Legs : DOMAIN trades[l] \subseteq DOMAIN trades'[l],
         NEW e \in Events, e.trade \in DOMAIN trades[e.leg], Emit(e)
  PROVE  ChannelOK'
<1> DEFINE T == Events
<1>1. channel \in Seq(T) /\ Len(channel) <= Room /\ e \in T /\ \A d \in T : d.leg \in Legs
  BY DEF ChannelOK, Events
<1>2. \A k \in DOMAIN channel : channel[k].trade \in DOMAIN trades[channel[k].leg]
  BY DEF ChannelOK
<1>3. CASE channel' = channel
  BY <1>1, <1>2, <1>3 DEF ChannelOK
<1>4. CASE Len(channel) < Room /\ channel' = Append(channel, e)
  <2> HIDE DEF T
  <2>1. /\ channel' \in Seq(T) /\ Len(channel') <= Room
        /\ \A k \in DOMAIN channel' :
             channel'[k] \in T /\ (channel'[k] = e \/ (k \in DOMAIN channel /\ channel'[k] = channel[k]))
    BY <1>1, <1>4, BoundsAssumption
  <2>2. \A k \in DOMAIN channel' : channel'[k].trade \in DOMAIN trades'[channel'[k].leg]
    BY <1>1, <1>2, <2>1
  <2> QED BY <2>1, <2>2 DEF ChannelOK, T
<1> QED BY <1>3, <1>4 DEF Emit

LEMMA FailedTrade ==
  ASSUME NEW o \in Trades
  PROVE  LET t == [o EXCEPT !.reports = 2, !.failed = TRUE]
         IN /\ t \in Trades /\ t.size = o.size /\ t.sale = o.sale /\ t.failed = TRUE
            /\ t.told = o.told /\ t.reports = 2
<1> DEFINE u == [o EXCEPT !.reports = 2]
<1>1. /\ u \in Trades /\ u.size = o.size /\ u.sale = o.sale /\ u.told = o.told /\ u.reports = 2
  BY DEF Trades
<1>2. [o EXCEPT !.reports = 2, !.failed = TRUE] = [u EXCEPT !.failed = TRUE]
  OBVIOUS
<1> HIDE DEF u
<1> DEFINE t == [u EXCEPT !.failed = TRUE]
<1>3. /\ t \in Trades /\ t.size = u.size /\ t.sale = u.sale /\ t.told = u.told /\ t.reports = u.reports
      /\ t.failed = TRUE
  BY <1>1 DEF Trades
<1> HIDE DEF t
<1> QED BY <1>1, <1>2, <1>3 DEF t

\* A trade that is reported or fails stays on the books and in the wallet what
\* it was, but for what comes back.
LEMMA ReportedStep ==
  ASSUME ExitsInv, NEW l \in Legs, NEW i \in DOMAIN trades[l], NEW t \in Trades, NEW ok \in BOOLEAN,
         t.size = trades[l][i].size, t.failed => t.reports = 2,
         trades' = [trades EXCEPT ![l] = [trades[l] EXCEPT ![i] = t]],
         Emit([leg |-> l, trade |-> i, ok |-> ok]),
         wallet' \in [Legs -> Nat], undone' \in [Legs -> Nat],
         \A m \in Legs \ {l} : wallet'[m] = wallet[m] /\ undone'[m] = undone[m],
         wallet'[l] + Gone[t] <= wallet[l] + Gone[trades[l][i]],
         wallet'[l] + Unbooked[t] + undone[l] <= wallet[l] + Unbooked[trades[l][i]] + undone'[l],
         UNCHANGED <<books, kill, executor, cooling, exit, live, misread, paper>>
  PROVE  ExitsInv'
<1>1. trades \in [Legs -> Seq(Trades)] /\ trades[l] \in Seq(Trades) /\ trades[l][i] \in Trades
  BY TradesAre DEF ExitsInv, ExitsTypeOK
<1> DEFINE r == [trades[l] EXCEPT ![i] = t]
<1>2. Only(Trades, trades[l], r, i) /\ r[i] = t
  BY <1>1, TradeChanged
<1>3. trades'[l] = r /\ \A m \in Legs \ {l} : trades'[m] = trades[m]
  BY <1>1
<1>4. trades' = [trades EXCEPT ![l] = r]
  OBVIOUS
<1> HIDE DEF r
<1>5. r \in Seq(Trades) /\ DOMAIN r = DOMAIN trades[l]
  BY <1>2 DEF Only
<1>6. trades' \in [Legs -> Seq(Trades)]
  <2> DEFINE Q == Seq(Trades)
  <2>1. trades \in [Legs -> Q] /\ r \in Q
    BY <1>1, <1>5
  <2> HIDE DEF Q
  <2>2. trades' \in [Legs -> Q]
    BY <1>4, <2>1
  <2> QED BY <2>2 DEF Q
<1>7. \A m \in Legs : DOMAIN trades'[m] = DOMAIN trades[m]
  BY <1>3, <1>5
<1>8. ChannelOK'
  <2>1. [leg |-> l, trade |-> i, ok |-> ok] \in Events
    <3>1. i \in Nat
      BY <1>1
    <3> QED BY <3>1 DEF Events
  <2> QED BY <1>7, <2>1, ChannelIs, EmitStep
<1>9. FillOK'
  BY <1>7, ChannelIs DEF FillOK
<1>10. VenueOf(l)' /\ BooksOf(l)'
  <2>1. /\ Total(Gone, trades[l]) \in Nat /\ Total(Unbooked, trades[l]) \in Nat
        /\ Total(Gone, r) \in Nat /\ Total(Unbooked, r) \in Nat
        /\ Total(Gone, r) + Gone[trades[l][i]] = Total(Gone, trades[l]) + Gone[t]
        /\ Total(Unbooked, r) + Unbooked[trades[l][i]] = Total(Unbooked, trades[l]) + Unbooked[t]
    BY <1>2, TotalsChanged
  <2>2. /\ Gone[t] \in Nat /\ Unbooked[t] \in Nat /\ t.size \in Nat
        /\ Gone[trades[l][i]] \in Nat /\ Unbooked[trades[l][i]] \in Nat
    <3>1. \A x \in Trades : Gone[x] \in Nat /\ Unbooked[x] \in Nat /\ x.size \in Nat
      BY WeightIs
    <3> QED BY <1>1, <3>1
  <2>3. /\ wallet[l] \in Nat /\ wallet'[l] \in Nat /\ Size[l] \in Nat /\ shares[l] \in Nat
        /\ undone[l] \in Nat /\ undone'[l] \in Nat /\ misread[l] \in Nat /\ paper[l] \in Nat
    BY SizesAssumption DEF ExitsInv, ExitsTypeOK
  <2>4. wallet'[l] + Total(Gone, r) + 0 <= wallet[l] + Total(Gone, trades[l]) + 0
    <3>1. wallet'[l] + Gone[t] + 0 <= wallet[l] + Gone[trades[l][i]] + 0
      BY <2>2, <2>3
    <3> QED BY ONLY <2>1, <2>2, <2>3, <3>1
  <2>5. wallet'[l] + Total(Unbooked, r) + undone[l]
          <= wallet[l] + Total(Unbooked, trades[l]) + undone'[l]
    <3>1. wallet'[l] + Unbooked[t] + undone[l] <= wallet[l] + Unbooked[trades[l][i]] + undone'[l]
      OBVIOUS
    <3> QED BY ONLY <2>1, <2>2, <2>3, <3>1
  <2>6. \A j \in DOMAIN r : r[j].size <= Size[l] /\ (r[j].failed => r[j].reports = 2)
    <3>1. \A j \in DOMAIN trades[l] : trades[l][j].size <= Size[l]
                                      /\ (trades[l][j].failed => trades[l][j].reports = 2)
      BY DEF ExitsInv, VenueOf
    <3>2. r[i] = t /\ t.size <= Size[l]
      BY <1>2, <3>1
    <3>3. \A j \in DOMAIN r : j # i => r[j] = trades[l][j]
      BY <1>2 DEF Only
    <3> QED BY <1>5, <3>1, <3>2, <3>3
  <2>7. /\ wallet[l] + Total(Gone, trades[l]) <= Size[l]
        /\ wallet[l] + Total(Unbooked, trades[l]) <= shares[l] + undone[l] + misread[l] + paper[l]
    BY DEF ExitsInv, VenueOf, BooksOf
  <2>8. wallet'[l] + Total(Unbooked, r) <= shares[l] + undone'[l] + misread[l] + paper[l]
    BY <2>1, <2>3, <2>5, <2>7
  <2>9. VenueOf(l)'
    BY <1>3, <2>1, <2>3, <2>4, <2>6, <2>7 DEF VenueOf
  <2> QED BY <1>3, <2>8, <2>9 DEF BooksOf, books
<1>11. ASSUME NEW m \in Legs, m # l PROVE VenueOf(m)' /\ BooksOf(m)'
  BY <1>3, <1>11 DEF ExitsInv, VenueOf, BooksOf, books
<1>12. ASSUME NEW m \in Legs PROVE LedgerOf(m)' /\ PolledOf(m)'
  BY DEF ExitsInv, LedgerOf, PolledOf, LiveMode, books, kill
<1>13. \A m \in Legs : wallet'[m] <= Size[m]
  <2> SUFFICES ASSUME NEW m \in Legs PROVE wallet'[m] <= Size[m]
    OBVIOUS
  <2>1. CASE m # l
    BY <2>1 DEF ExitsInv, ExitsTypeOK
  <2>2. CASE m = l
    <3>1. Total(Gone, r) \in Nat /\ wallet'[l] + Total(Gone, r) <= Size[l]
      BY <1>2, <1>3, <1>10, TotalsChanged DEF VenueOf
    <3> QED BY <2>2, <3>1, SizesAssumption
  <2> QED BY <2>1, <2>2
<1>14. ExitsTypeOK'
  BY <1>6, <1>8, <1>9, <1>13
  DEF ExitsInv, ExitsTypeOK, ChannelOK, FillOK, books, kill
<1>15. Waiting'
  BY DEF ExitsInv, Waiting, LiveMode, kill
<1> QED BY <1>10, <1>11, <1>12, <1>14, <1>15 DEF ExitsInv

LEMMA ReportStep ==
  ASSUME ExitsInv, NEW l \in Legs, NEW i \in DOMAIN trades[l], Report(l, i)
  PROVE  ExitsInv'
<1>1. trades \in [Legs -> Seq(Trades)] /\ trades[l][i] \in Trades
  BY TradesAre DEF ExitsInv, ExitsTypeOK
<1> DEFINE o == trades[l][i]
           t == [o EXCEPT !.reports = @ + 1]
<1>2. o.reports < 2 /\ o.failed = FALSE
  BY <1>1, WeightIs DEF Report, ExitsInv, VenueOf
<1>3. t \in Trades /\ t.size = o.size /\ t.sale = o.sale /\ t.failed = FALSE /\ t.told = o.told
  BY <1>1, <1>2 DEF Trades
<1>4. trades' = [trades EXCEPT ![l] = [trades[l] EXCEPT ![i] = t]]
  BY DEF Report
<1> HIDE DEF t
<1>5. Gone[t] = Gone[o] /\ Unbooked[t] = Unbooked[o] /\ Gone[o] \in Nat /\ Unbooked[o] \in Nat
  BY <1>1, <1>2, <1>3, WeightIs
<1>6. /\ UNCHANGED <<books, wallet, kill, executor, cooling, exit, live, causes>>
      /\ Emit([leg |-> l, trade |-> i, ok |-> TRUE])
  BY DEF Report
<1>7. wallet \in [Legs -> Nat] /\ undone \in [Legs -> Nat]
  BY DEF ExitsInv, ExitsTypeOK
<1>8. wallet' = wallet /\ undone' = undone /\ UNCHANGED <<misread, paper>>
  BY <1>6 DEF causes
<1>9. /\ wallet'[l] + Gone[t] <= wallet[l] + Gone[o]
      /\ wallet'[l] + Unbooked[t] + undone[l] <= wallet[l] + Unbooked[o] + undone'[l]
  BY <1>5, <1>7, <1>8
<1> QED BY <1>3, <1>4, <1>6, <1>7, <1>8, <1>9, ReportedStep

LEMMA FailStep ==
  ASSUME ExitsInv, NEW l \in Legs, NEW i \in DOMAIN trades[l], Fail(l, i)
  PROVE  ExitsInv'
<1>1. trades \in [Legs -> Seq(Trades)] /\ trades[l][i] \in Trades
  BY TradesAre DEF ExitsInv, ExitsTypeOK
<1> DEFINE o == trades[l][i]
           t == [o EXCEPT !.reports = 2, !.failed = TRUE]
<1>2. o.reports = 1 /\ o.failed = FALSE /\ o.sale
  BY <1>1, WeightIs DEF Fail, ExitsInv, VenueOf
<1>3. /\ t \in Trades /\ t.size = o.size /\ t.sale = o.sale /\ t.failed = TRUE /\ t.told = o.told
      /\ t.reports = 2
  BY <1>1, FailedTrade
<1>4. trades' = [trades EXCEPT ![l] = [trades[l] EXCEPT ![i] = t]]
  BY DEF Fail
<1>5. /\ wallet' = [wallet EXCEPT ![l] = @ + o.size]
      /\ undone' = IF o.told THEN [undone EXCEPT ![l] = @ + o.size] ELSE undone
      /\ Emit([leg |-> l, trade |-> i, ok |-> FALSE])
      /\ UNCHANGED <<books, kill, executor, cooling, exit, live, misread, paper>>
  BY DEF Fail
<1> HIDE DEF t
<1>6. /\ Gone[t] = 0 /\ Gone[o] = o.size /\ Unbooked[t] = 0 /\ o.size \in Nat
      /\ Unbooked[o] = IF o.told THEN 0 ELSE o.size
  BY <1>1, <1>2, <1>3, WeightIs
<1>7. wallet \in [Legs -> Nat] /\ undone \in [Legs -> Nat]
  BY DEF ExitsInv, ExitsTypeOK
<1> HIDE DEF o
<1>8. /\ wallet' \in [Legs -> Nat] /\ undone' \in [Legs -> Nat]
      /\ \A m \in Legs \ {l} : wallet'[m] = wallet[m] /\ undone'[m] = undone[m]
      /\ wallet'[l] = wallet[l] + o.size
      /\ undone'[l] = IF o.told THEN undone[l] + o.size ELSE undone[l]
  BY <1>5, <1>6, <1>7
<1>9. /\ wallet'[l] + Gone[t] <= wallet[l] + Gone[o]
      /\ wallet'[l] + Unbooked[t] + undone[l] <= wallet[l] + Unbooked[o] + undone'[l]
  BY <1>6, <1>7, <1>8
<1> QED BY <1>3, <1>4, <1>5, <1>8, <1>9, ReportedStep DEF o

-----------------------------------------------------------------------------
(* LiveExits: what is booked.                                              *)

LEMMA SmallerOfTwo ==
  ASSUME NEW a \in Nat, NEW b \in Nat
  PROVE  Min({a, b}) \in Nat /\ Min({a, b}) = IF a <= b THEN a ELSE b
BY MinOfTwo

LEMMA SaleBooked ==
  ASSUME booked \in [Legs -> Nat], keys \subseteq {"exit", "liquidate"} \X Legs,
         NEW key \in {"exit", "liquidate"}, NEW amount \in [Legs -> Nat],
         LedgerSale(key, amount)
  PROVE  /\ booked' \in [Legs -> Nat] /\ keys' \subseteq {"exit", "liquidate"} \X Legs
         /\ \A l \in Legs :
              /\ <<key, l>> \in keys => booked'[l] = booked[l]
              /\ booked'[l] <= booked[l] + amount[l]
              /\ <<key, l>> \notin keys' => booked'[l] = booked[l] /\ <<key, l>> \notin keys /\ amount[l] = 0
<1> DEFINE new == {l \in Legs : amount[l] > 0 /\ <<key, l>> \notin keys}
<1>1. /\ booked' = [l \in Legs |-> IF l \in new THEN booked[l] + amount[l] ELSE booked[l]]
      /\ keys' = keys \cup {<<key, l>> : l \in new}
  BY DEF LedgerSale
<1>2. \A l \in Legs : l \in new <=> amount[l] > 0 /\ <<key, l>> \notin keys
  OBVIOUS
<1>3. new \subseteq Legs
  OBVIOUS
<1> HIDE DEF new
<1>4. keys' \subseteq {"exit", "liquidate"} \X Legs
  BY <1>1, <1>3
<1>5. \A l \in Legs : l \in new => <<key, l>> \in keys'
  BY <1>1
<1>6. \A l \in Legs : <<key, l>> \in keys => <<key, l>> \in keys'
  BY <1>1
<1> QED BY <1>1, <1>2, <1>4, <1>5, <1>6

\* The invariant over the end of an attempt, or a sale on paper.
LEMMA BookedStep ==
  ASSUME ExitsInv, UNCHANGED <<wallet, kill, executor, channel, live>>,
         exit' = NoExit, cooling' \in BOOLEAN, shares' \in [Legs -> Nat],
         \A l \in Legs : shares'[l] <= shares[l],
         isOpen' = (\E l \in Legs : shares'[l] > 0),
         booked' \in [Legs -> Nat], keys' \subseteq {"exit", "liquidate"} \X Legs,
         trades' \in [Legs -> Seq(Trades)],
         undone' \in [Legs -> Nat], misread' \in [Legs -> Nat], paper' \in [Legs -> Nat],
         \A l \in Legs : DOMAIN trades'[l] = DOMAIN trades[l],
         \A l \in Legs : VenueOf(l)' /\ BooksOf(l)' /\ LedgerOf(l)'
  PROVE  ExitsInv'
<1>1. /\ shares \in [Legs -> Nat] /\ Size \in [Legs -> Nat] /\ wallet \in [Legs -> Nat]
      /\ \A l \in Legs : shares[l] <= Size[l] /\ wallet[l] <= Size[l]
  BY SizesAssumption DEF ExitsInv, ExitsTypeOK
<1>2. \A l \in Legs : shares'[l] <= Size[l]
  BY <1>1
<1>3. Waiting'
  BY NoExitType DEF Waiting, NoExit
<1>4. /\ exit'.busy \in BOOLEAN /\ exit'.pending \subseteq Legs /\ exit'.polled = {}
      /\ exit'.asked \in [Legs -> Nat] /\ exit'.polls \in [Legs -> Nat]
      /\ \A l \in Legs : exit'.fill[l] = 0 /\ exit'.polls[l] = 0
  BY DEF NoExit
<1>5. \A l \in Legs : PolledOf(l)'
  BY <1>1, <1>2, <1>4 DEF PolledOf
<1>6. ChannelOK'
  <2>1. channel \in Seq(Events) /\ Len(channel) <= Room /\ channel' = channel
    BY ChannelIs DEF ChannelOK
  <2>2. \A k \in DOMAIN channel : channel[k].leg \in Legs
                                  /\ channel[k].trade \in DOMAIN trades[channel[k].leg]
    <3>1. \A k \in DOMAIN channel : channel[k] \in Events
      BY <2>1
    <3>2. \A e \in Events : e.leg \in Legs
      BY DEF Events
    <3> QED BY <3>1, <3>2, ChannelIs DEF ChannelOK
  <2>3. \A k \in DOMAIN channel : channel[k].trade \in DOMAIN trades'[channel[k].leg]
    BY <2>2
  <2> QED BY <2>1, <2>3 DEF ChannelOK
<1>7. /\ executor' \in BOOLEAN /\ shadow' \in BOOLEAN /\ live' \in BOOLEAN
      /\ request' \in BOOLEAN /\ killed' \in BOOLEAN /\ isOpen' \in BOOLEAN
      /\ wallet' \in [Legs -> Nat] /\ \A l \in Legs : wallet'[l] <= Size[l]
  BY <1>1 DEF ExitsInv, ExitsTypeOK, kill
<1>8. ExitsTypeOK'
  BY <1>2, <1>4, <1>6, <1>7 DEF ExitsTypeOK, ChannelOK
<1> QED BY <1>3, <1>5, <1>8 DEF ExitsInv

LEMMA LiquidateStep ==
  ASSUME ExitsInv, Liquidate
  PROVE  ExitsInv'
<1> DEFINE amount == [l \in Legs |-> Held(l)]
<1>1. /\ UNCHANGED <<venue, kill, executor, cooling, channel, exit, live, undone, misread>>
      /\ ~exit.busy /\ ~LiveMode
      /\ shares' = [l \in Legs |-> 0] /\ isOpen' = FALSE
      /\ LedgerSale("liquidate", amount)
      /\ paper' = [l \in Legs |-> paper[l] + shares[l]]
  BY DEF Liquidate
<1>2. /\ shares \in [Legs -> Nat] /\ booked \in [Legs -> Nat] /\ cooling \in BOOLEAN
      /\ keys \subseteq {"exit", "liquidate"} \X Legs /\ Size \in [Legs -> Nat]
      /\ undone \in [Legs -> Nat] /\ misread \in [Legs -> Nat] /\ paper \in [Legs -> Nat]
      /\ trades \in [Legs -> Seq(Trades)] /\ wallet \in [Legs -> Nat]
  BY SizesAssumption DEF ExitsInv, ExitsTypeOK
<1>3. amount \in [Legs -> Nat] /\ \A l \in Legs : amount[l] = shares[l]
  BY <1>2 DEF Held
<1> HIDE DEF amount
<1>4. /\ booked' \in [Legs -> Nat] /\ keys' \subseteq {"exit", "liquidate"} \X Legs
      /\ \A l \in Legs : booked'[l] <= booked[l] + amount[l]
  BY <1>1, <1>2, <1>3, SaleBooked
<1>5. /\ shares' \in [Legs -> Nat] /\ \A l \in Legs : shares'[l] = 0 /\ shares'[l] <= shares[l]
      /\ paper' \in [Legs -> Nat] /\ \A l \in Legs : paper'[l] = paper[l] + shares[l]
  BY <1>1, <1>2
<1>6. isOpen' = (\E l \in Legs : shares'[l] > 0)
  <2>1. ~ \E l \in Legs : shares'[l] > 0
    BY <1>5
  <2> QED BY <1>1, <2>1
<1>7. exit' = NoExit
  BY <1>1 DEF ExitsInv, Waiting
<1>8. ~LiveMode'
  BY <1>1 DEF LiveMode, kill
<1>9. ASSUME NEW l \in Legs PROVE VenueOf(l)' /\ BooksOf(l)' /\ LedgerOf(l)'
  <2>1. VenueOf(l)'
    BY <1>1 DEF ExitsInv, VenueOf, venue
  <2>2. BooksOf(l)'
    <3>1. wallet[l] + Total(Unbooked, trades[l]) <= shares[l] + undone[l] + misread[l] + paper[l]
      BY DEF ExitsInv, BooksOf
    <3>2. /\ Total(Unbooked, trades[l]) \in Nat /\ wallet[l] \in Nat /\ shares[l] \in Nat
          /\ undone[l] \in Nat /\ misread[l] \in Nat /\ paper[l] \in Nat
      BY <1>2, TradesAre
    <3>3. shares'[l] = 0 /\ paper'[l] = paper[l] + shares[l]
      BY <1>5
    <3>4. wallet[l] + Total(Unbooked, trades[l]) <= shares'[l] + undone[l] + misread[l] + paper'[l]
      BY ONLY <3>1, <3>2, <3>3
    <3> QED BY <1>1, <3>4 DEF BooksOf, venue
  <2>3. LedgerOf(l)'
    <3>1. booked[l] + shares[l] <= Size[l] /\ booked'[l] <= booked[l] + shares[l]
      BY <1>3, <1>4 DEF ExitsInv, LedgerOf
    <3>2. booked[l] \in Nat /\ booked'[l] \in Nat /\ shares[l] \in Nat /\ Size[l] \in Nat
      BY <1>2, <1>4
    <3>3. shares'[l] = 0
      BY <1>5
    <3>4. booked'[l] + shares'[l] <= Size[l]
      BY ONLY <3>1, <3>2, <3>3
    <3> QED BY <1>8, <3>4 DEF LedgerOf
  <2> QED BY <2>1, <2>2, <2>3
<1> QED BY <1>1, <1>2, <1>4, <1>5, <1>6, <1>7, <1>9, BookedStep DEF venue

\* What an attempt takes off a leg: no more than a leg still unbooked was bought.
LEMMA ConfirmedIs ==
  ASSUME ExitsInv, NEW l \in Legs
  PROVE  /\ Confirmed(l) \in Nat /\ Cleared(l) \in Nat
         /\ Cleared(l) = IF Confirmed(l) <= shares[l] THEN Confirmed(l) ELSE shares[l]
         /\ shares[l] = Size[l] => Confirmed(l) <= Size[l]
<1>1. /\ exit \in ExitType /\ exit.fill[l] \in {0} \cup DOMAIN trades[l]
      /\ trades \in [Legs -> Seq(Trades)] /\ shares[l] \in Nat /\ Size[l] \in Nat
  BY SizesAssumption DEF ExitsInv, ExitsTypeOK, Waiting
<1>2. exit.polls[l] \in Nat /\ exit.polls[l] + shares[l] <= Size[l]
  BY <1>1 DEF ExitsInv, PolledOf, ExitType
<1>3. Confirmed(l) \in Nat /\ (shares[l] = Size[l] => Confirmed(l) <= Size[l])
  <2>1. CASE exit.fill[l] = 0
    BY <1>1, <1>2, <2>1 DEF Confirmed
  <2>2. CASE exit.fill[l] # 0
    <3>1. exit.fill[l] \in DOMAIN trades[l]
      BY <1>1, <2>2
    <3>2. trades[l][exit.fill[l]] \in Trades
      BY <1>1, <3>1, TradesAre
    <3>3. trades[l][exit.fill[l]].size \in Nat /\ trades[l][exit.fill[l]].size <= Size[l]
      BY <3>1, <3>2, WeightIs DEF ExitsInv, VenueOf
    <3> QED BY <2>2, <3>3 DEF Confirmed
  <2> QED BY <2>1, <2>2
<1>4. Cleared(l) \in Nat /\ Cleared(l) = IF Confirmed(l) <= shares[l] THEN Confirmed(l) ELSE shares[l]
  BY <1>1, <1>3, SmallerOfTwo DEF Cleared
<1> QED BY <1>3, <1>4

\* A sale is marked as told.
LEMMA ToldTrade ==
  ASSUME NEW o \in Trades, o.sale, ~o.told
  PROVE  LET t == [o EXCEPT !.told = TRUE]
         IN /\ t \in Trades /\ t.size = o.size /\ t.failed = o.failed /\ t.reports = o.reports
            /\ Gone[t] = Gone[o] /\ Gone[o] \in Nat
            /\ Unbooked[t] = 0 /\ Unbooked[o] = IF o.failed THEN 0 ELSE o.size
<1> DEFINE t == [o EXCEPT !.told = TRUE]
<1>1. t \in Trades /\ t.size = o.size /\ t.failed = o.failed /\ t.reports = o.reports /\ t.told /\ t.sale
  BY DEF Trades
<1> HIDE DEF t
<1>2. /\ Gone[t] = Gone[o] /\ Gone[o] \in Nat
      /\ Unbooked[t] = 0 /\ Unbooked[o] = IF o.failed THEN 0 ELSE o.size
  BY <1>1, WeightIs
<1> QED BY <1>1, <1>2 DEF t

\* The trades of a leg after an attempt was booked.
BookedTrades(l) ==
  IF Right(l) THEN [trades[l] EXCEPT ![exit.fill[l]].told = TRUE] ELSE trades[l]

LEMMA BookedTradesAre ==
  ASSUME ExitsInv, NEW l \in Legs, NEW r, r = BookedTrades(l)
  PROVE  /\ r \in Seq(Trades) /\ DOMAIN r = DOMAIN trades[l]
         /\ Total(Gone, r) = Total(Gone, trades[l]) /\ Total(Unbooked, r) \in Nat
         /\ \A i \in DOMAIN r :
              r[i].size <= Size[l] /\ (r[i].failed => r[i].reports = 2)
         /\ ~Right(l) => r = trades[l]
         /\ Right(l) =>
              Total(Unbooked, r) + (IF trades[l][exit.fill[l]].failed THEN 0 ELSE Confirmed(l))
                = Total(Unbooked, trades[l])
<1>1. /\ trades \in [Legs -> Seq(Trades)] /\ exit.fill[l] \in {0} \cup DOMAIN trades[l]
      /\ trades[l] \in Seq(Trades) /\ \A i \in DOMAIN trades[l] : trades[l][i] \in Trades
      /\ Total(Gone, trades[l]) \in Nat /\ Total(Unbooked, trades[l]) \in Nat
  BY TradesAre DEF ExitsInv, ExitsTypeOK
<1>2. \A i \in DOMAIN trades[l] :
        trades[l][i].size <= Size[l] /\ (trades[l][i].failed => trades[l][i].reports = 2)
  BY DEF ExitsInv, VenueOf
<1>3. CASE ~Right(l)
  BY <1>1, <1>2, <1>3 DEF BookedTrades
<1>4. CASE Right(l)
  <2> DEFINE i == exit.fill[l]
             o == trades[l][i]
             t == [o EXCEPT !.told = TRUE]
  <2>1. i \in DOMAIN trades[l] /\ o \in Trades /\ o.sale /\ ~o.told /\ Confirmed(l) = o.size
    BY <1>1, <1>4 DEF Right, Confirmed
  <2>2. r = [trades[l] EXCEPT ![i] = t]
    BY <1>4 DEF BookedTrades
  <2> HIDE DEF i, o
  <2>3. /\ t \in Trades /\ t.size = o.size /\ t.failed = o.failed /\ t.reports = o.reports
        /\ Gone[t] = Gone[o] /\ Gone[o] \in Nat
        /\ Unbooked[t] = 0 /\ Unbooked[o] = IF o.failed THEN 0 ELSE o.size
        /\ o.size \in Nat
    BY <2>1, ToldTrade, WeightIs
  <2> HIDE DEF t
  <2>4. Only(Trades, trades[l], r, i) /\ r[i] = t
    BY <1>1, <2>1, <2>2, <2>3, TradeChanged
  <2>5. /\ Total(Gone, r) \in Nat /\ Total(Unbooked, r) \in Nat
        /\ Total(Gone, r) + Gone[o] = Total(Gone, trades[l]) + Gone[t]
        /\ Total(Unbooked, r) + Unbooked[o] = Total(Unbooked, trades[l]) + Unbooked[t]
    BY <2>4, TotalsChanged DEF o
  <2>6. Total(Gone, r) = Total(Gone, trades[l])
    BY ONLY <1>1, <2>3, <2>5
  <2>7. Total(Unbooked, r) + (IF o.failed THEN 0 ELSE o.size) = Total(Unbooked, trades[l])
    BY ONLY <1>1, <2>3, <2>5
  <2>8. r \in Seq(Trades) /\ DOMAIN r = DOMAIN trades[l]
    BY <2>4 DEF Only
  <2>9. \A j \in DOMAIN r : r[j].size <= Size[l] /\ (r[j].failed => r[j].reports = 2)
    <3>1. \A j \in DOMAIN r : j # i => r[j] = trades[l][j]
      BY <2>4 DEF Only
    <3>2. o.size <= Size[l] /\ (o.failed => o.reports = 2)
      BY <1>2, <2>1 DEF o
    <3> QED BY <1>2, <2>3, <2>4, <2>8, <3>1, <3>2
  <2> QED BY <1>4, <2>1, <2>5, <2>6, <2>7, <2>8, <2>9 DEF i, o
<1> QED BY <1>3, <1>4

LEMMA BookStep ==
  ASSUME ExitsInv, Book
  PROVE  ExitsInv'
<1> DEFINE amount == [l \in Legs |-> Confirmed(l)]
           none == \A l \in Legs : Confirmed(l) = 0
<1>1. /\ exit.busy /\ exit' = NoExit
      /\ UNCHANGED <<wallet, kill, executor, channel, live, paper>>
      /\ trades' = [l \in Legs |-> BookedTrades(l)]
      /\ undone' = [l \in Legs |-> IF Right(l) /\ trades[l][exit.fill[l]].failed
                                   THEN undone[l] + Confirmed(l) ELSE undone[l]]
      /\ misread' = [l \in Legs |-> IF Right(l) THEN misread[l] ELSE misread[l] + Cleared(l)]
      /\ none => cooling' \in BOOLEAN /\ shares' = shares /\ isOpen' = isOpen
                 /\ booked' = booked /\ keys' = keys
      /\ ~none => /\ shares' = [l \in Legs |-> shares[l] - Cleared(l)]
                  /\ isOpen' = (\E l \in Legs : shares'[l] > 0)
                  /\ LedgerSale("exit", amount) /\ cooling' = cooling
  BY DEF Book, BookedTrades, ExitsInv, ExitsTypeOK, books
<1>2. /\ LiveMode /\ shares \in [Legs -> Nat] /\ booked \in [Legs -> Nat] /\ wallet \in [Legs -> Nat]
      /\ undone \in [Legs -> Nat] /\ misread \in [Legs -> Nat] /\ paper \in [Legs -> Nat]
      /\ keys \subseteq {"exit", "liquidate"} \X Legs /\ cooling \in BOOLEAN
      /\ Size \in [Legs -> Nat] /\ isOpen = (\E l \in Legs : shares[l] > 0)
  BY <1>1, SizesAssumption DEF ExitsInv, ExitsTypeOK, Waiting
<1>3. \A l \in Legs :
        /\ Confirmed(l) \in Nat /\ Cleared(l) \in Nat
        /\ Cleared(l) = IF Confirmed(l) <= shares[l] THEN Confirmed(l) ELSE shares[l]
        /\ shares[l] = Size[l] => Confirmed(l) <= Size[l]
  BY ConfirmedIs
<1>4. amount \in [Legs -> Nat] /\ \A l \in Legs : amount[l] = Confirmed(l)
  BY <1>3
<1> HIDE DEF amount
<1>5. \A l \in Legs : <<"exit", l>> \notin keys => shares[l] = Size[l] /\ booked[l] = 0
  BY <1>2 DEF ExitsInv, LedgerOf
<1>6. \A l \in Legs : booked[l] + shares[l] <= Size[l]
  BY DEF ExitsInv, LedgerOf
<1>7. \A l \in Legs : shares'[l] = shares[l] - Cleared(l)
  <2>1. CASE none
    <3>1. \A l \in Legs : Cleared(l) = 0
      BY <1>2, <1>3, <2>1
    <3>2. shares' = shares /\ \A l \in Legs : shares[l] \in Nat
      BY <1>1, <1>2, <2>1
    <3> QED BY ONLY <3>1, <3>2
  <2>2. CASE ~none
    BY <1>1, <2>2
  <2> QED BY <2>1, <2>2
<1>8. /\ shares' \in [Legs -> Nat] /\ \A l \in Legs : shares'[l] <= shares[l]
      /\ isOpen' = (\E l \in Legs : shares'[l] > 0) /\ cooling' \in BOOLEAN
  <2>1. CASE none
    <3>1. shares' = shares /\ isOpen' = isOpen /\ cooling' \in BOOLEAN
      BY <1>1, <2>1
    <3>2. \A l \in Legs : shares[l] <= shares[l]
      BY <1>2
    <3> QED BY <1>2, <3>1, <3>2
  <2>2. CASE ~none
    <3>1. \A l \in Legs : shares[l] - Cleared(l) \in Nat /\ shares[l] - Cleared(l) <= shares[l]
      BY <1>2, <1>3
    <3> QED BY <1>1, <1>2, <2>2, <3>1
  <2> QED BY <2>1, <2>2
<1>9. /\ booked' \in [Legs -> Nat] /\ keys' \subseteq {"exit", "liquidate"} \X Legs
      /\ \A l \in Legs :
           /\ <<"exit", l>> \in keys => booked'[l] = booked[l]
           /\ booked'[l] <= booked[l] + Confirmed(l)
           /\ <<"exit", l>> \notin keys' =>
                booked'[l] = booked[l] /\ <<"exit", l>> \notin keys /\ Confirmed(l) = 0
  <2>1. CASE none
    <3>1. booked' = booked /\ keys' = keys /\ \A l \in Legs : Confirmed(l) = 0
      BY <1>1, <2>1
    <3>2. \A l \in Legs : booked[l] \in Nat
      BY <1>2
    <3> QED BY <1>2, <3>1, <3>2
  <2>2. CASE ~none
    BY <1>1, <1>2, <1>4, <2>2, SaleBooked
  <2> QED BY <2>1, <2>2
<1>10. trades' \in [Legs -> Seq(Trades)] /\ \A l \in Legs : DOMAIN trades'[l] = DOMAIN trades[l]
  <2> DEFINE Q == Seq(Trades)
  <2>1. \A l \in Legs : BookedTrades(l) \in Q /\ DOMAIN BookedTrades(l) = DOMAIN trades[l]
    BY BookedTradesAre
  <2> HIDE DEF Q
  <2>2. trades' \in [Legs -> Q] /\ \A l \in Legs : DOMAIN trades'[l] = DOMAIN trades[l]
    BY <1>1, <2>1
  <2> QED BY <2>2 DEF Q
<1>11. /\ undone' \in [Legs -> Nat] /\ misread' \in [Legs -> Nat] /\ paper' \in [Legs -> Nat]
  BY <1>1, <1>2, <1>3
<1>12. ASSUME NEW l \in Legs PROVE VenueOf(l)' /\ BooksOf(l)' /\ LedgerOf(l)'
  <2> DEFINE r == BookedTrades(l)
             f == trades[l][exit.fill[l]].failed
  <2>1. trades'[l] = r
    BY <1>1
  <2> HIDE DEF r
  <2>2. /\ Total(Gone, r) = Total(Gone, trades[l]) /\ Total(Unbooked, r) \in Nat
        /\ \A i \in DOMAIN r : r[i].size <= Size[l] /\ (r[i].failed => r[i].reports = 2)
        /\ ~Right(l) => Total(Unbooked, r) = Total(Unbooked, trades[l])
        /\ Right(l) =>
             Total(Unbooked, r) + (IF f THEN 0 ELSE Confirmed(l)) = Total(Unbooked, trades[l])
    BY BookedTradesAre DEF r
  <2>3. VenueOf(l)'
    BY <1>1, <2>1, <2>2 DEF ExitsInv, VenueOf
  <2>4. /\ wallet[l] \in Nat /\ shares[l] \in Nat /\ undone[l] \in Nat /\ misread[l] \in Nat
        /\ paper[l] \in Nat /\ Size[l] \in Nat /\ booked[l] \in Nat /\ booked'[l] \in Nat
        /\ Confirmed(l) \in Nat /\ Cleared(l) \in Nat
        /\ Cleared(l) = IF Confirmed(l) <= shares[l] THEN Confirmed(l) ELSE shares[l]
        /\ Total(Unbooked, trades[l]) \in Nat
    BY <1>2, <1>3, <1>9, TradesAre DEF ExitsInv, ExitsTypeOK
  <2>5. BooksOf(l)'
    <3>1. wallet[l] + Total(Unbooked, trades[l]) <= shares[l] + undone[l] + misread[l] + paper[l]
      BY DEF ExitsInv, BooksOf
    <3>2. /\ shares'[l] = shares[l] - Cleared(l)
          /\ undone'[l] = IF Right(l) /\ f THEN undone[l] + Confirmed(l) ELSE undone[l]
          /\ misread'[l] = IF Right(l) THEN misread[l] ELSE misread[l] + Cleared(l)
      BY <1>1, <1>7
    <3> HIDE DEF f
    <3>3. wallet[l] + Total(Unbooked, r) <= shares'[l] + undone'[l] + misread'[l] + paper[l]
      <4>1. CASE Right(l) /\ f
        BY ONLY <2>2, <2>4, <3>1, <3>2, <4>1
      <4>2. CASE Right(l) /\ ~f
        BY ONLY <2>2, <2>4, <3>1, <3>2, <4>2
      <4>3. CASE ~Right(l)
        BY ONLY <2>2, <2>4, <3>1, <3>2, <4>3
      <4> QED BY <4>1, <4>2, <4>3
    <3> QED BY <1>1, <2>1, <3>3 DEF BooksOf
  <2>6. LedgerOf(l)'
    <3>1. /\ shares'[l] = shares[l] - Cleared(l) /\ booked[l] + shares[l] <= Size[l]
          /\ <<"exit", l>> \in keys => booked'[l] = booked[l]
          /\ booked'[l] <= booked[l] + Confirmed(l)
          /\ <<"exit", l>> \notin keys => shares[l] = Size[l] /\ booked[l] = 0
          /\ shares[l] = Size[l] => Confirmed(l) <= Size[l]
      BY <1>3, <1>5, <1>6, <1>7, <1>9
    <3>2. booked'[l] + shares'[l] <= Size[l]
      BY ONLY <2>4, <3>1
    <3>3. <<"exit", l>> \notin keys' =>
            booked'[l] = booked[l] /\ <<"exit", l>> \notin keys /\ Confirmed(l) = 0
      BY <1>9
    <3>4. ASSUME <<"exit", l>> \notin keys' PROVE shares'[l] = Size[l] /\ booked'[l] = 0
      <4>1. booked'[l] = 0 /\ Confirmed(l) = 0 /\ shares[l] = Size[l]
        BY <3>1, <3>3, <3>4
      <4>2. Cleared(l) = 0
        BY ONLY <2>4, <4>1
      <4> QED BY ONLY <2>4, <3>1, <4>1, <4>2
    <3> QED BY <3>2, <3>4 DEF LedgerOf
  <2> QED BY <2>3, <2>5, <2>6
<1> QED BY <1>1, <1>8, <1>9, <1>10, <1>11, <1>12, BookedStep

-----------------------------------------------------------------------------
(* LiveExits: what a sale sells.                                           *)

Within(s, cap) ==
  s \in Seq(Trades) /\ \A i \in DOMAIN s : s[i].size <= cap /\ (s[i].failed => s[i].reports = 2)

\* The trades r of a leg are those of s and some that sell n shares.
Further(s, r, n) ==
  /\ DOMAIN s \subseteq DOMAIN r
  /\ Total(Gone, r) = Total(Gone, s) + n
  /\ Total(Unbooked, r) = Total(Unbooked, s) + n

LEMMA WithinTotals ==
  ASSUME NEW s, NEW cap, Within(s, cap)
  PROVE  Total(Gone, s) \in Nat /\ Total(Unbooked, s) \in Nat
<1> DEFINE T == Trades
<1>1. Gone \in [T -> Nat] /\ Unbooked \in [T -> Nat] /\ s \in Seq(T)
  BY Weights DEF Within
<1> HIDE DEF T
<1> QED BY <1>1, TotalType

\* A fresh trade that sells counts in full.
LEMMA SaleTrade ==
  ASSUME NEW n \in Nat
  PROVE  LET t == Sale(n)
         IN t \in Trades /\ t.size = n /\ ~t.failed /\ Gone[t] = n /\ Unbooked[t] = n
<1> DEFINE t == Sale(n)
<1>1. t \in Trades /\ t.size = n /\ ~t.failed /\ t.sale /\ ~t.told
  BY DEF Sale, Trade, Trades
<1> HIDE DEF t
<1>2. Gone[t] = n /\ Unbooked[t] = n
  BY <1>1, WeightIs
<1> QED BY <1>1, <1>2 DEF t

\* One further trade that sells n shares of a leg.
LEMMA OneSale ==
  ASSUME NEW cap \in Nat, NEW s, Within(s, cap), NEW n \in Nat, n <= cap
  PROVE  Within(Append(s, Sale(n)), cap) /\ Further(s, Append(s, Sale(n)), n)
<1> DEFINE T == Trades
           t == Sale(n)
           r == Append(s, t)
<1>1. /\ t \in T /\ t.size = n /\ ~t.failed /\ Gone[t] = n /\ Unbooked[t] = n
      /\ Gone \in [T -> Nat] /\ Unbooked \in [T -> Nat] /\ s \in Seq(T)
  BY SaleTrade, Weights DEF Within
<1>2. \A i \in DOMAIN s : s[i].size <= cap /\ (s[i].failed => s[i].reports = 2)
  BY DEF Within
<1> HIDE DEF T, t
<1>3. Total(Gone, Append(s, t)) = Total(Gone, s) + Gone[t]
  BY <1>1, TotalAppend
<1>4. Total(Unbooked, Append(s, t)) = Total(Unbooked, s) + Unbooked[t]
  BY <1>1, TotalAppend
<1>5. /\ r \in Seq(T) /\ DOMAIN s \subseteq DOMAIN r
      /\ \A i \in DOMAIN r : (i \in DOMAIN s /\ r[i] = s[i]) \/ r[i] = t
  BY ONLY <1>1
<1> HIDE DEF r
<1>6. \A i \in DOMAIN r : r[i].size <= cap /\ (r[i].failed => r[i].reports = 2)
  BY <1>1, <1>2, <1>5
<1>7. Within(r, cap)
  BY <1>5, <1>6 DEF Within, T
<1>8. Further(s, r, n)
  BY <1>1, <1>3, <1>4, <1>5 DEF Further, r
<1> QED BY <1>7, <1>8 DEF r, t

LEMMA SoldOne == ASSUME NEW n \in Nat PROVE SoldIn(<<Sale(n)>>) = n
<1> DEFINE f == <<Sale(n)>>
           g == [i \in DOMAIN f |-> f[i].size]
<1>1. DOMAIN f = {1} /\ g[1] = n
  BY SaleTrade
<1>2. SoldIn(f) = SumFunctionOnSet(g, DOMAIN f)
  BY DEF SoldIn, SumFunction
<1> HIDE DEF f, g
<1>3. IsFiniteSet({1})
  BY FS_Singleton
<1>4. \A x \in {1} : g[x] \in Int
  BY <1>1
<1>5. SumFunctionOnSet(g, {1}) = g[1]
  BY <1>3, <1>4, SumSingle
<1>6. SoldIn(f) = n
  BY <1>1, <1>2, <1>5
<1> QED BY <1>6 DEF f

LEMMA SoldTwo ==
  ASSUME NEW n \in Nat, NEW m \in Nat
  PROVE  SoldIn(<<Sale(n), Sale(m)>>) = n + m
<1> DEFINE f == <<Sale(n), Sale(m)>>
           g == [i \in DOMAIN f |-> f[i].size]
<1>1. DOMAIN f = {1, 2} /\ g[1] = n /\ g[2] = m
  BY SaleTrade
<1>2. SoldIn(f) = SumFunctionOnSet(g, DOMAIN f)
  BY DEF SoldIn, SumFunction
<1> HIDE DEF f, g
<1>3. IsFiniteSet({2})
  BY FS_Singleton
<1>4. IsFiniteSet({1, 2}) /\ {1, 2} \ {1} = {2}
  <2>1. IsFiniteSet({2} \cup {1})
    BY <1>3, FS_AddElement
  <2>2. {2} \cup {1} = {1, 2} /\ {1, 2} \ {1} = {2}
    OBVIOUS
  <2> QED BY <2>1, <2>2
<1>5. \A x \in {1, 2} : g[x] \in Int
  BY <1>1
<1>6. SumFunctionOnSet(g, {1, 2}) = g[1] + SumFunctionOnSet(g, {2})
  BY <1>4, <1>5, SumRemove
<1>7. SumFunctionOnSet(g, {2}) = g[2]
  BY <1>3, <1>5, SumSingle
<1>8. SoldIn(f) = n + m
  BY <1>1, <1>2, <1>6, <1>7
<1> QED BY <1>8 DEF f

LEMMA Joined ==
  ASSUME NEW T, NEW s \in Seq(T), NEW a \in T, NEW b \in T
  PROVE  s \o <<a>> = Append(s, a) /\ s \o <<a, b>> = Append(Append(s, a), b) /\ s \o <<>> = s
OBVIOUS

\* The sale of a leg: its trades follow the earlier ones.
LEMMA LegSold ==
  ASSUME NEW l \in Legs, wallet[l] \in Nat, NEW cap \in Nat, wallet[l] <= cap,
         NEW s, Within(s, cap), NEW f \in SplitsOf(l)
  PROVE  /\ SoldIn(f) \in Nat /\ SoldIn(f) <= wallet[l]
         /\ Within(s \o f, cap) /\ Further(s, s \o f, SoldIn(f))
<1> DEFINE T == Trades
<1>1. s \in Seq(T) /\ \A n \in Nat : Sale(n) \in T
  BY SaleTrade DEF Within
<1> HIDE DEF T
<1>2. CASE f = <<>>
  <2>2. s \o f = s
    BY <1>1, <1>2
  <2>3. SoldIn(f) = 0
    <3>1. DOMAIN <<>> = {}
      OBVIOUS
    <3> QED BY <1>2, <3>1, SumEmpty DEF SoldIn, SumFunction
  <2>4. Total(Gone, s) \in Nat /\ Total(Unbooked, s) \in Nat
    BY WithinTotals
  <2> QED BY <2>2, <2>3, <2>4 DEF Further
<1>3. CASE \E n \in 1..wallet[l] : f = <<Sale(n)>>
  <2>1. PICK n \in 1..wallet[l] : f = <<Sale(n)>>
    BY <1>3
  <2>2. n \in Nat /\ n <= cap /\ n <= wallet[l] /\ SoldIn(f) = n
    BY <2>1, SoldOne
  <2>4. s \o f = Append(s, Sale(n))
    <3>1. Sale(n) \in T
      BY <1>1, <2>2
    <3> QED BY <1>1, <2>1, <3>1, Joined
  <2>5. Within(Append(s, Sale(n)), cap) /\ Further(s, Append(s, Sale(n)), n)
    BY <2>2, OneSale
  <2> QED BY <2>2, <2>4, <2>5
<1>4. CASE \E n \in 2..wallet[l] : f = <<Sale(1), Sale(n - 1)>>
  <2>1. PICK n \in 2..wallet[l] : f = <<Sale(1), Sale(n - 1)>>
    BY <1>4
  <2>2. PICK m \in Nat : m = n - 1
    BY <2>1
  <2>3. n \in Nat /\ m + 1 = n /\ n <= wallet[l] /\ f = <<Sale(1), Sale(m)>> /\ 1 <= cap /\ m <= cap
    BY <2>1, <2>2
  <2>4. SoldIn(f) = n
    <3>1. SoldIn(<<Sale(1), Sale(m)>>) = 1 + m
      BY SoldTwo
    <3> QED BY <2>3, <3>1
  <2> DEFINE a == Sale(1)
             b == Sale(m)
             q == Append(s, a)
             r == Append(q, b)
  <2>6. a \in T /\ b \in T
    BY <1>1
  <2>7. s \o f = r
    <3> HIDE DEF a, b
    <3>1. s \o <<a, b>> = Append(Append(s, a), b)
      BY <1>1, <2>6, Joined
    <3> QED BY <2>3, <3>1 DEF a, b
  <2>8. Within(q, cap) /\ Further(s, q, 1)
    BY <2>3, OneSale
  <2> HIDE DEF q
  <2>9. Within(r, cap) /\ Further(q, r, m)
    BY <2>3, <2>8, OneSale
  <2> HIDE DEF r
  <2>10. /\ Total(Gone, s) \in Nat /\ Total(Unbooked, s) \in Nat
         /\ Total(Gone, q) \in Nat /\ Total(Unbooked, q) \in Nat
    BY <2>8, WithinTotals
  <2>11. /\ DOMAIN s \subseteq DOMAIN r
         /\ Total(Gone, q) = Total(Gone, s) + 1 /\ Total(Unbooked, q) = Total(Unbooked, s) + 1
         /\ Total(Gone, r) = Total(Gone, q) + m /\ Total(Unbooked, r) = Total(Unbooked, q) + m
    BY <2>8, <2>9 DEF Further
  <2>12. Total(Gone, r) = Total(Gone, s) + n /\ Total(Unbooked, r) = Total(Unbooked, s) + n
    BY ONLY <2>2, <2>3, <2>10, <2>11
  <2>13. Further(s, r, n)
    BY <2>11, <2>12 DEF Further
  <2> QED BY <2>3, <2>4, <2>7, <2>9, <2>13
<1> QED BY <1>2, <1>3, <1>4 DEF SplitsOf

\* The trades of a leg, and its part of the wallet, after an attempt began.
LEMMA SubmittedLeg ==
  ASSUME ExitsInv, NEW l \in Legs, NEW f \in SplitsOf(l)
  PROVE  /\ SoldIn(f) \in Nat /\ SoldIn(f) <= wallet[l]
         /\ Within(trades[l] \o f, Size[l]) /\ Further(trades[l], trades[l] \o f, SoldIn(f))
<1>1. /\ wallet[l] \in Nat /\ Size[l] \in Nat /\ wallet[l] <= Size[l]
      /\ trades \in [Legs -> Seq(Trades)]
  BY SizesAssumption DEF ExitsInv, ExitsTypeOK
<1>2. Within(trades[l], Size[l])
  BY <1>1, TradesAre DEF ExitsInv, VenueOf, Within
<1> QED BY <1>1, <1>2, LegSold

LEMMA SubmitStep ==
  ASSUME ExitsInv, NEW path \in {"proactive", "replaced"}, ~exit.busy, LiveMode, Submit(path)
  PROVE  ExitsInv'
<1>1. PICK asked \in SUBSET {l \in Legs : shares[l] > 0} :
        /\ \E fills \in [Legs -> UNION {SplitsOf(l) : l \in Legs}] :
             /\ \A l \in Legs : fills[l] \in SplitsOf(l)
             /\ trades' = [l \in Legs |-> trades[l] \o fills[l]]
             /\ wallet' = [l \in Legs |-> wallet[l] - SoldIn(fills[l])]
        /\ exit' = [NoExit EXCEPT !.busy = TRUE, !.pending = asked, !.polled = asked, !.path = path,
                      !.asked = [l \in Legs |-> IF l \in asked THEN shares[l] ELSE 0]]
  BY DEF Submit
<1>2. PICK fills \in [Legs -> UNION {SplitsOf(l) : l \in Legs}] :
        /\ \A l \in Legs : fills[l] \in SplitsOf(l)
        /\ trades' = [l \in Legs |-> trades[l] \o fills[l]]
        /\ wallet' = [l \in Legs |-> wallet[l] - SoldIn(fills[l])]
  BY <1>1
<1>3. UNCHANGED <<books, kill, executor, cooling, channel, live, causes>>
  BY DEF Submit
<1>4. /\ wallet \in [Legs -> Nat] /\ shares \in [Legs -> Nat] /\ trades \in [Legs -> Seq(Trades)]
      /\ Size \in [Legs -> Nat] /\ \A l \in Legs : wallet[l] <= Size[l] /\ shares[l] <= Size[l]
  BY SizesAssumption DEF ExitsInv, ExitsTypeOK
<1>5. ASSUME NEW l \in Legs
      PROVE  /\ SoldIn(fills[l]) \in Nat /\ SoldIn(fills[l]) <= wallet[l]
             /\ Within(trades'[l], Size[l]) /\ Further(trades[l], trades'[l], SoldIn(fills[l]))
             /\ wallet'[l] = wallet[l] - SoldIn(fills[l])
  <2>1. trades'[l] = trades[l] \o fills[l] /\ wallet'[l] = wallet[l] - SoldIn(fills[l])
    BY <1>2
  <2> QED BY <1>2, <2>1, SubmittedLeg
<1>6. trades' \in [Legs -> Seq(Trades)] /\ \A l \in Legs : DOMAIN trades[l] \subseteq DOMAIN trades'[l]
  <2> DEFINE Q == Seq(Trades)
  <2>1. \A l \in Legs : trades'[l] \in Q
    BY <1>5 DEF Within
  <2> HIDE DEF Q
  <2>2. trades' \in [Legs -> Q]
    BY <1>2, <2>1
  <2>3. \A l \in Legs : DOMAIN trades[l] \subseteq DOMAIN trades'[l]
    BY <1>5 DEF Further
  <2> QED BY <2>2, <2>3 DEF Q
<1>7. wallet' \in [Legs -> Nat] /\ \A l \in Legs : wallet'[l] <= Size[l]
  <2>1. ASSUME NEW l \in Legs
        PROVE  wallet[l] - SoldIn(fills[l]) \in Nat /\ wallet[l] - SoldIn(fills[l]) <= Size[l]
    <3> DEFINE n == SoldIn(fills[l])
    <3>1. wallet[l] \in Nat /\ Size[l] \in Nat /\ wallet[l] <= Size[l] /\ n \in Nat /\ n <= wallet[l]
      BY <1>4, <1>5
    <3> HIDE DEF n
    <3>2. wallet[l] - n \in Nat /\ wallet[l] - n <= Size[l]
      BY ONLY <3>1
    <3> QED BY <3>2 DEF n
  <2> QED BY <1>2, <2>1
<1>8. /\ exit' \in ExitType /\ exit'.busy = TRUE /\ exit'.polled = asked
      /\ \A l \in Legs : exit'.fill[l] = 0 /\ exit'.polls[l] = 0
                         /\ (l \in asked => exit'.asked[l] = shares[l])
  <2> DEFINE sale == [l \in Legs |-> IF l \in asked THEN shares[l] ELSE 0]
  <2>1. sale \in [Legs -> Nat] /\ \A l \in asked : sale[l] = shares[l]
    BY <1>4
  <2>2. exit' = [NoExit EXCEPT !.busy = TRUE, !.pending = asked, !.polled = asked, !.path = path,
                   !.asked = sale]
    BY <1>1
  <2> HIDE DEF sale
  <2>3. asked \subseteq Legs
    OBVIOUS
  <2> QED BY <2>1, <2>2, <2>3 DEF NoExit, ExitType
<1>9. Waiting'
  BY <1>3, <1>8 DEF Waiting, LiveMode, kill
<1>10. ExitsTypeOK'
  <2>1. \A k \in DOMAIN channel' : channel'[k].trade \in DOMAIN trades'[channel'[k].leg]
    <3>1. ChannelOK /\ \A e \in Events : e.leg \in Legs
      BY ChannelIs DEF Events
    <3>2. \A k \in DOMAIN channel : channel[k] \in Events
      BY <3>1 DEF ChannelOK
    <3> QED BY <1>3, <1>6, <3>1, <3>2 DEF ChannelOK
  <2>2. /\ shares' = shares /\ booked' = booked /\ keys' = keys /\ isOpen' = isOpen
        /\ channel' = channel /\ shadow' = shadow /\ request' = request /\ killed' = killed
        /\ executor' = executor /\ cooling' = cooling /\ live' = live
        /\ undone' = undone /\ misread' = misread /\ paper' = paper
    BY <1>3 DEF books, kill, causes
  <2>3. /\ exit'.busy \in BOOLEAN /\ exit'.pending \subseteq Legs /\ exit'.polled \subseteq Legs
        /\ exit'.asked \in [Legs -> Nat] /\ exit'.polls \in [Legs -> Nat]
        /\ \A l \in Legs : exit'.fill[l] = 0
    BY <1>8 DEF ExitType
  <2> QED BY <1>4, <1>6, <1>7, <2>1, <2>2, <2>3 DEF ExitsInv, ExitsTypeOK
<1>11. ASSUME NEW l \in Legs PROVE VenueOf(l)' /\ BooksOf(l)' /\ LedgerOf(l)' /\ PolledOf(l)'
  <2> DEFINE n == SoldIn(fills[l])
             g == Total(Gone, trades[l])
             u == Total(Unbooked, trades[l])
  <2>1. /\ n \in Nat /\ n <= wallet[l] /\ wallet'[l] = wallet[l] - n /\ wallet[l] \in Nat
        /\ Total(Gone, trades'[l]) = g + n /\ Total(Unbooked, trades'[l]) = u + n
        /\ g \in Nat /\ u \in Nat
    BY <1>4, <1>5, TradesAre DEF Further
  <2>2. /\ wallet[l] + g <= Size[l]
        /\ wallet[l] + u <= shares[l] + undone[l] + misread[l] + paper[l]
    BY DEF ExitsInv, VenueOf, BooksOf
  <2> HIDE DEF n, g, u
  <2>3. /\ wallet'[l] + Total(Gone, trades'[l]) = wallet[l] + g
        /\ wallet'[l] + Total(Unbooked, trades'[l]) = wallet[l] + u
    BY ONLY <2>1
  <2>4. VenueOf(l)'
    BY <1>5, <2>2, <2>3 DEF VenueOf, Within
  <2>5. BooksOf(l)'
    BY <1>3, <2>2, <2>3 DEF BooksOf, books, causes
  <2>6. LedgerOf(l)'
    <3>1. /\ shares' = shares /\ booked' = booked /\ keys' = keys
          /\ executor' = executor /\ shadow' = shadow
      BY <1>3 DEF books, kill
    <3> QED BY <3>1 DEF ExitsInv, LedgerOf, LiveMode
  <2>7. PolledOf(l)'
    <3>1. /\ shares' = shares /\ shares[l] \in Nat /\ Size[l] \in Nat /\ shares[l] <= Size[l]
          /\ exit'.polls[l] = 0 /\ (l \in exit'.polled => exit'.asked[l] = shares[l])
      BY <1>3, <1>4, <1>8 DEF books
    <3> QED BY <3>1 DEF PolledOf
  <2> QED BY <2>4, <2>5, <2>6, <2>7
<1> QED BY <1>9, <1>10, <1>11 DEF ExitsInv

LEMMA ExitsNextStep ==
  ASSUME ExitsInv, [ExitsNext]_exitsVars
  PROVE  ExitsInv'
<1>1. CASE \E l \in Legs : \E i \in DOMAIN trades[l] : Report(l, i) \/ Fail(l, i)
  BY <1>1, ReportStep, FailStep
<1>2. CASE Proactive \/ Replaced
  BY <1>2, SubmitStep DEF Proactive, Replaced
<1>3. CASE Receive
  BY <1>3, ReceiveStep
<1>4. CASE Book \/ Liquidate
  BY <1>4, BookStep, LiquidateStep
<1>5. CASE \E l \in Legs : Poll(l)
  BY <1>5, PollStep
<1>6. CASE Dispatch \/ Enter \/ Ask \/ Kill \/ CoolDown \/ UNCHANGED exitsVars
  BY <1>6, AsideStep
<1> QED BY <1>1, <1>2, <1>3, <1>4, <1>5, <1>6 DEF ExitsNext, Exits

-----------------------------------------------------------------------------
(* LiveExits: the theorems.                                                *)

\* The invariant holds throughout.
THEOREM ExitsInvariant == ExitsSpec => []ExitsInv
<1>1. ExitsInit => ExitsInv
  BY ExitsInitInv
<1>2. ExitsInv /\ [ExitsNext]_exitsVars => ExitsInv'
  BY ExitsNextStep
<1> QED BY <1>1, <1>2, PTL DEF ExitsSpec

\* Every variable keeps its type, and the position is open as long as a leg
\* has shares.
THEOREM ExitsTyped == ExitsSpec => []ExitsTypeOK
<1>1. ExitsInv => ExitsTypeOK
  BY DEF ExitsInv
<1> QED BY <1>1, ExitsInvariant, PTL

\* However sales are matched, split, reported, lost, failed or waited for, in
\* any number of attempts and in both modes: what is in the wallet and off the
\* books was a booked sale that failed, a report or a difference read as the
\* fill of a sale it was not, or a sale on paper.
THEOREM AheadIsExplained == ExitsSpec => []BooksAheadExplained
<1>1. ASSUME ExitsInv, NEW l \in Legs
      PROVE  wallet[l] <= shares[l] + undone[l] + misread[l] + paper[l]
  <2>1. wallet[l] + Total(Unbooked, trades[l]) <= shares[l] + undone[l] + misread[l] + paper[l]
    BY <1>1 DEF ExitsInv, BooksOf
  <2>2. /\ wallet[l] \in Nat /\ shares[l] \in Nat /\ undone[l] \in Nat /\ misread[l] \in Nat
        /\ paper[l] \in Nat /\ Total(Unbooked, trades[l]) \in Nat
    BY <1>1, TradesAre DEF ExitsInv, ExitsTypeOK
  <2> HIDE DEF Total
  <2> QED BY <2>1, <2>2
<1>2. ExitsInv => BooksAheadExplained
  BY <1>1 DEF BooksAheadExplained
<1> QED BY <1>2, ExitsInvariant, PTL

\* The ledger books no more of a leg as sold than the manager took off it,
\* over live attempts, misread reports and the paper sale after a kill.
THEOREM LedgerSellsHeld == ExitsSpec => []LedgerNotAhead
<1>1. ExitsInv => LedgerNotAhead
  BY DEF ExitsInv, LedgerOf, LedgerNotAhead
<1> QED BY <1>1, ExitsInvariant, PTL
=============================================================================
