---------------------------- MODULE MarketGroups ----------------------------
(***************************************************************************)
(* From the listing of the venue to an opportunity: the scan of the Gamma  *)
(* catalogue (scanner.rs), the negRisk groups found in it (detect.rs), the *)
(* exhaustiveness guard of the evaluation (eval.rs), the check of the size *)
(* of a group before a live entry (gamma_freshness.rs) and the resolution  *)
(* of a set of markets (lib.rs, check_constraints_resolution).             *)
(*                                                                         *)
(* Prices are not modelled: any group may be inside the band of price sums *)
(* when it is scanned, and any evaluated group may show an arbitrage.      *)
(***************************************************************************)
EXTENDS Naturals, FiniteSets

CONSTANTS
  Groups,      \* negRisk market ids
  Outcomes,    \* markets, one for each outcome of a group
  GroupOf,     \* the group of a market
  MayLackTokens, \* markets whose token ids may be missing
  OpenAtStart, \* markets listed at the start; the others may come later
  MayClose,    \* markets that may close before their group is decided
  MinMarkets,  \* constraint_detection.min_markets
  Checks,      \* gamma_freshness_check is on and the process is not in shadow mode
  FilterWorks, \* the venue heeds the negRiskMarketID filter
  PageLimit    \* markets the check asks for

ASSUME GroupsAssumption ==
  /\ IsFiniteSet(Outcomes) /\ GroupOf \in [Outcomes -> Groups]
  /\ MayLackTokens \subseteq Outcomes /\ OpenAtStart \subseteq Outcomes
  /\ MayClose \subseteq Outcomes
  /\ MinMarkets \in Nat /\ PageLimit \in Nat \ {0}
  /\ Checks \in BOOLEAN /\ FilterWorks \in BOOLEAN

VARIABLES
  market,      \* what the venue says of each market
  constraints  \* ConstraintStore: the last detection

groupVars == <<market, constraints>>

NoConstraint == [markets |-> {}, size |-> 0]
OutcomesOf(g) == {o \in Outcomes : GroupOf[o] = g}
OpenMarkets == {o \in Outcomes : market[o] = "open"}
Decided(g) == \E o \in OutcomesOf(g) : market[o] = "yes"

GroupsInit ==
  /\ market = [o \in Outcomes |-> IF o \in OpenAtStart THEN "open" ELSE "unlisted"]
  /\ constraints = [g \in Groups |-> NoConstraint]

GroupsTypeOK ==
  /\ market \in [Outcomes -> {"unlisted", "open", "yes", "no"}]
  /\ constraints \in [Groups -> [markets : SUBSET Outcomes, size : Nat]]

-----------------------------------------------------------------------------
(* The venue.                                                              *)

\* A group grows.
List(o) ==
  /\ market[o] = "unlisted" /\ ~Decided(GroupOf[o])
  /\ market' = [market EXCEPT ![o] = "open"]
  /\ UNCHANGED constraints

\* An outcome has become impossible, its market closes early.
Eliminate(o) ==
  /\ o \in MayClose /\ market[o] = "open"
  /\ market' = [market EXCEPT ![o] = "no"]
  /\ UNCHANGED constraints

\* The group is decided, its other markets resolve to no.
Decide(o) ==
  /\ market[o] = "open"
  /\ market' = [m \in Outcomes |->
       IF m = o THEN "yes"
       ELSE IF GroupOf[m] = GroupOf[o] /\ market[m] = "open" THEN "no" ELSE market[m]]
  /\ UNCHANGED constraints

Venue == \E o \in Outcomes : List(o) \/ Eliminate(o) \/ Decide(o)

-----------------------------------------------------------------------------
(* Detection.                                                              *)

\* What a scan may bring: a page that fails ends it and what came before
\* counts as the catalogue; only an empty scan is an error, and changes
\* nothing.
Scans == (SUBSET OpenMarkets) \ {{}}

\* convert_market: which of its markets a scan leaves without token ids.
Conversions == SUBSET MayLackTokens

\* The constraint of a group when the scan has seen these markets: its
\* candidates have tokens, its size counts the others too.
Detected(g, seen, bare, inBand) ==
  LET members == seen \cap OutcomesOf(g)
      refs == members \ bare
  IN IF g \in inBand /\ Cardinality(refs) >= MinMarkets
     THEN [markets |-> refs, size |-> Cardinality(members)]
     ELSE NoConstraint

\* The scan replaces the lookup of markets, and the detection over all of it
\* the constraints.
Redetected(seen, bare, inBand) == [g \in Groups |-> Detected(g, seen, bare, inBand)]

Rescan ==
  /\ \E seen \in Scans, bare \in Conversions, inBand \in SUBSET Groups :
       constraints' = Redetected(seen, bare, inBand)
  /\ UNCHANGED market

\* load_markets_cached: the catalogue of the last scan, which has a disk of
\* its own, gives the same constraints.
FromCache == constraints

\* Every market of the group is a candidate, as far as the scan has seen.
Exhaustive(g) ==
  /\ constraints[g] # NoConstraint
  /\ constraints[g].size > 0 => Cardinality(constraints[g].markets) >= constraints[g].size

\* The markets of the group that the catalogue knows, the closed ones too.
CurrentSize(g) == Cardinality({o \in OutcomesOf(g) : market[o] # "unlisted"})
\* The answer has as many markets as were asked for: the group is that large,
\* or the filter was ignored.
FillsPage(g) == FilterWorks => CurrentSize(g) >= PageLimit
\* Mutant: only a group that has shrunk is refused.
MutFresh(g) == FillsPage(g) \/ constraints[g].size <= CurrentSize(g)
\* check_group_freshness: a full page is taken for an ignored filter, and passes.
Fresh(g) == FillsPage(g) \/ constraints[g].size = CurrentSize(g)
\* What an entry asks for: nothing in shadow mode or with the check off.
Checked(g) == Checks => Fresh(g)

-----------------------------------------------------------------------------
(* Resolution.                                                             *)

\* UMA has resolved the market and its prices say to what.
Settled(o) == market[o] \in {"yes", "no"}
Resolved(markets) == \A o \in markets : Settled(o)
\* Nobody when all of them resolved to no ("NONE").
Winner(markets) == {o \in markets : market[o] = "yes"}
=============================================================================
