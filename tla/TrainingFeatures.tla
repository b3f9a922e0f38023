-------------------------- MODULE TrainingFeatures --------------------------
(***************************************************************************)
(* The rolling zone features of the gold table, as the SQL computes them:  *)
(* src/src/tripml/dbt/models/staging/stg_trips.sql and                     *)
(* src/src/tripml/dbt/models/gold/training_features.sql, over the silver   *)
(* partitions that the rule timestamps_in_partition                        *)
(* (src/src/tripml/ingestion.py) lets through.                             *)
(*                                                                         *)
(* Abstracted: a trip is its zones and its two times; a count or a mean    *)
(* over a window is the set of completed trips it is taken over.           *)
(***************************************************************************)
EXTENDS Integers

CONSTANTS Zones,
          Short, Long,                           \* the windows
          PreviousStart, MonthStart, MonthEnd    \* the previous and the target month

ASSUME WindowAssumption ==
  /\ Short \in Nat \ {0} /\ Long \in Nat \ {0} /\ Short <= Long
  /\ PreviousStart \in Nat /\ MonthStart \in Nat /\ MonthEnd \in Nat
  /\ PreviousStart + Long <= MonthStart /\ MonthStart < MonthEnd

AllTrips == {t \in [pickup : Nat, dropoff : Nat, from : Zones, to : Zones] : t.pickup < t.dropoff}

ZoneOf(t, role) == IF role = "pickup" THEN t.from ELSE t.to
Length(window) == IF window = "15m" THEN Short ELSE Long

InMonth(time, month) == IF month = "previous"
                        THEN PreviousStart <= time /\ time < MonthStart
                        ELSE MonthStart <= time /\ time < MonthEnd

(* A valid row has both of its times in the month of its partition. *)
Silver(trips, months) ==
  {t \in trips : \E m \in months : InMonth(t.pickup, m) /\ InMonth(t.dropoff, m)}

StagedByPickup(silver) ==      \* a mutant: the lookback is filtered by pickup time
  {t \in silver : MonthStart - Long <= t.pickup /\ t.pickup < MonthEnd}

(* stg_trips *)
Staged(silver) ==
  {t \in silver : \/ InMonth(t.pickup, "target")
                  \/ MonthStart - Long <= t.dropoff /\ t.dropoff < MonthEnd}

(* pickup_zone_events and dropoff_zone_events: a ledger of two events for  *)
(* each trip.                                                              *)
Completion(t, role) == [kind |-> "completion", zone |-> ZoneOf(t, role), time |-> t.dropoff, trip |-> t]
Pickup(t, role) == [kind |-> "pickup", zone |-> ZoneOf(t, role), time |-> t.pickup, trip |-> t]
Events(trips, role) == {Completion(t, role) : t \in trips} \cup {Pickup(t, role) : t \in trips}

FrameWithPeers(events, e, w) ==      \* a mutant: no EXCLUDE GROUP
  {f \in events : f.zone = e.zone /\ e.time - w <= f.time /\ f.time <= e.time}

(* partition by zone_id order by event_time                                *)
(* range between w preceding and current row exclude group                 *)
Frame(events, e, w) ==
  {f \in events : /\ f.zone = e.zone
                  /\ e.time - w <= f.time /\ f.time <= e.time
                  /\ f.time # e.time}

(* The aggregates see completions only: a pickup event has null measures.  *)
Aggregated(trips, r, role, w) ==
  {f.trip : f \in {g \in Frame(Events(trips, role), Pickup(r, role), w) : g.kind = "completion"}}

GoldRow(silver, r) ==
  LET trips == Staged(silver)
  IN [pu_zone_15m |-> Aggregated(trips, r, "pickup", Short),
      pu_zone_60m |-> Aggregated(trips, r, "pickup", Long),
      do_zone_60m |-> Aggregated(trips, r, "dropoff", Long)]

GoldRows(silver) == {r \in Staged(silver) : InMonth(r.pickup, "target")}

------------------------------------------------------------------------------
(* What the features are meant to be (ADR-0005): the trips of a zone that  *)
(* completed within the window, strictly before the moment.                *)
CompletedIn(trips, role, zone, w, moment) ==
  {t \in trips : ZoneOf(t, role) = zone /\ moment - w <= t.dropoff /\ t.dropoff < moment}

Known(trips, r, moment) ==
  [pu_zone_15m |-> CompletedIn(trips, "pickup", r.from, Short, moment),
   pu_zone_60m |-> CompletedIn(trips, "pickup", r.from, Long, moment),
   do_zone_60m |-> CompletedIn(trips, "dropoff", r.to, Long, moment)]
==============================================================================
