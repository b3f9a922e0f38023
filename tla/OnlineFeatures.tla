--------------------------- MODULE OnlineFeatures ---------------------------
(***************************************************************************)
(* The online side of the same features: RedisFeatureStore.lookup          *)
(* (src/src/tripml/online_features.py) over snapshots that a producer      *)
(* outside this repository writes key by key (docs/adr/0009), beside the   *)
(* gold rows the model was trained on.                                     *)
(*                                                                         *)
(* The producer is external.  Its contract (OnlineZoneWindowFeatures,      *)
(* src/src/tripml/contracts.py) makes each snapshot one window of          *)
(* completed trips, but snapshots may be missing, expired, written late or *)
(* again, and under the wrong key, and a key may hold another payload: one *)
(* the contract refuses, or a snapshot of another feature model version.   *)
(***************************************************************************)
EXTENDS TrainingFeatures, Sequences, FiniteSets

CONSTANTS Candidates,    \* bound: the trips that may have happened
          Keys,          \* bound: the keys the producer writes
          Misplaced,     \* bound: keys and those whose snapshots they may get by mistake
          Cutoffs,       \* bound: the window ends it writes
          Foreign,       \* bound: keys and the other payloads they may get
          Staleness,     \* feature_staleness_limit_seconds
          None, Garbled, OtherVersion

ASSUME OnlineAssumption ==
  /\ Candidates \subseteq AllTrips
  /\ Keys \subseteq {"pickup", "dropoff"} \X Zones \X {"15m", "60m"}
  /\ Misplaced \subseteq Keys \X Keys
  /\ Cutoffs \subseteq Nat
  /\ Foreign \subseteq Keys \X {Garbled, OtherVersion}
  /\ Staleness \in Nat

VARIABLES
  trips,      \* what has happened; fixed
  gold,       \* the months whose silver the gold partition was built from
  redis,      \* the value of each key
  answer      \* the last FeatureLookup, with its request

vars == <<trips, gold, redis, answer>>

GoldSilver == Silver(trips, gold)

Init ==
  /\ trips \in SUBSET Candidates
  /\ gold = {}
  /\ redis = [k \in Keys |-> None]
  /\ answer = None

(* build_gold_features: the previous partition is read when it exists. *)
BuildGold(months) == /\ gold' = months
                     /\ UNCHANGED <<trips, redis, answer>>

------------------------------------------------------------------------------
(* The producer and the expiry of keys                                     *)

Snapshot(key, end) ==
  [role |-> key[1], zone |-> key[2], window |-> key[3], window_end |-> end,
   trips |-> CompletedIn(trips, key[1], key[2], Length(key[3]), end)]

Write(key, end) == /\ redis' = [redis EXCEPT ![key] = Snapshot(key, end)]
                   /\ UNCHANGED <<trips, gold, answer>>

WriteMisplaced(key, other, end) == /\ <<key, other>> \in Misplaced
                                   /\ redis' = [redis EXCEPT ![key] = Snapshot(other, end)]
                                   /\ UNCHANGED <<trips, gold, answer>>

WriteForeign(key, payload) == /\ <<key, payload>> \in Foreign
                              /\ redis' = [redis EXCEPT ![key] = payload]
                              /\ UNCHANGED <<trips, gold, answer>>

Expire(key) == /\ redis' = [redis EXCEPT ![key] = None]
               /\ UNCHANGED <<trips, gold, answer>>

------------------------------------------------------------------------------
(* lookup                                                                  *)

Identities(r) == << <<"pickup", r.from, "15m">>, <<"pickup", r.from, "60m">>,
                    <<"dropoff", r.to, "60m">> >>
Get(key) == IF key \in Keys THEN redis[key] ELSE None

Age(s, r) == r.pickup - s.window_end

AnyIdentity(s, identity) == TRUE      \* a mutant: the payload is trusted
HasIdentity(s, identity) == <<s.role, s.zone, s.window>> = identity

Expected(s, identity) == s # OtherVersion /\ HasIdentity(s, identity)

(* One round of the loop over the snapshots *)
Verdict(s, identity, r) ==
  CASE ~Expected(s, identity) -> "invalid"
    [] Expected(s, identity) /\ Age(s, r) < 0 -> "future"
    [] Expected(s, identity) /\ Age(s, r) > Staleness -> "stale"
    [] OTHER -> "passed"

OneCutoff(found) == \A i, j \in 1..3 : found[i].window_end = found[j].window_end

CountsOrdered(found) == Cardinality(found[1].trips) <= Cardinality(found[2].trips)

HasTrips(found) == found[1].trips # {} /\ found[2].trips # {}

(* Everything mget finds is one state of Redis, and every payload is       *)
(* validated before the loop looks at the first.                           *)
Outcome(r) ==
  LET found == [i \in 1..3 |-> Get(Identities(r)[i])]
      Of(i) == Verdict(found[i], Identities(r)[i], r)
  IN IF \E i \in 1..3 : found[i] = None THEN "missing"
     ELSE IF \E i \in 1..3 : found[i] = Garbled THEN "invalid"
     ELSE IF \E i \in 1..3 : Of(i) # "passed"
     THEN Of(CHOOSE i \in 1..3 : Of(i) # "passed" /\ \A j \in 1..(i - 1) : Of(j) = "passed")
     ELSE IF ~OneCutoff(found) THEN "inconsistent"
     ELSE IF ~CountsOrdered(found) THEN "invalid"
     ELSE IF ~HasTrips(found) THEN "empty"
     ELSE "fresh"

Features(r) ==
  [pu_zone_15m |-> Get(Identities(r)[1]).trips,
   pu_zone_60m |-> Get(Identities(r)[2]).trips,
   do_zone_60m |-> Get(Identities(r)[3]).trips]

Lookup(r) ==
  /\ answer' = IF Outcome(r) = "fresh"
               THEN [request |-> r, outcome |-> "fresh", values |-> Features(r),
                     age |-> Age(Get(Identities(r)[1]), r)]
               ELSE [request |-> r, outcome |-> Outcome(r), values |-> None, age |-> 0]
  /\ UNCHANGED <<trips, gold, redis>>

LookupFails(r) ==
  /\ answer' = [request |-> r, outcome |-> "unavailable", values |-> None, age |-> 0]
  /\ UNCHANGED <<trips, gold, redis>>

------------------------------------------------------------------------------
(* A request is made for a trip of the target month, whether or not its    *)
(* record will be valid.                                                   *)
Requests == {r \in trips : InMonth(r.pickup, "target")}

Next == \/ \E months \in {{"target"}, {"previous", "target"}} : BuildGold(months)
        \/ \E key \in Keys, end \in Cutoffs : Write(key, end)
        \/ \E key, other \in Keys, end \in Cutoffs : WriteMisplaced(key, other, end)
        \/ \E key \in Keys, payload \in {Garbled, OtherVersion} : WriteForeign(key, payload)
        \/ \E key \in Keys : Expire(key)
        \/ \E r \in Requests : Lookup(r) \/ LookupFails(r)

Spec == Init /\ [][Next]_vars

------------------------------------------------------------------------------
Outcomes == {"unavailable", "missing", "invalid", "future", "stale", "inconsistent", "empty"}
NonEmpty == (SUBSET trips) \ {{}}
Fresh == answer # None /\ answer.outcome = "fresh"

(* Type correctness; an accepted answer has trips in both pickup windows,  *)
(* as gold has null means, never zeros, where there are none.              *)
TypeOK ==
  /\ trips \subseteq Candidates
  /\ gold \in SUBSET {"previous", "target"}
  /\ redis \in [Keys -> [role : {"pickup", "dropoff"}, zone : Zones, window : {"15m", "60m"},
                         window_end : Cutoffs, trips : SUBSET trips]
                       \cup {None, Garbled, OtherVersion}]
  /\ \/ answer = None
     \/ answer \in [request : Requests, outcome : Outcomes, values : {None}, age : {0}]
     \/ answer \in [request : Requests, outcome : {"fresh"}, age : 0..Staleness,
                    values : [pu_zone_15m : NonEmpty, pu_zone_60m : NonEmpty,
                              do_zone_60m : SUBSET trips]]

(* An accepted answer is what was known at one moment, of the right zones  *)
(* and windows, and that moment is neither after the pickup nor older than *)
(* the limit (ADR-0009), whatever the producer has written and however     *)
(* far apart its three writes are.                                         *)
FreshIsPointInTime ==
  Fresh => /\ answer.age \in 0..Staleness
           /\ answer.values = Known(trips, answer.request, answer.request.pickup - answer.age)

(* A gold row has the windows of its own moment of pickup: no completion   *)
(* at or after it, and none of the silver partitions that were read lost   *)
(* to the filter of the lookback.                                          *)
GoldIsPointInTime ==
  \A r \in GoldRows(GoldSilver) : GoldRow(GoldSilver, r) = Known(GoldSilver, r, r.pickup)

(* An accepted answer without lag is the gold row of its trip, but for the *)
(* completions that were not in silver.                                    *)
FreshMatchesGold ==
  (Fresh /\ answer.age = 0 /\ answer.request \in GoldRows(GoldSilver)) =>
    \A f \in DOMAIN answer.values :
      GoldRow(GoldSilver, answer.request)[f] = answer.values[f] \cap GoldSilver

(* ADR-0005:8-9: "rolling zone statistics that match what a streaming      *)
(* processor can know at pickup time".                                     *)
GoldMatchesStream ==
  gold = {"previous", "target"} =>
    \A r \in GoldRows(GoldSilver) : GoldRow(GoldSilver, r) = Known(trips, r, r.pickup)
==============================================================================
