------------------------ MODULE OnlineFeaturesProofs ------------------------
(***************************************************************************)
(* Proofs about OnlineFeatures and the windows of TrainingFeatures, for    *)
(* every set of trips, every window length and every month.                *)
(***************************************************************************)
EXTENDS OnlineFeatures, TLAPS

------------------------------------------------------------------------------
(* The windows of the gold SQL                                             *)

(* A ledger window is the set of trips of the probe's zone that completed  *)
(* within it, strictly before the probe.                                   *)
LEMMA LedgerWindow ==
  ASSUME NEW T, T \subseteq AllTrips, NEW r \in AllTrips, NEW role, NEW w \in Nat
  PROVE  Aggregated(T, r, role, w) = CompletedIn(T, role, ZoneOf(r, role), w, r.pickup)
<1> DEFINE probe == Pickup(r, role)
           frame == Frame(Events(T, role), probe, w)
<1>1. probe.zone = ZoneOf(r, role) /\ probe.time = r.pickup
  BY DEF Pickup
<1>2. ASSUME NEW f \in frame, f.kind = "completion"
      PROVE  f.trip \in CompletedIn(T, role, ZoneOf(r, role), w, r.pickup)
  <2>1. PICK t \in T : f = Completion(t, role)
    BY <1>2 DEF Frame, Events, Completion, Pickup
  <2>2. f.trip = t /\ f.zone = ZoneOf(t, role) /\ f.time = t.dropoff
    BY <2>1 DEF Completion
  <2>3. t.dropoff \in Nat /\ r.pickup \in Nat
    BY DEF AllTrips
  <2> QED BY <1>1, <2>2, <2>3 DEF Frame, CompletedIn
<1>3. ASSUME NEW t \in CompletedIn(T, role, ZoneOf(r, role), w, r.pickup)
      PROVE  \E f \in frame : f.kind = "completion" /\ f.trip = t
  <2>1. Completion(t, role) \in Events(T, role)
    BY DEF Events, CompletedIn
  <2>2. t.dropoff \in Nat /\ r.pickup \in Nat
    BY DEF AllTrips, CompletedIn
  <2>3. Completion(t, role) \in frame
    BY <1>1, <2>1, <2>2 DEF Frame, Completion, CompletedIn
  <2> QED BY <2>3 DEF Completion
<1>4. Aggregated(T, r, role, w) = {f.trip : f \in {g \in frame : g.kind = "completion"}}
  BY DEF Aggregated
<1> QED BY <1>2, <1>3, <1>4

(* The filter of stg_trips loses nothing that a window can reach.          *)
LEMMA StagingKeepsWindows ==
  ASSUME NEW S, S \subseteq AllTrips, NEW r \in AllTrips, InMonth(r.pickup, "target"),
         NEW role, NEW zone, NEW w \in Nat, w <= Long
  PROVE  CompletedIn(Staged(S), role, zone, w, r.pickup) = CompletedIn(S, role, zone, w, r.pickup)
<1>1. ASSUME NEW t \in S, r.pickup - w <= t.dropoff, t.dropoff < r.pickup
      PROVE  t \in Staged(S)
  <2>1. t.dropoff \in Nat /\ r.pickup \in Nat
    BY DEF AllTrips
  <2>2. MonthStart <= r.pickup /\ r.pickup < MonthEnd
    BY DEF InMonth
  <2>3. MonthStart - Long <= t.dropoff /\ t.dropoff < MonthEnd
    BY <1>1, <2>1, <2>2, WindowAssumption
  <2> QED BY <2>3 DEF Staged
<1> QED BY <1>1 DEF CompletedIn, Staged

(* Gold is point-in-time for any silver.                                   *)
LEMMA GoldWindows ==
  ASSUME NEW S, S \subseteq AllTrips, NEW r \in S, InMonth(r.pickup, "target")
  PROVE  GoldRow(S, r) = Known(S, r, r.pickup)
<1>1. Staged(S) \subseteq AllTrips /\ r \in AllTrips
  BY DEF Staged
<1>2. Short \in Nat /\ Long \in Nat /\ Short <= Long /\ Long <= Long
  BY WindowAssumption
<1>3. Aggregated(Staged(S), r, "pickup", Short) = CompletedIn(S, "pickup", r.from, Short, r.pickup)
  BY <1>1, <1>2, LedgerWindow, StagingKeepsWindows DEF ZoneOf
<1>4. Aggregated(Staged(S), r, "pickup", Long) = CompletedIn(S, "pickup", r.from, Long, r.pickup)
  BY <1>1, <1>2, LedgerWindow, StagingKeepsWindows DEF ZoneOf
<1>5. Aggregated(Staged(S), r, "dropoff", Long) = CompletedIn(S, "dropoff", r.to, Long, r.pickup)
  BY <1>1, <1>2, LedgerWindow, StagingKeepsWindows DEF ZoneOf
<1> QED BY <1>3, <1>4, <1>5 DEF GoldRow, Known

------------------------------------------------------------------------------
(* What Redis holds, and what lookup makes of it                           *)

NoSnapshot == {None, Garbled, OtherVersion}

(* Each snapshot is the window it says it is, under whatever key.          *)
SnapshotsAreTrue ==
  \A k \in Keys : redis[k] \notin NoSnapshot =>
    redis[k].trips = CompletedIn(trips, redis[k].role, redis[k].zone,
                                 Length(redis[k].window), redis[k].window_end)

OnlineInv == TypeOK /\ SnapshotsAreTrue /\ FreshIsPointInTime

Snapshots == [role : {"pickup", "dropoff"}, zone : Zones, window : {"15m", "60m"},
              window_end : Cutoffs, trips : SUBSET trips]

LEMMA TripsTyped ==
  ASSUME TypeOK
  PROVE  trips \subseteq AllTrips /\ Requests \subseteq AllTrips /\ GoldSilver \subseteq AllTrips
  BY OnlineAssumption DEF TypeOK, Requests, GoldSilver, Silver

LEMMA SnapshotTyped ==
  ASSUME NEW k \in Keys, NEW e \in Cutoffs
  PROVE  /\ Snapshot(k, e) \in Snapshots
         /\ Snapshot(k, e).trips = CompletedIn(trips, Snapshot(k, e).role, Snapshot(k, e).zone,
                                      Length(Snapshot(k, e).window), Snapshot(k, e).window_end)
  BY OnlineAssumption DEF Snapshot, Snapshots, CompletedIn

(* What mget finds for a request. *)
Found(r) == [i \in 1..3 |-> Get(Identities(r)[i])]

(* Every outcome is one of those listed, and an answer is fresh only when  *)
(* nothing was missing, each snapshot passed, and they agree.              *)
LEMMA OutcomeTyped ==
  ASSUME NEW r
  PROVE  /\ Outcome(r) \in Outcomes \cup {"fresh"}
         /\ Outcome(r) = "fresh" =>
              /\ \A i \in 1..3 : /\ Found(r)[i] \notin {None, Garbled}
                                /\ Verdict(Found(r)[i], Identities(r)[i], r) = "passed"
              /\ OneCutoff(Found(r)) /\ HasTrips(Found(r))
<1> DEFINE found == [i \in 1..3 |-> Get(Identities(r)[i])]
           Of(i) == Verdict(found[i], Identities(r)[i], r)
           First(i) == Of(i) # "passed" /\ \A j \in 1..(i - 1) : Of(j) = "passed"
<1>1. ASSUME NEW s, NEW identity PROVE Verdict(s, identity, r) \in {"invalid", "future", "stale", "passed"}
  BY DEF Verdict
<1>2. ASSUME \E i \in 1..3 : Of(i) # "passed" PROVE \E i \in 1..3 : First(i)
  <2> HIDE DEF Of
  <2>1. CASE Of(1) # "passed"
    <3>1. First(1)
      BY <2>1
    <3> QED BY <3>1
  <2>2. CASE Of(1) = "passed" /\ Of(2) # "passed"
    <3>1. First(2)
      BY <2>2
    <3> QED BY <3>1
  <2>3. CASE Of(1) = "passed" /\ Of(2) = "passed" /\ Of(3) # "passed"
    <3>1. First(3)
      BY <2>3
    <3> QED BY <3>1
  <2> QED BY <1>2, <2>1, <2>2, <2>3
<1>3. ASSUME \E i \in 1..3 : Of(i) # "passed"
      PROVE  Of(CHOOSE i \in 1..3 : First(i)) \in {"invalid", "future", "stale"}
  <2>1. PICK k : k = CHOOSE i \in 1..3 : First(i)
    OBVIOUS
  <2>2. First(k)
    BY <1>2, <1>3, <2>1
  <2> QED BY <1>1, <2>1, <2>2
<1>4. CASE \E i \in 1..3 : found[i] = None
  BY <1>4 DEF Outcome, Outcomes
<1>5. CASE (\A i \in 1..3 : found[i] # None) /\ (\E i \in 1..3 : found[i] = Garbled)
  BY <1>5 DEF Outcome, Outcomes
<1>6. CASE (\A i \in 1..3 : found[i] \notin {None, Garbled}) /\ (\E i \in 1..3 : Of(i) # "passed")
  <2>1. Outcome(r) = Of(CHOOSE i \in 1..3 : First(i))
    BY <1>6 DEF Outcome
  <2> QED BY <1>3, <1>6, <2>1 DEF Outcomes
<1>7. CASE (\A i \in 1..3 : found[i] \notin {None, Garbled}) /\ (\A i \in 1..3 : Of(i) = "passed")
  <2>1. Outcome(r) = IF ~OneCutoff(found) THEN "inconsistent"
                     ELSE IF ~CountsOrdered(found) THEN "invalid"
                     ELSE IF ~HasTrips(found) THEN "empty" ELSE "fresh"
    BY <1>7 DEF Outcome
  <2> HIDE DEF Of
  <2>2. found = Found(r)
    BY DEF Found
  <2>3. \A i \in 1..3 : Verdict(found[i], Identities(r)[i], r) = "passed"
    BY <1>7 DEF Of
  <2> HIDE DEF found
  <2>4. Outcome(r) \in {"invalid", "inconsistent", "empty", "fresh"}
    BY <1>7, <2>1
  <2>5. Outcome(r) = "fresh" => OneCutoff(found) /\ HasTrips(found)
    BY <1>7, <2>1
  <2> QED BY <1>7, <2>2, <2>3, <2>4, <2>5 DEF Outcomes
<1> QED BY <1>4, <1>5, <1>6, <1>7

(* What the checks of one snapshot establish.                              *)
LEMMA PassedSnapshot ==
  ASSUME OnlineInv, NEW key, key[1] \in {"pickup", "dropoff"}, Get(key) \notin {None, Garbled},
         NEW r \in Requests, Verdict(Get(key), key, r) = "passed",
         key = <<key[1], key[2], key[3]>>
  PROVE  /\ Get(key) \in Snapshots
         /\ Age(Get(key), r) \in 0..Staleness
         /\ r.pickup - Age(Get(key), r) = Get(key).window_end
         /\ Get(key).trips = CompletedIn(trips, key[1], key[2], Length(key[3]), Get(key).window_end)
<1> DEFINE s == Get(key)
<1>1. key \in Keys /\ s = redis[key]
  BY DEF Get
<1>2. s \in Snapshots
  <2>1. s # OtherVersion
    BY DEF Verdict, Expected
  <2> QED BY <1>1, <2>1 DEF OnlineInv, TypeOK, Snapshots
<1>3. Expected(s, key) /\ ~(Age(s, r) < 0) /\ ~(Age(s, r) > Staleness)
  BY DEF Verdict
<1>4. s.role = key[1] /\ s.zone = key[2] /\ s.window = key[3]
  BY <1>3 DEF Expected, HasIdentity
<1>5. s.window_end \in Nat /\ r.pickup \in Nat /\ Staleness \in Nat
  BY <1>2, OnlineAssumption, TripsTyped DEF Snapshots, OnlineInv, AllTrips
<1>6. Age(s, r) \in 0..Staleness /\ r.pickup - Age(s, r) = s.window_end
  BY <1>3, <1>5 DEF Age
<1>7. s.trips = CompletedIn(trips, s.role, s.zone, Length(s.window), s.window_end)
  <2>1. s # OtherVersion
    BY <1>3 DEF Expected
  <2> QED BY <1>1, <2>1 DEF OnlineInv, SnapshotsAreTrue, NoSnapshot
<1> QED BY <1>2, <1>4, <1>6, <1>7

LEMMA FreshLookup ==
  ASSUME OnlineInv, NEW r \in Requests, Outcome(r) = "fresh",
         NEW age, age = Age(Get(Identities(r)[1]), r)
  PROVE  /\ age \in 0..Staleness
         /\ Features(r) = Known(trips, r, r.pickup - age)
         /\ Features(r) \in [pu_zone_15m : NonEmpty, pu_zone_60m : NonEmpty,
                             do_zone_60m : SUBSET trips]
<1> DEFINE k1 == <<"pickup", r.from, "15m">>
           k2 == <<"pickup", r.from, "60m">>
           k3 == <<"dropoff", r.to, "60m">>
<1>1. Identities(r)[1] = k1 /\ Identities(r)[2] = k2 /\ Identities(r)[3] = k3
  BY DEF Identities
<1>2. Found(r)[1] = Get(k1) /\ Found(r)[2] = Get(k2) /\ Found(r)[3] = Get(k3)
  BY <1>1 DEF Found
<1>3. /\ Get(k1) \notin {None, Garbled} /\ Verdict(Get(k1), k1, r) = "passed"
      /\ Get(k2) \notin {None, Garbled} /\ Verdict(Get(k2), k2, r) = "passed"
      /\ Get(k3) \notin {None, Garbled} /\ Verdict(Get(k3), k3, r) = "passed"
  BY <1>1, <1>2, OutcomeTyped
<1>4. /\ Get(k1).window_end = Get(k2).window_end /\ Get(k1).window_end = Get(k3).window_end
      /\ Get(k1).trips # {} /\ Get(k2).trips # {}
  BY <1>2, OutcomeTyped DEF OneCutoff, HasTrips
<1>5. /\ Get(k1) \in Snapshots /\ age \in 0..Staleness /\ r.pickup - age = Get(k1).window_end
      /\ Get(k1).trips = CompletedIn(trips, "pickup", r.from, Short, Get(k1).window_end)
  BY <1>1, <1>3, PassedSnapshot DEF Length
<1>6. /\ Get(k2) \in Snapshots
      /\ Get(k2).trips = CompletedIn(trips, "pickup", r.from, Long, Get(k2).window_end)
  BY <1>3, PassedSnapshot DEF Length
<1>7. /\ Get(k3) \in Snapshots
      /\ Get(k3).trips = CompletedIn(trips, "dropoff", r.to, Long, Get(k3).window_end)
  BY <1>3, PassedSnapshot DEF Length
<1>8. Features(r) = [pu_zone_15m |-> Get(k1).trips, pu_zone_60m |-> Get(k2).trips,
                     do_zone_60m |-> Get(k3).trips]
  BY <1>1 DEF Features
<1>9. Features(r) = Known(trips, r, r.pickup - age)
  BY <1>4, <1>5, <1>6, <1>7, <1>8 DEF Known
<1>10. /\ Get(k1).trips \in NonEmpty /\ Get(k2).trips \in NonEmpty
       /\ Get(k3).trips \in SUBSET trips
  BY <1>4, <1>5, <1>6, <1>7 DEF Snapshots, NonEmpty
<1> QED BY <1>5, <1>8, <1>9, <1>10

------------------------------------------------------------------------------
LEMMA OnlineStep == OnlineInv /\ [Next]_vars => OnlineInv'
<1> SUFFICES ASSUME OnlineInv, [Next]_vars PROVE OnlineInv'
  OBVIOUS
<1>1. ASSUME NEW months \in {{"target"}, {"previous", "target"}}, BuildGold(months)
      PROVE  OnlineInv'
  BY <1>1 DEF BuildGold, OnlineInv, TypeOK, SnapshotsAreTrue, FreshIsPointInTime, Fresh, Requests,
              NonEmpty
<1>2. ASSUME NEW key \in Keys, NEW kept \in Keys, NEW end \in Cutoffs,
             redis' = [redis EXCEPT ![key] = Snapshot(kept, end)],
             UNCHANGED <<trips, gold, answer>>
      PROVE  OnlineInv'
  <2>1. redis' \in [Keys -> Snapshots \cup NoSnapshot]
    BY <1>2, SnapshotTyped DEF OnlineInv, TypeOK, Snapshots, NoSnapshot
  <2>2. TypeOK'
    BY <1>2, <2>1 DEF OnlineInv, TypeOK, Snapshots, NoSnapshot, Requests, NonEmpty
  <2>3. SnapshotsAreTrue'
    <3> SUFFICES ASSUME NEW k \in Keys, redis'[k] \notin NoSnapshot
                 PROVE  redis'[k].trips = CompletedIn(trips, redis'[k].role, redis'[k].zone,
                                            Length(redis'[k].window), redis'[k].window_end)
      BY <1>2 DEF SnapshotsAreTrue
    <3>1. CASE k = key
      <4>1. redis'[k] = Snapshot(kept, end)
        BY <1>2, <3>1 DEF OnlineInv, TypeOK
      <4> QED BY <4>1, SnapshotTyped
    <3>2. CASE k # key
      <4>1. redis'[k] = redis[k]
        BY <1>2, <3>2 DEF OnlineInv, TypeOK
      <4> QED BY <4>1 DEF OnlineInv, SnapshotsAreTrue
    <3> QED BY <3>1, <3>2
  <2>4. FreshIsPointInTime'
    BY <1>2 DEF OnlineInv, FreshIsPointInTime, Fresh
  <2> QED BY <2>2, <2>3, <2>4 DEF OnlineInv
<1>3. ASSUME NEW key \in Keys, NEW payload \in NoSnapshot, redis' = [redis EXCEPT ![key] = payload],
             UNCHANGED <<trips, gold, answer>>
      PROVE  OnlineInv'
  <2>1. redis' \in [Keys -> Snapshots \cup NoSnapshot]
    BY <1>3 DEF OnlineInv, TypeOK, Snapshots, NoSnapshot
  <2>2. TypeOK'
    BY <1>3, <2>1 DEF OnlineInv, TypeOK, Snapshots, NoSnapshot, Requests, NonEmpty
  <2>3. \A k \in Keys : redis'[k] = redis[k] \/ redis'[k] \in NoSnapshot
    BY <1>3 DEF OnlineInv, TypeOK
  <2> QED BY <1>3, <2>2, <2>3 DEF OnlineInv, SnapshotsAreTrue, FreshIsPointInTime, Fresh
<1>4. ASSUME NEW r \in Requests, Lookup(r) PROVE OnlineInv'
  <2>1. CASE Outcome(r) = "fresh"
    <3>1. PICK age : age = Age(Get(Identities(r)[1]), r)
      OBVIOUS
    <3>2. answer' = [request |-> r, outcome |-> "fresh", values |-> Features(r), age |-> age]
      BY <1>4, <2>1, <3>1 DEF Lookup
    <3>3. answer' \in [request : Requests, outcome : {"fresh"}, age : 0..Staleness,
                       values : [pu_zone_15m : NonEmpty, pu_zone_60m : NonEmpty,
                                 do_zone_60m : SUBSET trips]]
      BY <2>1, <3>1, <3>2, FreshLookup
    <3>4. FreshIsPointInTime'
      BY <1>4, <2>1, <3>1, <3>2, FreshLookup DEF FreshIsPointInTime, Lookup
    <3> QED BY <1>4, <3>3, <3>4 DEF Lookup, OnlineInv, TypeOK, SnapshotsAreTrue, Requests, NonEmpty
  <2>2. CASE Outcome(r) # "fresh"
    <3>1. answer' = [request |-> r, outcome |-> Outcome(r), values |-> None, age |-> 0]
      BY <1>4, <2>2 DEF Lookup
    <3>2. answer' \in [request : Requests, outcome : Outcomes, values : {None}, age : {0}]
      BY <2>2, <3>1, OutcomeTyped
    <3>3. ~Fresh'
      BY <2>2, <3>1 DEF Fresh
    <3> QED BY <1>4, <3>2, <3>3 DEF Lookup, OnlineInv, TypeOK, SnapshotsAreTrue, Requests, NonEmpty,
                                    FreshIsPointInTime
  <2> QED BY <2>1, <2>2
<1>5. ASSUME NEW r \in Requests, LookupFails(r) PROVE OnlineInv'
  <2>1. answer' \in [request : Requests, outcome : Outcomes, values : {None}, age : {0}]
    BY <1>5 DEF LookupFails, Outcomes
  <2>2. ~Fresh'
    BY <1>5 DEF Fresh, LookupFails
  <2> QED BY <1>5, <2>1, <2>2 DEF LookupFails, OnlineInv, TypeOK, SnapshotsAreTrue, Requests,
                                  NonEmpty, FreshIsPointInTime
<1>6. CASE UNCHANGED vars
  BY <1>6 DEF vars, OnlineInv, TypeOK, SnapshotsAreTrue, FreshIsPointInTime, Fresh, Requests, NonEmpty
<1> QED BY <1>1, <1>2, <1>3, <1>4, <1>5, <1>6 DEF Next, Write, WriteMisplaced, WriteForeign, Expire, NoSnapshot

LEMMA OnlineInit == Init => OnlineInv
  BY DEF Init, OnlineInv, TypeOK, SnapshotsAreTrue, NoSnapshot, FreshIsPointInTime, Fresh

(* Type correctness of the store and the answers, for every history of     *)
(* trips and every behaviour of the producer.                              *)
THEOREM TypeCorrect == Spec => []TypeOK
<1>1. OnlineInv => TypeOK
  BY DEF OnlineInv
<1> QED BY <1>1, OnlineInit, OnlineStep, PTL DEF Spec

(* An accepted answer is one moment's truth, not after the pickup.         *)
THEOREM FreshCorrect == Spec => []FreshIsPointInTime
<1>1. OnlineInv => FreshIsPointInTime
  BY DEF OnlineInv
<1> QED BY <1>1, OnlineInit, OnlineStep, PTL DEF Spec

(* Gold rows see strictly earlier completions only, and all of those in    *)
(* the silver partitions that were read.                                   *)
THEOREM GoldCorrect == Spec => []GoldIsPointInTime
<1>1. TypeOK => GoldIsPointInTime
  BY TripsTyped, GoldWindows DEF GoldIsPointInTime, GoldRows, Staged
<1> QED BY <1>1, TypeCorrect, PTL

(* Offline and online agree at lag zero on what silver holds.              *)
THEOREM ParityCorrect == Spec => []FreshMatchesGold
<1>1. ASSUME TypeOK, FreshIsPointInTime, Fresh, answer.age = 0,
             answer.request \in GoldRows(GoldSilver), NEW f \in DOMAIN answer.values
      PROVE  GoldRow(GoldSilver, answer.request)[f] = answer.values[f] \cap GoldSilver
  <2> DEFINE r == answer.request
  <2>1. r \in GoldSilver /\ InMonth(r.pickup, "target") /\ GoldSilver \subseteq trips
    BY <1>1 DEF GoldRows, Staged, GoldSilver, Silver
  <2>2. GoldRow(GoldSilver, r) = Known(GoldSilver, r, r.pickup)
    BY <1>1, <2>1, TripsTyped, GoldWindows
  <2>3. r.pickup - 0 = r.pickup
    BY <1>1, <2>1, TripsTyped DEF AllTrips
  <2>4. answer.values = Known(trips, r, r.pickup)
    BY <1>1, <2>3 DEF FreshIsPointInTime
  <2>5. ASSUME NEW role, NEW zone, NEW w
        PROVE  CompletedIn(GoldSilver, role, zone, w, r.pickup)
                 = CompletedIn(trips, role, zone, w, r.pickup) \cap GoldSilver
    BY <2>1 DEF CompletedIn
  <2> QED BY <2>2, <2>4, <2>5 DEF Known
<1>2. TypeOK /\ FreshIsPointInTime => FreshMatchesGold
  BY <1>1 DEF FreshMatchesGold
<1> QED BY <1>2, TypeCorrect, FreshCorrect, PTL
==============================================================================
