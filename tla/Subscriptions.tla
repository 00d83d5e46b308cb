--------------------------- MODULE Subscriptions ---------------------------
(***************************************************************************)
(* Which subscription an event is charged to: FetchSubscription            *)
(* (events-processor/models/subscriptions.go) with the time ToEnrichedEvent*)
(* computes, while the API starts, upgrades and terminates the             *)
(* subscriptions of one external id.                                       *)
(***************************************************************************)
EXTENDS Timestamps, SequencesExt

CONSTANTS
  Boundaries,        \* instants at which the API may act
  EventInstants,     \* instants an event may carry
  MaxSubscriptions   \* bound: rows with this external id

ASSUME InstantsAssumption == Boundaries \subseteq Nat /\ EventInstants \subseteq Nat
ASSUME MaxSubscriptionsAssumption == MaxSubscriptions \in Nat

VARIABLES
  subs,   \* the rows, oldest first: [started, terminated]
  now,    \* the last instant at which the API acted
  event   \* the event that is looked up: [kind, at]
vars == <<subs, now, event>>

\* Faulty variants of the condition and of the order.
CoversUnstarted(s, t) ==
  s.terminated = NoTime \/ Truncate(s.terminated, Millisecond) >= t

CoversUntruncated(s, t) ==
  /\ s.started <= t
  /\ s.terminated = NoTime \/ Truncate(s.terminated, Millisecond) >= t

PrecedesNullsLast(a, b) ==
  \/ b.terminated = NoTime /\ a.terminated # NoTime
  \/ /\ a.terminated # NoTime /\ b.terminated # NoTime
     /\ a.terminated > b.terminated
  \/ a.terminated = b.terminated /\ a.started > b.started

\* The conditions of the query: both ends at millisecond precision, inclusive.
Covers(s, t) ==
  /\ Truncate(s.started, Millisecond) <= t
  /\ s.terminated = NoTime \/ Truncate(s.terminated, Millisecond) >= t

\* ORDER BY terminated_at DESC NULLS FIRST, started_at DESC.
Precedes(a, b) ==
  \/ a.terminated = NoTime /\ b.terminated # NoTime
  \/ /\ a.terminated # NoTime /\ b.terminated # NoTime
     /\ a.terminated > b.terminated
  \/ a.terminated = b.terminated /\ a.started > b.started

\* The rows FetchSubscription may return: one, none when nothing is found,
\* several only when the order does not tell them apart.
FetchSubscription(rows, t) ==
  LET found == {i \in DOMAIN rows : Covers(rows[i], t)}
  IN  {i \in found : \A j \in found : ~Precedes(rows[j], rows[i])}

-----------------------------------------------------------------------------
Active == subs # <<>> /\ Last(subs).terminated = NoTime
Started(at) == [started |-> at, terminated |-> NoTime]
Terminated(at) == [subs EXCEPT ![Len(subs)].terminated = at]

Init ==
  /\ subs = <<>>
  /\ now \in {b \in Boundaries : \A c \in Boundaries : b <= c}
  /\ event \in [kind : Kinds, at : EventInstants]

Start(at) ==
  /\ ~Active /\ at >= now /\ Len(subs) < MaxSubscriptions
  /\ subs' = Append(subs, Started(at)) /\ now' = at /\ UNCHANGED event

Terminate(at) ==
  /\ Active /\ at >= now
  /\ subs' = Terminated(at) /\ now' = at /\ UNCHANGED event

\* The old subscription ends and the new one starts at the same instant.
Upgrade(at) ==
  /\ Active /\ at >= now /\ Len(subs) < MaxSubscriptions
  /\ subs' = Append(Terminated(at), Started(at)) /\ now' = at /\ UNCHANGED event

Next == \E at \in Boundaries : Start(at) \/ Terminate(at) \/ Upgrade(at)

Spec == Init /\ [][Next]_vars
-----------------------------------------------------------------------------
Enriched == ToEnrichedEvent(event)
Milliseconds == {Truncate(x, Millisecond) : x \in EventInstants}

\* Two milliseconds away from the ends of a subscription, truncation and
\* float rounding do not matter: the event is charged to that subscription
\* and to no other.
ChargedToItsSubscription ==
  \A i \in DOMAIN subs :
    /\ Enriched.ok /\ event.at >= subs[i].started + 2 * Millisecond
    /\ subs[i].terminated = NoTime \/ event.at + 2 * Millisecond <= subs[i].terminated
    => FetchSubscription(subs, Enriched.time) = {i}

\* An upgrade is seamless: no millisecond of either subscription is without
\* one, and in the millisecond of the upgrade, where both qualify, the event
\* goes to the one that started last.
UpgradeIsSeamless ==
  \A i \in 1 .. Len(subs) - 1 : subs[i].terminated = subs[i + 1].started =>
    \A t \in Milliseconds :
      /\ Truncate(subs[i].started, Millisecond) <= t
      /\ subs[i + 1].terminated = NoTime \/ t <= Truncate(subs[i + 1].terminated, Millisecond)
      => /\ FetchSubscription(subs, t) # {}
         /\ \A k \in FetchSubscription(subs, t) : \A j \in DOMAIN subs :
              Covers(subs[j], t) => subs[j].started <= subs[k].started

\* The past is settled: what the API does at an instant never changes which
\* subscription an earlier event is charged to when it is delivered again.
PastIsStable ==
  [][\A t \in Milliseconds : t < Truncate(now', Millisecond) =>
       FetchSubscription(subs', t) = FetchSubscription(subs, t)]_vars

OnMillisecond == event.at = Truncate(event.at, Millisecond)

\* The two times of an enriched event stay with the raw one.  The time looked up
\* is never past the event but for the rounding of the float, and less than two
\* milliseconds before it; the timestamp sent on keeps the milliseconds of a
\* timestamp string.
TimesAreClose ==
  Enriched.ok =>
    /\ Enriched.time <= event.at + Ulp \div 2
    /\ event.at < Enriched.time + 2 * Millisecond
    /\ event.kind = "string" /\ OnMillisecond => Enriched.timestamp = ParseFloat(event.at)

\* Retries end 12 hours after ingested_at, which goes through JSON again with
\* every dead letter.  Replayed as often as one likes, it is never later than it
\* was, stays within its second, and a missing one stays missing: the 12 hours
\* never start again.
ReplaysKeepIngestedAt ==
  \A form \in StampForms :
    LET stamp == UnmarshalJSON([form |-> form, at |-> event.at])
        wire  == MarshalJSON(stamp)
        again == UnmarshalJSON(wire)
    IN  /\ again <= stamp /\ stamp < again + Second
        /\ MarshalJSON(again) = wire
=============================================================================
