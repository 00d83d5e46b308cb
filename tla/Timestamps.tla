----------------------------- MODULE Timestamps -----------------------------
(***************************************************************************)
(* What becomes of an event's timestamp                                    *)
(* (events-processor/utils/time.go, ToEnrichedEvent in models/event.go).   *)
(*                                                                         *)
(* Instants are whole ticks.  A float64 of today's epoch seconds is a      *)
(* multiple of 2^-22 s, which divides a second and not a millisecond; a    *)
(* thousand times it is rounded to a multiple of 2^-12 ms, which divides a *)
(* millisecond and is a little coarser.  Only these relations matter here. *)
(***************************************************************************)
EXTENDS Integers

CONSTANTS
  Millisecond, Second,  \* in ticks
  Ulp,                  \* spacing of the float64 values of a timestamp
  ProductUlp            \* spacing of the float64 values of a thousand times it

ASSUME PrecisionAssumption ==
  /\ {Millisecond, Second, Ulp, ProductUlp} \subseteq Nat \ {0}
  /\ Second % Millisecond = 0 /\ Second % Ulp = 0
  /\ Millisecond % ProductUlp = 0 /\ Ulp <= ProductUlp
  /\ Ulp % 2 = 1  \* no instant is halfway between two values

NoTime == -1

\* IEEE-754 rounding to nearest, ties upwards.
Nearest(x, spacing) == ((x + spacing \div 2) \div spacing) * spacing
ParseFloat(x) == Nearest(x, Ulp)

\* The largest multiple of a unit that is not later.
Truncate(x, unit) == (x \div unit) * unit

\* A JSON timestamp: a string, a number, or what cannot be converted (text
\* that is not a number, another type).
Kinds == {"string", "float64", "unsupported"}

\* Faulty variant: rounds to the millisecond instead of truncating.
ToTimeRounded(kind, at) ==
  IF kind = "unsupported" THEN NoTime ELSE Nearest(ParseFloat(at), Millisecond)

\* ToTime: whole seconds and nanoseconds of the float, truncated.
ToTime(kind, at) ==
  LET float == ParseFloat(at)
      seconds == Truncate(float, Second)
      nanoseconds == float - seconds
  IN  IF kind = "unsupported" THEN NoTime ELSE Truncate(seconds + nanoseconds, Millisecond)

\* ToFloat64Timestamp: a string is multiplied by 1000, truncated, divided;
\* a number is kept.
ToFloat64Timestamp(kind, at) ==
  CASE kind = "string"      ->
         ParseFloat(Truncate(Nearest(ParseFloat(at), ProductUlp), Millisecond))
    [] kind = "float64"     -> ParseFloat(at)
    [] kind = "unsupported" -> NoTime

\* The zero time.Time, which ingested_at is without a value: long ago.
ZeroTime == -2

\* CustomTime in JSON: its layout, a Unix timestamp, null or "".
StampForms == {"layout", "unix", "empty"}

\* The parser takes a fraction of a second although the layout has none.
UnmarshalJSON(wire) ==
  CASE wire.form = "layout" -> wire.at
    [] wire.form = "unix"   -> ToTime("string", wire.at)
    [] wire.form = "empty"  -> ZeroTime

\* Faulty variant: rounds to the nearest second.
MarshalRounded(t) ==
  IF t = ZeroTime THEN [form |-> "empty", at |-> 0]
                  ELSE [form |-> "layout", at |-> Nearest(t, Second)]

\* The layout drops the fraction.
MarshalJSON(t) ==
  IF t = ZeroTime THEN [form |-> "empty", at |-> 0]
                  ELSE [form |-> "layout", at |-> Truncate(t, Second)]

\* ToEnrichedEvent: both conversions of the same value.
ToEnrichedEvent(ev) ==
  [ok        |-> ev.kind # "unsupported",
   timestamp |-> ToFloat64Timestamp(ev.kind, ev.at),
   time      |-> ToTime(ev.kind, ev.at)]
=============================================================================
