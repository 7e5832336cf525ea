----------------------------- MODULE RequestTtl -----------------------------
(***************************************************************************)
(* How long a link or an upload request lives: ttl() of                    *)
(* src/internal/web/server.go takes a number of seconds from the form, and *)
(* the bounds from the configuration (src/internal/config/config.go).      *)
(* Durations are nanoseconds in a signed integer, whose multiplication by  *)
(* a second wraps.                                                         *)
(***************************************************************************)
EXTENDS Integers

CONSTANTS
  Half,     \* 2^63: int64 and time.Duration run from -Half to Half - 1
  Second    \* nanoseconds in a second

ASSUME TtlAssumption == Half \in Nat \ {0} /\ Second \in Nat \ {0}

VARIABLES
  settings,  \* DefaultTTL and MaxTTL
  form,      \* the number of seconds in the last form
  granted    \* what it was granted

ttlVars == <<settings, form, granted>>

Largest  == Half - 1
Smallest == -Half
Durations == 1..Largest

(* Numbers of a form, those out of range included.                         *)
Numbers == 2 * Smallest .. 2 * Largest

-----------------------------------------------------------------------------
(* What the registers hold of an integer.                                  *)
Wrapped(x) == ((x - Smallest) % (2 * Half)) + Smallest

(* strconv.ParseInt of the digits of n, whose error is ignored: a number   *)
(* out of range yields the nearest one in range, and what is not a number  *)
(* yields 0.                                                               *)
ParseInt(n) == IF n > Largest THEN Largest ELSE IF n < Smallest THEN Smallest ELSE n

Seconds(n) == Wrapped(ParseInt(n) * Second)

(* Mutant: only zero is taken for "none given".                            *)
ClampedFromZero(d) ==
  LET e == IF d = 0 THEN settings.default ELSE d
  IN  IF e > settings.max THEN settings.max ELSE e

Clamped(d) ==
  LET e == IF d <= 0 THEN settings.default ELSE d
  IN  IF e > settings.max THEN settings.max ELSE e

(* Load: a number that does not parse leaves the default of the setting;   *)
(* then both are compared.                                                 *)
TtlInit ==
  /\ settings \in [default : Durations, max : Durations]
  /\ settings.default <= settings.max
  /\ form = 0 /\ granted = settings.default

ttl ==
  /\ \E n \in Numbers : form' = n /\ granted' = Clamped(Seconds(n))
  /\ UNCHANGED settings

TtlSpec == TtlInit /\ [][ttl]_ttlVars

-----------------------------------------------------------------------------
(* Whatever the form sends, wrapped or not, a TTL is positive and at most  *)
(* MaxTTL: nothing is stored for ever and nothing longer than configured.  *)
(* A number of seconds whose duration fits is granted as asked, up to      *)
(* MaxTTL; one that does not may be granted as anything in the range.      *)
TtlInRangeAsAsked ==
  /\ granted \in 1..settings.max
  /\ form \in 1..(Largest \div Second) =>
       granted = IF form * Second < settings.max THEN form * Second ELSE settings.max
=============================================================================
