-------------------------- MODULE FailureThrottle --------------------------
(***************************************************************************)
(* The counter of failed attempts, el:throttle:<scope>:<identity>, behind  *)
(* local login (loginPost), directory login (adPost) and the passphrase of *)
(* a link (revealText, downloadFile).  The handlers share one protocol:    *)
(* FailureLimitExceeded, verify, then RegisterFailure or ResetFailures,    *)
(* each a call of its own to Redis, and INCR and EXPIRE inside             *)
(* RegisterFailure two more.  One identity is modelled, the one several    *)
(* requests try at once; counters of different identities never meet.      *)
(***************************************************************************)
EXTENDS Integers, FiniteSets

CONSTANTS
  Attempts,    \* requests with the same identity that may run at once
  Limit,       \* loginFailureLimit, passphraseFailureLimit
  MaxFaults    \* bound: crashes, and calls that fail or whose answer is lost

ASSUME ThrottleAssumption ==
  IsFiniteSet(Attempts) /\ Limit \in Nat \ {0} /\ MaxFaults \in Nat

VARIABLES
  count,     \* the counter; 0 when the key does not exist
  ttl,       \* the TTL of the key
  pc,        \* where each attempt is
  unbounded, \* history: a counter may have been left without its TTL
  faults     \* faults so far

vars == <<count, ttl, pc, unbounded, faults>>

PCs == {"idle", "verify", "wrong", "first", "right"}

Init ==
  /\ count = 0 /\ ttl = "none"
  /\ pc = [p \in Attempts |-> "idle"]
  /\ unbounded = FALSE /\ faults = 0

Goto(p, label) == pc' = [pc EXCEPT ![p] = label]

(* One more fault, within the bound.                                       *)
Fault == faults < MaxFaults /\ faults' = faults + 1

(* Mutant: a limit of n lets n + 1 failures pass.                          *)
ExceededStrictly(n) == n > Limit

(* FailureLimitExceeded and RegisterFailure compare with >=.               *)
Exceeded(n) == n >= Limit

(* FailureLimitExceeded; an attempt over the limit ends here.              *)
Check(p) ==
  /\ pc[p] = "idle" /\ ~Exceeded(count)
  /\ Goto(p, "verify")
  /\ UNCHANGED <<count, ttl, unbounded, faults>>

(* VerifyPassphrase, or the bind to the directory; a user or a directory   *)
(* that cannot be reached counts as a wrong answer.                        *)
Verify(p) ==
  /\ pc[p] = "verify"
  /\ \E answer \in {"right", "wrong"} : Goto(p, answer)
  /\ UNCHANGED <<count, ttl, unbounded, faults>>

(* Mutant: INCR answers 1 for the first failure, not 0.                    *)
NeverFirst(n) == n = 0

(* The failure that starts the window.                                     *)
IsFirst(n) == n = 1

(* INCR of RegisterFailure.  An answer that is lost ends the request, and  *)
(* with it the EXPIRE that may have been due.                              *)
Incr(p) ==
  /\ pc[p] = "wrong"
  /\ count' = count + 1
  /\ \/ /\ Goto(p, IF IsFirst(count + 1) THEN "first" ELSE "idle")
        /\ UNCHANGED <<unbounded, faults>>
     \/ /\ Fault
        /\ Goto(p, "idle")
        /\ unbounded' = (unbounded \/ count = 0)
  /\ UNCHANGED ttl

(* INCR is not executed: the request ends uncounted.                       *)
IncrFails(p) ==
  /\ pc[p] = "wrong"
  /\ Fault
  /\ Goto(p, "idle")
  /\ UNCHANGED <<count, ttl, unbounded>>

(* Mutant: the counter is written with its TTL, whether or not it exists.  *)
ExpireRestoring(p) ==
  /\ pc[p] = "first"
  /\ Goto(p, "idle")
  /\ ttl' = "window"
  /\ UNCHANGED <<count, unbounded, faults>>

(* EXPIRE of RegisterFailure; it does nothing to a key a success deleted,  *)
(* and the counter it meets may be a later one.                            *)
Expire(p) ==
  /\ pc[p] = "first"
  /\ Goto(p, "idle")
  /\ ttl' = IF count > 0 THEN "window" ELSE "none"
  /\ UNCHANGED <<count, unbounded, faults>>

ExpireFails(p) ==
  /\ pc[p] = "first"
  /\ Fault
  /\ Goto(p, "idle")
  /\ unbounded' = TRUE
  /\ UNCHANGED <<count, ttl>>

(* ResetFailures, whose error is ignored.                                  *)
Reset(p) ==
  /\ pc[p] = "right"
  /\ Goto(p, "idle")
  /\ \/ count' = 0 /\ ttl' = "none" /\ UNCHANGED faults
     \/ Fault /\ UNCHANGED <<count, ttl>>
  /\ UNCHANGED unbounded

(* The window ends: Redis drops the key.                                   *)
Lapse ==
  /\ ttl = "window"
  /\ count' = 0 /\ ttl' = "none"
  /\ UNCHANGED <<pc, unbounded, faults>>

(* The server stops and starts again; Redis keeps the counter.             *)
Crash ==
  /\ Fault
  /\ unbounded' = (unbounded \/ \E p \in Attempts : pc[p] = "first")
  /\ pc' = [p \in Attempts |-> "idle"]
  /\ UNCHANGED <<count, ttl>>

Attempt(p) ==
  \/ Check(p) \/ Verify(p) \/ Incr(p) \/ IncrFails(p)
  \/ Expire(p) \/ ExpireFails(p) \/ Reset(p)

Next == (\E p \in Attempts : Attempt(p)) \/ Lapse \/ Crash

Spec == Init /\ [][Next]_vars

(* A handler that has started runs to its end, and windows end.            *)
Fairness ==
  /\ \A p \in Attempts : WF_vars(Verify(p)) /\ WF_vars(Incr(p)) /\ WF_vars(Expire(p))
  /\ \A p \in Attempts : WF_vars(Reset(p))
  /\ WF_vars(Lapse)

FairSpec == Spec /\ Fairness

-----------------------------------------------------------------------------
(* Properties                                                              *)

(* Only a key that exists has a TTL.                                       *)
TypeOK ==
  /\ count \in Nat /\ ttl \in {"none", "window"}
  /\ ttl = "window" => count > 0
  /\ pc \in [Attempts -> PCs]
  /\ unbounded \in BOOLEAN /\ faults \in Nat

(* The check and the count are two calls, so attempts that run at once may *)
(* all pass the check: one window takes fewer than Limit + N failures from *)
(* N concurrent requests, and no more whatever is reset, lost or crashes.  *)
GuessesBounded == count < Limit + Cardinality(Attempts)

(* An identity over the limit is let in again when its window ends, unless *)
(* the EXPIRE that was to start the window was never executed.             *)
BlockedUntilWindowEnds == Exceeded(count) ~> (~Exceeded(count) \/ unbounded)

(* "expired failure counter should not remain blocked": whatever happened  *)
(* before, an identity over the limit is let in again some time.           *)
BlockEnds == Exceeded(count) ~> ~Exceeded(count)
=============================================================================
