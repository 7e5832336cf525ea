------------------------------ MODULE MCSignIn ------------------------------
(***************************************************************************)
(* What a sign-in with a directory account meets, on small instances: the  *)
(* rate limiter that every request passes, the throttle of failed attempts *)
(* and the integration settings that hold the bind password.  They share   *)
(* no state and are checked one at a time.                                 *)
(***************************************************************************)
EXTENDS RateLimiter, FailureThrottle, Settings

VARIABLE part

mcVars == <<part, limiterVars, vars, settingsVars>>

(* What the idle parts start with makes no difference.                     *)
MCInit ==
  /\ LimiterInit /\ Init /\ SettingsInit
  /\ part \in {"limiter", "throttle", "settings"}
  /\ part # "settings" => config = NoConfig /\ master = CHOOSE k \in MasterKeys : TRUE

MCNext ==
  /\ UNCHANGED part
  /\ \/ part = "limiter" /\ LimiterNext /\ UNCHANGED <<vars, settingsVars>>
     \/ part = "throttle" /\ Next /\ UNCHANGED <<limiterVars, settingsVars>>
     \/ part = "settings" /\ SettingsNext /\ UNCHANGED <<limiterVars, vars>>

(* No handler of the throttle is under way while another part moves: its   *)
(* fairness asks nothing of the others.                                    *)
MCSpec == MCInit /\ [][MCNext]_mcVars /\ Fairness
=============================================================================
