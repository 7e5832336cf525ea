---------------------------- MODULE OneTimeLink ----------------------------
(***************************************************************************)
(* What Ephemeral Link promises of a link, with no database, files, clock  *)
(* or processes: a link is open until it is either taken by one recipient  *)
(* or withdrawn (expiry, burn), and what it guards is handed out at most   *)
(* once, to the recipient that took it.  README "Security model" states    *)
(* it as: the first valid request changes the item from available to       *)
(* consumed; later requests receive the gone page.                         *)
(***************************************************************************)
EXTENDS Naturals

CONSTANT Links

VARIABLES
  phase,    \* where each link is in its life
  opened    \* how many times the content of each link was handed out

vars == <<phase, opened>>

Phases == {"draft", "open", "taken", "gone"}

TypeOK ==
  /\ phase \in [Links -> Phases]
  /\ opened \in [Links -> Nat]

Init ==
  /\ phase = [l \in Links |-> "draft"]
  /\ opened = [l \in Links |-> 0]

(* The life of one link.  Handing the content out is the only move that    *)
(* raises the count, and it ends the recipient's turn.                     *)
Publish(l)  == phase[l] = "draft" /\ phase'[l] = "open" /\ opened'[l] = opened[l]
Take(l)     == phase[l] = "open"  /\ phase'[l] = "taken" /\ opened'[l] = opened[l]
HandOut(l)  == phase[l] = "taken" /\ phase'[l] = "gone" /\ opened'[l] = opened[l] + 1
Withdraw(l) == phase[l] # "gone"  /\ phase'[l] = "gone" /\ opened'[l] = opened[l]
Rest(l)     == phase'[l] = phase[l] /\ opened'[l] = opened[l]

(* Several links may move in one step: time passes for all of them, and a  *)
(* crash of the server ends the turn of every recipient being served.      *)
Next ==
  /\ phase' \in [Links -> Phases]
  /\ opened' \in [Links -> Nat]
  /\ \A l \in Links :
        Publish(l) \/ Take(l) \/ HandOut(l) \/ Withdraw(l) \/ Rest(l)

Spec == Init /\ [][Next]_vars

(* Nothing is handed out twice: a link that is not spent was never opened. *)
OpenedAtMostOnce ==
  \A l \in Links : opened[l] <= 1 /\ (opened[l] = 1 => phase[l] = "gone")
=============================================================================
