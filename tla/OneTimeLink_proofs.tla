------------------------- MODULE OneTimeLink_proofs -------------------------
(***************************************************************************)
(* The promise means single use, for any set of links.                     *)
(***************************************************************************)
EXTENDS OneTimeLink, TLAPS

(* A link that was not handed out yet has a count of zero, and handing it  *)
(* out is the last thing that happens to it.                               *)
Inv == TypeOK /\ \A l \in Links : opened[l] = 0 \/ (opened[l] = 1 /\ phase[l] = "gone")

(* What a link guards is handed out at most once, and then it is spent.    *)
THEOREM PromiseIsSingleUse == Spec => []OpenedAtMostOnce
<1>1. Init => Inv
  BY DEF Init, Inv, TypeOK, Phases
<1>2. Inv /\ [Next]_vars => Inv'
  <2> SUFFICES ASSUME Inv, [Next]_vars PROVE Inv'
    OBVIOUS
  <2>1. CASE Next
    <3>1. TypeOK'
      BY <2>1 DEF Next, TypeOK
    <3>2. ASSUME NEW l \in Links
          PROVE  opened'[l] = 0 \/ (opened'[l] = 1 /\ phase'[l] = "gone")
      BY <2>1 DEF Next, Publish, Take, HandOut, Withdraw, Rest, Inv
    <3> QED
      BY <3>1, <3>2 DEF Inv
  <2>2. CASE UNCHANGED vars
    BY <2>2 DEF vars, Inv, TypeOK
  <2> QED
    BY <2>1, <2>2
<1>3. Inv => OpenedAtMostOnce
  <2> SUFFICES ASSUME Inv, NEW l \in Links
               PROVE  opened[l] <= 1 /\ (opened[l] = 1 => phase[l] = "gone")
    BY DEF OpenedAtMostOnce
  <2>1. CASE opened[l] = 0
    BY <2>1
  <2>2. CASE opened[l] = 1 /\ phase[l] = "gone"
    BY <2>2
  <2> QED
    BY <2>1, <2>2 DEF Inv
<1> QED
  BY <1>1, <1>2, <1>3, PTL DEF Spec
=============================================================================
