---------------------------- MODULE MCItemLinks ----------------------------
(***************************************************************************)
(* Instances of ItemLinks for TLC.                                         *)
(***************************************************************************)
EXTENDS ItemLinks, TLC

(* Bound: how many links are created.  Links share nothing but the         *)
(* requests, the cleanup and the clock, and what is checked of one link is *)
(* proved of any number of them (ItemLinks_proofs, ItemLinksRefinement).   *)
CONSTANT MaxLinks

FewLinks == Cardinality({l \in Links : make[l] # "none"}) <= MaxLinks

MCSpec == Init /\ [][Next /\ FewLinks']_vars /\ Fairness
=============================================================================
