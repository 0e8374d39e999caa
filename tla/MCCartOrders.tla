---------------------------- MODULE MCCartOrders ----------------------------
(***************************************************************************)
(* Instances of CartOrders for TLC.  Requests are alike, and so are         *)
(* articles.  MCSpec looks at what may follow as long as few writes were    *)
(* made to the carts together, however they share them: enough to fill a    *)
(* cart, deselect a line of it and order the rest, or to fill the account's *)
(* and a guest's, merge them and order from what they are then.             *)
(***************************************************************************)
EXTENDS CartOrders, FiniteSetsExt, TLC

Symmetry == Permutations(CartRequests) \union Permutations(Articles)

MaxWrites == 4

FewWrites == MapThenSumSet(LAMBDA c : cart[c].version, Carts) <= MaxWrites

MCNext == FewWrites /\ CartsNext

MCSpec == CartsInit /\ [][MCNext]_cartsVars
==============================================================================
