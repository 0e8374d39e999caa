------------------------------- MODULE MCShop -------------------------------
(***************************************************************************)
(* Parts of the server that share no state, explored side by side: each     *)
(* behaviour is of one of them, and the others stay as they began.          *)
(* Requests, filings and instances have no order among them, nor have       *)
(* accounts and keys; the configuration names them alike, so that one       *)
(* permutation serves each group.                                           *)
(***************************************************************************)
EXTENDS CardPayment, Registration, ReadThrough, TLC

VARIABLE part

Symmetry == Permutations(Requests) \union Permutations(Keys)

(* "Each caller owns its own cache keys and TTLs": in one behaviour the     *)
(* keys are of callers that treat an empty answer alike, and are asked for  *)
(* one at a time or in batches, not both.                                   *)
OneKindOfKeys ==
    /\ \A k, l \in Keys : emptyTtl[k] = emptyTtl[l]
    /\ \A v, w \in DOMAIN works : IsMany(v) <=> IsMany(w)

MCInit ==
    /\ part \in {"payment", "registration", "cache"}
    /\ Init
    /\ RegistrationInit
    /\ ReadThroughInit
    /\ OneKindOfKeys
    /\ part # "cache" => emptyTtl = [k \in Keys |-> Ttl]

MCNext ==
    /\ \/ part = "payment" /\ Next
          /\ UNCHANGED <<RegistrationVars, ReadThroughVars>>
       \/ part = "registration" /\ RegistrationNext
          /\ UNCHANGED <<vars, ReadThroughVars>>
       \/ part = "cache" /\ ReadThroughNext /\ OneKindOfKeys'
          /\ UNCHANGED <<vars, RegistrationVars>>
    /\ UNCHANGED part

MCSpec == MCInit /\ [][MCNext]_<<vars, RegistrationVars, ReadThroughVars, part>>

(* Every variable of every part has its type.                               *)
TypesOK == TypeOK /\ RegistrationTypeOK /\ ReadThroughTypeOK
==============================================================================
