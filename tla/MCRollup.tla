------------------------------ MODULE MCRollup ------------------------------
(***************************************************************************)
(* Rollup for TLC.  Two accounts: `user` is a plain one, `app` can be      *)
(* deployed, destroyed and deployed again.                                 *)
(***************************************************************************)
EXTENDS Rollup, TLC

CONSTANTS user, app, k1, code1, h1, h2, Other, Dai

Body(op, a, b, k, v) ==
  [op |-> op, addr |-> a, peer |-> b, key |-> k, value |-> v, code |-> code1]

NoBody == Body("none", user, app, k1, 0)

\* Bodies that move Ether and touch slots, but wipe no storage.
PlainBodies ==
  {NoBody,
   Body("transfer", user, app, k1, 0),
   Body("deploy", app, user, k1, 1),
   Body("store", app, user, k1, 0)}

\* All of them.
AllBodies ==
  PlainBodies \cup {Body("destroy", app, user, k1, 0),
                    Body("recreate", app, user, k1, 1)}

WipingBodies ==
  {Body("deploy", app, user, k1, 1), Body("destroy", app, user, k1, 0)}

TransferBodies ==
  {NoBody, Body("transfer", user, app, k1, 0)}

EmptyBodies == {NoBody}

HeaderSymmetry == Permutations({h1, h2})
=============================================================================
