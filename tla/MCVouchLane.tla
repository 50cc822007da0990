---------------------------- MODULE MCVouchLane ----------------------------
(***************************************************************************)
(* Small instances of VouchLane.  Two signatures of one attestation, and   *)
(* its revocation; and a bundle that revokes what was never attested.      *)
(***************************************************************************)
EXTENDS VouchLane

CONSTANTS u1, u2

Signed(kind, uid, signature) ==
    [kind |-> kind, uid |-> uid, signature |-> signature]

MCOperations == {Signed("attest", u1, 1), Signed("attest", u1, 2),
                 Signed("revoke", u1, 0)}
MCOneOperation == {Signed("attest", u1, 1)}
MCBackward == {[previousHead |-> <<>>, payload |-> <<Signed("revoke", u2, 0)>>]}
=============================================================================
