----------------------------- MODULE MCAuthGate -----------------------------
(* Small instances of AuthGate: an admin's token, a tenant's, and no token *)
(* at all; the key they are signed with is rotated out.                    *)
EXTENDS AuthGate

MCGarbage == {1}

Good(v) == [scheme |-> "bearer", token |-> TRUE, signer |-> v,
            claims |-> TRUE, tenant |-> TRUE, admin |-> TRUE]

MCCredentials ==
  {Good(0),
   [Good(0) EXCEPT !.admin = FALSE],
   [Good(None) EXCEPT !.scheme = "missing"]}
=============================================================================
