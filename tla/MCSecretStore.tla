---------------------------- MODULE MCSecretStore ----------------------------
(* Small instances of SecretStore: one scoped write token that is granted  *)
(* one of two environments, and an authority beyond the limit.             *)
EXTENDS SecretStore, TLC

CONSTANTS k1, k2, e1, e2, f, g, v, w, T, A1, A2,
          issued, deployed, imported, outside

MCGranted == (T :> {e2})

Ask(o, action) ==
    [op |-> o, action |-> action, token |-> None, environment |-> None, expected |-> 0,
     content |-> None, authority |-> None, certificate |-> None, target |-> None, key |-> None]

Fill(S, value) == [i \in Fields |-> IF i \in S THEN value ELSE None]

Commit(o, S, R, n) ==
    [Ask(o, "commit") EXCEPT !.content = (e1 :> S @@ e2 :> R), !.expected = n]

ByToken(o, action, S, n) ==
    [Ask(o, action) EXCEPT !.token = T, !.environment = e2, !.content = Fill(S, w), !.expected = n]

Pki(o, action, s, i) ==
    [Ask(o, action) EXCEPT !.authority = s, !.certificate = i]

VaultRequests ==
    {Commit(1, Fill({f}, v), None, 0), Commit(2, Fill({f}, v), Fill({f}, v), 0),
     Commit(3, Fill({f}, v), None, 2), Commit(4, Fill({f}, v), Fill({g}, v), 0),
     ByToken(5, "put_item", {f}, 0), ByToken(6, "put_item", {f}, 1),
     ByToken(7, "put_field", {g}, 1), ByToken(8, "delete_field", {f}, 2),
     ByToken(9, "delete_item", {}, 1), Ask(10, "archive"), Ask(11, "unarchive")}

CredentialRequests ==
    {Pki(20, "createAuthority", A1, None), Pki(21, "createAuthority", A2, None),
     Pki(22, "revokeAuthority", A1, None), Pki(23, "issue", A1, issued),
     Pki(24, "register", A1, imported), Pki(25, "register", None, outside),
     Pki(31, "register", None, outside), Pki(26, "revokeCertificate", None, outside),
     [Pki(27, "deploy", A1, deployed) EXCEPT !.token = T, !.environment = e2],
     [Ask(28, "undeploy") EXCEPT !.token = T, !.environment = e2, !.target = deployed],
     [Ask(29, "revoke") EXCEPT !.target = T], [Ask(30, "revoke") EXCEPT !.target = deployed]}

MCRequests ==
    VaultRequests \cup CredentialRequests \cup {Ask(40, "destination")}
    \cup {[Ask(None, "rotate") EXCEPT !.key = i] : i \in Keys}

MCOperations == {r.op : r \in MCRequests} \ {None}

Symmetry == Permutations(Clients) \cup Permutations(Keys)
=============================================================================
