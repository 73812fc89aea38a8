---------------------------- MODULE MCMachineRead ----------------------------
(* Small instances of MachineRead.                                         *)
EXTENDS MachineRead

CONSTANTS k1, i1, i2, t1, t2, x1, c1, c2

Text == [bound |-> TRUE, type |-> "text"]
File == [bound |-> TRUE, type |-> "file"]
Unbound == [bound |-> FALSE, type |-> "text"]

MCNamespace == [i \in {i1, i2} |-> IF i = i1 THEN "n1" ELSE "n2"]
MCDocuments == {{i1}, {i1, i2}}
MCContents == {Text, File, Unbound}

(* One token that may be used without a certificate, and one that may not  *)
(* and is out of the scope of an item.                                     *)
MCCredential ==
    [t \in {t1, t2} |->
        [kind |-> IF t = t1 THEN "read-only" ELSE "write-scoped", withoutMTLS |-> t = t1,
         bound |-> IF t = t1 THEN None ELSE x1, granted |-> TRUE, configs |-> {k1},
         namespaces |-> IF t = t1 THEN {"n1", "n2"} ELSE {"n1"}]]

Read(kind, token, certificate, target) ==
    [kind |-> kind, token |-> token, certificate |-> certificate, target |-> target]

Around(clients, requests, n, item) ==
    [clients |-> clients, requests |-> requests, changes |-> n,
     document |-> [k \in {k1} |-> {i1, i2}],
     content |-> [i \in {i1, i2} |-> IF i = i1 THEN item ELSE Text]]

(* One caller and a database that changes under it, or several callers at  *)
(* once that share statements and connections.                             *)
MCWorkloads ==
    {Around({c1}, {Read("config", t1, None, k1)}, 2, Text),
     Around({c1}, {Read("config", t2, x1, k1)}, 2, Text),
     Around({c1}, {Read("file", t1, None, i1)}, 2, File),
     Around({c1}, {Read("release", t1, x1, k1)}, 3, Text),
     Around({c1, c2}, {Read("file", t1, x1, i1)}, 0, File),
     Around({c1, c2}, {Read("release", t2, x1, k1)}, 1, Text)}
=============================================================================
