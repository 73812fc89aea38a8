------------------------- MODULE HumanSessionProofs -------------------------
(***************************************************************************)
(* Proofs about HumanSession: no request is served for a session that has  *)
(* been ended, a sign-in needs an ID token that is newer than the policy,  *)
(* and a session is only ended by a change made after its sign-in.         *)
(*                                                                         *)
(* A policy is what the log of changes says it is. So is every part of a   *)
(* policy that a request or a session holds a copy of, at some earlier     *)
(* length of the log; as the log only grows, it stays so. Two lengths at   *)
(* which a target has the same generation have no change of it in between, *)
(* two with different generations have one.                                *)
(***************************************************************************)
EXTENDS HumanSession, TLAPS

(* What a log says of a target after its first n changes.                  *)

Of(L, i, t) == L[i].change.target = t

GenerationAt(L, t, n, g) ==
    /\ \A i \in 1..n : Of(L, i, t) => L[i].generation <= g
    /\ g # 0 => \E i \in 1..n : Of(L, i, t) /\ L[i].generation = g

LiftedAt(L, t, n, i) ==
    \E j \in (i + 1)..n : Of(L, j, t) /\ L[j].change.action = "unblock"

BlockedAt(L, t, n, b) ==
    b <=> \E i \in 1..n : /\ Of(L, i, t)
                          /\ L[i].change.action = "block"
                          /\ ~LiftedAt(L, t, n, i)

LastAt(L, i, t, n) ==
    /\ i \in 1..n
    /\ Of(L, i, t)
    /\ \A j \in (i + 1)..n : ~Of(L, j, t)

RevokedAt(L, t, n, v) == \A i \in 1..n : LastAt(L, i, t, n) => L[i].stamp = v

(* Every change has a generation and an operation id of its own.           *)
LogOK(L) ==
    /\ \A i \in 1..Len(L) : L[i].generation >= 1 /\ L[i].stamp >= 1
    /\ \A i, j \in 1..Len(L) : i # j => L[i].change.op # L[j].change.op
    /\ \A i, j \in 1..Len(L) :
          i < j /\ L[i].change.target = L[j].change.target => L[i].generation < L[j].generation

Grows(L, M) ==
    /\ Len(L) <= Len(M)
    /\ \A i \in 1..Len(L) : M[i] = L[i]

(* Changes.                                                                *)

Recorded == \A i \in 1..Len(log) : operation[log[i].change.op] # None

ChangeOK(c) ==
    cpc[c] # "idle" =>
        /\ change[c] \in Changes
        /\ operation[change[c].op] = None
        /\ \A d \in Changers \ {c} : cpc[d] # "idle" => change[d].op # change[c].op
        /\ stamp[c] >= 1

PolicyAt(L, t, n, p) ==
    /\ GenerationAt(L, t, n, p.generation)
    /\ BlockedAt(L, t, n, p.blocked)
    /\ RevokedAt(L, t, n, p.revoked)

StoreOK ==
    /\ now >= 1
    /\ LogOK(log)
    /\ Recorded
    /\ \A t \in Targets : PolicyAt(log, t, Len(log), policy[t])

(* Sessions.                                                               *)

IdentityOK(L, id) ==
    /\ id.known.subject <= Len(L)
    /\ id.known.session <= Len(L)
    /\ GenerationAt(L, id.subject, id.known.subject, id.stamp.subject)
    /\ GenerationAt(L, id.session, id.known.session, id.stamp.session)
    /\ BlockedAt(L, id.subject, id.known.subject, FALSE)
    /\ BlockedAt(L, id.session, id.known.session, FALSE)

RowOK(t) == row[t] \in Identity => IdentityOK(log, row[t])

(* Requests.                                                               *)

Admitted(L, w, f, m) ==
    /\ m.subject <= Len(L)
    /\ m.session <= Len(L)
    /\ GenerationAt(L, w.subject, m.subject, f.generation.subject)
    /\ GenerationAt(L, w.session, m.session, f.generation.session)
    /\ BlockedAt(L, w.subject, m.subject, FALSE)
    /\ BlockedAt(L, w.session, m.session, FALSE)
    /\ \A i \in 1..Len(L) :
          LastAt(L, i, w.subject, m.subject) \/ LastAt(L, i, w.session, m.session)
          => L[i].stamp < w.iat

SubjectRead(L, w, f, n) ==
    /\ n <= Len(L)
    /\ GenerationAt(L, w.subject, n, f.generation.subject)
    /\ BlockedAt(L, w.subject, n, f.blocked)

Current(L, id, b) ==
    /\ \A i \in (id.known.subject + 1)..b : ~Of(L, i, id.subject)
    /\ \A i \in (id.known.session + 1)..b : ~Of(L, i, id.session)
    /\ \A i \in 1..b :
          Of(L, i, id.subject) /\ L[i].change.action = "block"
          => LiftedAt(L, id.subject, Len(L), i)

Ended(L, id) ==
    \E i \in 1..Len(L) :
        /\ \/ Of(L, i, id.subject) /\ i > id.known.subject
           \/ Of(L, i, id.session) /\ i > id.known.session
        /\ \A j \in 1..(i - 1) : L[j].change.op # L[i].change.op

CheckOK(r) ==
    pc[r] \in {"subject", "session"} /\ who[r] = None =>
        /\ data[r] \in Identity
        /\ data[r].known.subject <= begun[r]
        /\ data[r].known.session <= begun[r]
        /\ pc[r] = "session" =>
              \E n \in Nat : begun[r] <= n /\ SubjectRead(log, data[r], found[r], n)

SignInOK(r) ==
    /\ pc[r] = "session" /\ who[r] # None =>
          /\ SubjectRead(log, who[r], found[r], seen[r].subject)
          /\ RevokedAt(log, who[r].subject, seen[r].subject, found[r].revoked)
    /\ pc[r] = "renew" => who[r] # None /\ Admitted(log, who[r], found[r], seen[r])

RequestOK(r) ==
    /\ begun[r] <= Len(log)
    /\ pc[r] \in {"idle", "exchange"} => who[r] = None
    /\ data[r] \in Identity => IdentityOK(log, data[r])
    /\ CheckOK(r)
    /\ SignInOK(r)
    /\ pc[r] = "serve" /\ data[r] # Anonymous => Current(log, data[r], begun[r])
    /\ pc[r] = "revoked" => Ended(log, data[r])

IInv ==
    /\ TypeOK
    /\ StoreOK
    /\ \A c \in Changers : ChangeOK(c)
    /\ \A t \in Tokens : RowOK(t)
    /\ \A r \in Requests : RequestOK(r)

-----------------------------------------------------------------------------
(* Lemmas about logs.                                                      *)

LEMMA EntryType ==
  ASSUME NEW L \in Seq(Entry), NEW i \in 1..Len(L)
  PROVE  /\ L[i] \in Entry
         /\ L[i].generation \in Nat /\ L[i].stamp \in Nat
         /\ L[i].change \in Change /\ L[i].change.target \in Targets
  <1>1. L[i] \in Entry
    OBVIOUS
  <1>2. L[i].change \in Change
    BY <1>1, SessionAssumption DEF Entry
  <1> QED BY <1>1, <1>2, SessionAssumption DEF Entry, Time, Change

(* With the same generation there has been no change in between.           *)
LEMMA NoneBetween ==
  ASSUME NEW L \in Seq(Entry), LogOK(L), NEW t, NEW m \in Nat, NEW n \in Nat, NEW g \in Nat,
         n <= Len(L), GenerationAt(L, t, m, g), GenerationAt(L, t, n, g)
  PROVE  \A i \in (m + 1)..n : ~Of(L, i, t)
  <1> SUFFICES ASSUME NEW i \in (m + 1)..n, Of(L, i, t) PROVE FALSE
    OBVIOUS
  <1>0. Len(L) \in Nat /\ i \in 1..Len(L) /\ i \in 1..n
    OBVIOUS
  <1>1. L[i].generation <= g /\ L[i].generation >= 1 /\ L[i].generation \in Nat
    BY <1>0, EntryType DEF GenerationAt, LogOK
  <1>2. PICK j \in 1..m : Of(L, j, t) /\ L[j].generation = g
    BY <1>1 DEF GenerationAt
  <1>3. j < i /\ j \in 1..Len(L)
    BY <1>0
  <1> QED BY <1>0, <1>1, <1>2, <1>3 DEF LogOK, Of

(* With another one there has been a change in between.                    *)
LEMMA SomeBetween ==
  ASSUME NEW L \in Seq(Entry), NEW t, NEW m \in Nat, NEW n \in Nat, NEW g \in Nat, NEW h \in Nat,
         m <= n, n <= Len(L), g # h, GenerationAt(L, t, m, g), GenerationAt(L, t, n, h)
  PROVE  \E i \in (m + 1)..n : Of(L, i, t)
  <1> SUFFICES ASSUME \A i \in (m + 1)..n : ~Of(L, i, t) PROVE FALSE
    OBVIOUS
  <1>1. ASSUME NEW i \in 1..n, Of(L, i, t) PROVE i \in 1..m
    BY <1>1
  <1>2. h <= g
    <2>1. CASE h # 0
      <3>1. PICK i \in 1..n : Of(L, i, t) /\ L[i].generation = h
        BY <2>1 DEF GenerationAt
      <3> QED BY <3>1, <1>1 DEF GenerationAt
    <2> QED BY <2>1
  <1>3. g <= h
    <2>1. CASE g # 0
      <3>1. PICK i \in 1..m : Of(L, i, t) /\ L[i].generation = g
        BY <2>1 DEF GenerationAt
      <3>2. i \in 1..n
        OBVIOUS
      <3> QED BY <3>1, <3>2 DEF GenerationAt
    <2> QED BY <2>1
  <1> QED BY <1>2, <1>3

(* A new block has no earlier unblock that lifts it.                       *)
LEMMA BlockBetween ==
  ASSUME NEW L \in Seq(Entry), NEW t, NEW m \in Nat, NEW n \in Nat,
         m <= n, n <= Len(L), BlockedAt(L, t, m, FALSE), BlockedAt(L, t, n, TRUE)
  PROVE  \E i \in (m + 1)..n : Of(L, i, t)
  <1>1. PICK i \in 1..n : Of(L, i, t) /\ L[i].change.action = "block" /\ ~LiftedAt(L, t, n, i)
    BY DEF BlockedAt
  <1>2. CASE i \in 1..m
    <2>1. PICK j \in (i + 1)..m : Of(L, j, t) /\ L[j].change.action = "unblock"
      BY <1>1, <1>2 DEF BlockedAt, LiftedAt
    <2>2. j \in (i + 1)..n
      OBVIOUS
    <2> QED BY <1>1, <2>1, <2>2 DEF LiftedAt
  <1>3. CASE i \notin 1..m
    <2>1. i \in (m + 1)..n
      BY <1>3
    <2> QED BY <1>1, <2>1
  <1> QED BY <1>2, <1>3

LEMMA LastStays ==
  ASSUME NEW L \in Seq(Entry), NEW M \in Seq(Entry), Grows(L, M), NEW t, NEW n \in Nat,
         n <= Len(L)
  PROVE  \A i \in Nat : LastAt(L, i, t, n) <=> LastAt(M, i, t, n)
  <1>1. \A i \in 1..n : M[i] = L[i]
    BY DEF Grows
  <1> SUFFICES ASSUME NEW i \in Nat PROVE LastAt(L, i, t, n) <=> LastAt(M, i, t, n)
    OBVIOUS
  <1>2. \A j \in (i + 1)..n : M[j] = L[j]
    BY <1>1
  <1> QED BY <1>1, <1>2 DEF LastAt, Of

(* What a log says of its first changes stays when it grows.               *)
LEMMA Stays ==
  ASSUME NEW L \in Seq(Entry), NEW M \in Seq(Entry), Grows(L, M), NEW t, NEW n \in Nat,
         n <= Len(L), NEW v
  PROVE  /\ GenerationAt(L, t, n, v) => GenerationAt(M, t, n, v)
         /\ BlockedAt(L, t, n, v) => BlockedAt(M, t, n, v)
         /\ RevokedAt(L, t, n, v) => RevokedAt(M, t, n, v)
  <1>0. Len(L) \in Nat /\ Len(M) \in Nat
    OBVIOUS
  <1>1. \A i \in 1..n : M[i] = L[i]
    BY <1>0 DEF Grows
  <1>2. GenerationAt(L, t, n, v) => GenerationAt(M, t, n, v)
    BY <1>1 DEF GenerationAt, Of
  <1>3. \A i \in 1..n : LiftedAt(L, t, n, i) <=> LiftedAt(M, t, n, i)
    <2> SUFFICES ASSUME NEW i \in 1..n PROVE LiftedAt(L, t, n, i) <=> LiftedAt(M, t, n, i)
      OBVIOUS
    <2>1. \A j \in (i + 1)..n : M[j] = L[j]
      BY <1>1
    <2> QED BY <2>1 DEF LiftedAt, Of
  <1>4. BlockedAt(L, t, n, v) => BlockedAt(M, t, n, v)
    BY <1>1, <1>3 DEF BlockedAt, Of
  <1>5. \A i \in Nat : LastAt(L, i, t, n) <=> LastAt(M, i, t, n)
    BY LastStays
  <1>6. RevokedAt(L, t, n, v) => RevokedAt(M, t, n, v)
    BY <1>1, <1>5 DEF RevokedAt
  <1> QED BY <1>2, <1>4, <1>6

LEMMA GrowsItself ==
  ASSUME NEW L \in Seq(Entry)
  PROVE  Grows(L, L)
  BY DEF Grows

LEMMA GrowsAppended ==
  ASSUME NEW L \in Seq(Entry), NEW e \in Entry
  PROVE  /\ Append(L, e) \in Seq(Entry)
         /\ Len(Append(L, e)) = Len(L) + 1
         /\ Append(L, e)[Len(L) + 1] = e
         /\ Grows(L, Append(L, e))
  BY DEF Grows

LEMMA IdentityStays ==
  ASSUME NEW L \in Seq(Entry), NEW M \in Seq(Entry), Grows(L, M), NEW id \in Identity,
         IdentityOK(L, id)
  PROVE  IdentityOK(M, id)
  <1>1. /\ id.known.subject \in Nat /\ id.known.session \in Nat
        /\ Len(L) \in Nat /\ Len(M) \in Nat /\ Len(L) <= Len(M)
    BY DEF Identity, Pair, Grows
  <1>2. id.known.subject <= Len(L) /\ id.known.session <= Len(L)
    BY DEF IdentityOK
  <1>3. id.known.subject <= Len(M) /\ id.known.session <= Len(M)
    BY <1>1, <1>2
  <1>4. /\ GenerationAt(M, id.subject, id.known.subject, id.stamp.subject)
        /\ GenerationAt(M, id.session, id.known.session, id.stamp.session)
        /\ BlockedAt(M, id.subject, id.known.subject, FALSE)
        /\ BlockedAt(M, id.session, id.known.session, FALSE)
    BY <1>1, <1>2, Stays DEF IdentityOK
  <1> QED BY <1>3, <1>4 DEF IdentityOK

LEMMA AdmittedStays ==
  ASSUME NEW L \in Seq(Entry), NEW M \in Seq(Entry), Grows(L, M), NEW w, NEW f,
         NEW m \in Pair, Admitted(L, w, f, m)
  PROVE  Admitted(M, w, f, m)
  <1>1. /\ m.subject \in Nat /\ m.session \in Nat
        /\ Len(L) \in Nat /\ Len(M) \in Nat /\ Len(L) <= Len(M)
    BY DEF Pair, Grows
  <1>2. m.subject <= Len(L) /\ m.session <= Len(L)
    BY DEF Admitted
  <1>3. /\ GenerationAt(M, w.subject, m.subject, f.generation.subject)
        /\ GenerationAt(M, w.session, m.session, f.generation.session)
        /\ BlockedAt(M, w.subject, m.subject, FALSE)
        /\ BlockedAt(M, w.session, m.session, FALSE)
    BY <1>1, <1>2, Stays DEF Admitted
  <1>4. ASSUME NEW t \in {w.subject, w.session},
               NEW n \in Nat, n <= Len(L),
               \A i \in 1..Len(L) : LastAt(L, i, t, n) => L[i].stamp < w.iat
        PROVE  \A i \in 1..Len(M) : LastAt(M, i, t, n) => M[i].stamp < w.iat
    <2>1. SUFFICES ASSUME NEW i \in 1..Len(M), LastAt(M, i, t, n) PROVE M[i].stamp < w.iat
      OBVIOUS
    <2>2. LastAt(L, i, t, n)
      BY <1>1, <1>4, <2>1, LastStays
    <2>3. i \in 1..Len(L)
      BY <1>1, <1>4, <2>2 DEF LastAt
    <2>4. L[i].stamp < w.iat
      BY <1>4, <2>2, <2>3
    <2> QED BY <2>3, <2>4 DEF Grows
  <1>5. /\ \A i \in 1..Len(M) : LastAt(M, i, w.subject, m.subject) => M[i].stamp < w.iat
        /\ \A i \in 1..Len(M) : LastAt(M, i, w.session, m.session) => M[i].stamp < w.iat
    <2>1. /\ \A i \in 1..Len(L) : LastAt(L, i, w.subject, m.subject) => L[i].stamp < w.iat
          /\ \A i \in 1..Len(L) : LastAt(L, i, w.session, m.session) => L[i].stamp < w.iat
      BY DEF Admitted
    <2> QED BY <1>1, <1>2, <1>4, <2>1
  <1>6. m.subject <= Len(M) /\ m.session <= Len(M)
    BY <1>1, <1>2
  <1> QED BY <1>3, <1>5, <1>6 DEF Admitted

LEMMA SubjectStays ==
  ASSUME NEW L \in Seq(Entry), NEW M \in Seq(Entry), Grows(L, M), NEW w, NEW f,
         NEW n \in Nat, SubjectRead(L, w, f, n)
  PROVE  SubjectRead(M, w, f, n)
  <1>1. Len(L) \in Nat /\ Len(M) \in Nat /\ Len(L) <= Len(M) /\ n <= Len(L)
    BY DEF SubjectRead, Grows
  <1>2. /\ GenerationAt(M, w.subject, n, f.generation.subject)
        /\ BlockedAt(M, w.subject, n, f.blocked)
    BY <1>1, Stays DEF SubjectRead
  <1> QED BY <1>1, <1>2 DEF SubjectRead

LEMMA CurrentStays ==
  ASSUME NEW L \in Seq(Entry), NEW M \in Seq(Entry), Grows(L, M), NEW id \in Identity,
         NEW b \in Nat, b <= Len(L), Current(L, id, b)
  PROVE  Current(M, id, b)
  <1>1. /\ id.known.subject \in Nat /\ id.known.session \in Nat
        /\ Len(L) \in Nat /\ Len(M) \in Nat /\ Len(L) <= Len(M)
    BY DEF Identity, Pair, Grows
  <1>2. ASSUME NEW i \in 1..b PROVE M[i] = L[i]
    BY <1>1 DEF Grows
  <1>3. \A i \in (id.known.subject + 1)..b : ~Of(M, i, id.subject)
    <2> SUFFICES ASSUME NEW i \in (id.known.subject + 1)..b PROVE ~Of(M, i, id.subject)
      OBVIOUS
    <2>1. i \in 1..b
      BY <1>1
    <2> QED BY <1>2, <2>1 DEF Current, Of
  <1>4. \A i \in (id.known.session + 1)..b : ~Of(M, i, id.session)
    <2> SUFFICES ASSUME NEW i \in (id.known.session + 1)..b PROVE ~Of(M, i, id.session)
      OBVIOUS
    <2>1. i \in 1..b
      BY <1>1
    <2> QED BY <1>2, <2>1 DEF Current, Of
  <1>5. ASSUME NEW i \in 1..b, Of(M, i, id.subject), M[i].change.action = "block"
        PROVE  LiftedAt(M, id.subject, Len(M), i)
    <2>1. LiftedAt(L, id.subject, Len(L), i)
      BY <1>2, <1>5 DEF Current, Of
    <2>2. PICK j \in (i + 1)..Len(L) : Of(L, j, id.subject) /\ L[j].change.action = "unblock"
      BY <2>1 DEF LiftedAt
    <2>3. j \in (i + 1)..Len(M) /\ M[j] = L[j]
      BY <1>1 DEF Grows
    <2> QED BY <2>2, <2>3 DEF LiftedAt, Of
  <1> QED BY <1>3, <1>4, <1>5 DEF Current

LEMMA EndedStays ==
  ASSUME NEW L \in Seq(Entry), NEW M \in Seq(Entry), Grows(L, M), NEW id, Ended(L, id)
  PROVE  Ended(M, id)
  <1>1. Len(L) \in Nat /\ Len(M) \in Nat /\ Len(L) <= Len(M)
    BY DEF Grows
  <1>2. PICK i \in 1..Len(L) :
          /\ \/ Of(L, i, id.subject) /\ i > id.known.subject
             \/ Of(L, i, id.session) /\ i > id.known.session
          /\ \A j \in 1..(i - 1) : L[j].change.op # L[i].change.op
    BY DEF Ended
  <1>3. i \in 1..Len(M) /\ M[i] = L[i]
    BY <1>1 DEF Grows
  <1>4. \A j \in 1..(i - 1) : M[j] = L[j]
    BY <1>1 DEF Grows
  <1> QED BY <1>2, <1>3, <1>4 DEF Ended, Of

(* A change of another target leaves what is said of this one.             *)
LEMMA OtherTarget ==
  ASSUME NEW L \in Seq(Entry), NEW e \in Entry, NEW t, e.change.target # t, NEW p,
         PolicyAt(L, t, Len(L), p)
  PROVE  PolicyAt(Append(L, e), t, Len(L) + 1, p)
  <1> DEFINE M == Append(L, e)
             n == Len(L)
  <1>1. /\ n \in Nat /\ M \in Seq(Entry) /\ Len(M) = n + 1 /\ Grows(L, M)
        /\ ~Of(M, n + 1, t)
    BY GrowsAppended DEF Of
  <1>l. PolicyAt(L, t, n, p) /\ n <= Len(L)
    BY <1>1
  <1> HIDE DEF M, n
  <1>2. PolicyAt(M, t, n, p)
    BY <1>1, <1>l, Stays DEF PolicyAt
  <1>3. GenerationAt(M, t, n + 1, p.generation)
    BY <1>1, <1>2 DEF PolicyAt, GenerationAt
  <1>4. \A i \in 1..n : LiftedAt(M, t, n + 1, i) <=> LiftedAt(M, t, n, i)
    BY <1>1 DEF LiftedAt
  <1>5. BlockedAt(M, t, n + 1, p.blocked)
    BY <1>1, <1>2, <1>4 DEF PolicyAt, BlockedAt
  <1>6. \A i \in 1..n : LastAt(M, i, t, n + 1) => LastAt(M, i, t, n)
    BY <1>1 DEF LastAt
  <1>7. RevokedAt(M, t, n + 1, p.revoked)
    BY <1>1, <1>2, <1>6 DEF PolicyAt, RevokedAt, LastAt
  <1>8. PolicyAt(M, t, n + 1, p)
    BY <1>3, <1>5, <1>7 DEF PolicyAt
  <1> QED BY <1>8 DEF M, n

(* A change of this target does to its policy what CommitChange writes.    *)
LEMMA SameTarget ==
  ASSUME NEW L \in Seq(Entry), NEW e \in Entry, NEW t, e.change.target = t,
         NEW p \in Policy, NEW q \in Policy, PolicyAt(L, t, Len(L), p),
         e.generation = p.generation + 1, q.generation = e.generation,
         q.revoked = e.stamp,
         q.blocked = IF e.change.action = "invalidate" THEN p.blocked
                                                       ELSE e.change.action = "block",
         e.change.action \in Actions
  PROVE  PolicyAt(Append(L, e), t, Len(L) + 1, q)
  <1> DEFINE M == Append(L, e)
             n == Len(L)
  <1>1. /\ n \in Nat /\ M \in Seq(Entry) /\ Len(M) = n + 1 /\ Grows(L, M)
        /\ M[n + 1] = e /\ Of(M, n + 1, t)
    BY GrowsAppended DEF Of
  <1>l. PolicyAt(L, t, n, p) /\ n <= Len(L)
    BY <1>1
  <1> HIDE DEF M, n
  <1>2. PolicyAt(M, t, n, p)
    BY <1>1, <1>l, Stays DEF PolicyAt
  <1>3. p.generation \in Nat /\ q.generation = p.generation + 1
        /\ p.blocked \in BOOLEAN /\ q.blocked \in BOOLEAN
    BY DEF Policy
  <1>g. \A i \in 1..n : M[i].generation \in Nat
    BY <1>1, EntryType
  <1>4. GenerationAt(M, t, n + 1, q.generation)
    <2>1. ASSUME NEW i \in 1..(n + 1), Of(M, i, t) PROVE M[i].generation <= q.generation
      <3>1. CASE i = n + 1
        BY <1>1, <1>3, <3>1
      <3>2. CASE i \in 1..n
        BY <1>2, <1>3, <1>g, <2>1, <3>2 DEF PolicyAt, GenerationAt
      <3> QED BY <1>1, <3>1, <3>2
    <2>2. \E i \in 1..(n + 1) : Of(M, i, t) /\ M[i].generation = q.generation
      <3>1. n + 1 \in 1..(n + 1)
        BY <1>1
      <3> QED BY <1>1, <3>1
    <2> QED BY <2>1, <2>2 DEF GenerationAt
  <1>5. BlockedAt(M, t, n + 1, q.blocked)
    <2>1. CASE e.change.action = "invalidate"
      <3>1. \A i \in 1..n : LiftedAt(M, t, n + 1, i) <=> LiftedAt(M, t, n, i)
        BY <1>1, <2>1 DEF LiftedAt
      <3>2. q.blocked = p.blocked
        BY <2>1
      <3> QED BY <1>1, <1>2, <2>1, <3>1, <3>2 DEF PolicyAt, BlockedAt
    <2>2. CASE e.change.action = "block"
      <3>1. q.blocked
        BY <2>2
      <3>2. n + 1 \in 1..(n + 1) /\ ~LiftedAt(M, t, n + 1, n + 1)
        BY <1>1 DEF LiftedAt
      <3> QED BY <1>1, <2>2, <3>1, <3>2 DEF BlockedAt
    <2>3. CASE e.change.action = "unblock"
      <3>1. ~q.blocked
        BY <2>3
      <3>2. ASSUME NEW i \in 1..(n + 1), M[i].change.action = "block"
            PROVE  LiftedAt(M, t, n + 1, i)
        <4>1. i # n + 1
          BY <1>1, <2>3, <3>2
        <4>2. n + 1 \in (i + 1)..(n + 1)
          BY <1>1, <4>1
        <4> QED BY <1>1, <2>3, <4>2 DEF LiftedAt
      <3> QED BY <3>1, <3>2 DEF BlockedAt
    <2> QED BY <2>1, <2>2, <2>3 DEF Actions
  <1>6. RevokedAt(M, t, n + 1, q.revoked)
    <2>1. ASSUME NEW i \in 1..(n + 1), LastAt(M, i, t, n + 1) PROVE i = n + 1
      <3>1. CASE i \in 1..n
        <4>1. n + 1 \in (i + 1)..(n + 1)
          BY <1>1, <3>1
        <4> QED BY <1>1, <2>1, <4>1 DEF LastAt
      <3> QED BY <1>1, <3>1
    <2> QED BY <1>1, <2>1 DEF RevokedAt
  <1>7. PolicyAt(M, t, n + 1, q)
    BY <1>4, <1>5, <1>6 DEF PolicyAt
  <1> QED BY <1>7 DEF M, n

-----------------------------------------------------------------------------
(* Types.                                                                  *)

LEMMA Plain ==
  /\ Zero \in Pair /\ NothingFound \in Found /\ NoPolicy \in Policy /\ 0 \in Time
  /\ Anonymous \in Session /\ None \notin Session /\ None \notin Claims
  /\ None \notin Tokens /\ None \notin Targets
  BY SessionAssumption, NoneAssumption
     DEF Zero, Pair, NothingFound, Found, NoPolicy, Policy, Time, Session

LEMMA ForgetType ==
  ASSUME RequestTypeOK, NEW r \in Requests, Forget(r)
  PROVE  /\ who' \in [Requests -> Claims \cup {None}]
         /\ found' \in [Requests -> Found]
         /\ seen' \in [Requests -> Pair]
         /\ who'[r] = None
  BY Plain DEF RequestTypeOK, Forget

LEMMA GotoType ==
  ASSUME RequestTypeOK, NEW r \in Requests, NEW s \in Steps, Goto(r, s)
  PROVE  pc' \in [Requests -> Steps] /\ pc'[r] = s
  BY DEF RequestTypeOK, Goto

LEMMA EndType ==
  ASSUME RequestTypeOK, NEW r \in Requests, End(r)
  PROVE  /\ RequestTypeOK'
         /\ pc'[r] = "idle" /\ data'[r] = Anonymous /\ begun'[r] = 0
  <1>1. pc' \in [Requests -> Steps] /\ pc'[r] = "idle"
    BY GotoType DEF End, Steps
  <1>2. /\ who' \in [Requests -> Claims \cup {None}]
        /\ found' \in [Requests -> Found]
        /\ seen' \in [Requests -> Pair]
    BY ForgetType DEF End
  <1>3. /\ token' \in [Requests -> Tokens \cup {None}]
        /\ data' \in [Requests -> Session] /\ data'[r] = Anonymous
        /\ begun' \in [Requests -> Nat] /\ begun'[r] = 0
    BY Plain DEF RequestTypeOK, End
  <1> QED BY <1>1, <1>2, <1>3 DEF RequestTypeOK

LEMMA StoredType ==
  ASSUME TypeOK, NEW t \in Known
  PROVE  Stored(t) \in Session /\ t \in Tokens \cup {None}
  BY Plain DEF TypeOK, StoreTypeOK, Known, Stored

(* A request begins with a copy of what is stored.                         *)
LEMMA LoadType ==
  ASSUME TypeOK, NEW r \in Requests, NEW t \in Known, NEW s \in Steps, Load(r, t, s),
         begun' \in [Requests -> Nat]
  PROVE  /\ RequestTypeOK'
         /\ pc[r] = "idle" /\ pc'[r] = s /\ data'[r] = Stored(t)
         /\ who'[r] = who[r] /\ found'[r] = found[r] /\ seen'[r] = seen[r]
         /\ log' = log /\ row' = row
  <1>1. pc' \in [Requests -> Steps] /\ pc'[r] = s
    BY GotoType DEF Load, TypeOK
  <1>2. /\ token' \in [Requests -> Tokens \cup {None}]
        /\ data' \in [Requests -> Session] /\ data'[r] = Stored(t)
    BY StoredType DEF Load, TypeOK, RequestTypeOK
  <1> QED BY <1>1, <1>2 DEF Load, TypeOK, RequestTypeOK, storeVars

LEMMA PrincipalType ==
  ASSUME RequestTypeOK, NEW r \in Requests, CheckOK(r), pc[r] \in {"subject", "session"}
  PROVE  /\ Principal(r).subject \in Subjects
         /\ Principal(r).session \in SessionIds \cup {None}
         /\ who[r] # None => Principal(r) = who[r] /\ who[r] \in Claims
         /\ who[r] = None => Principal(r) = data[r] /\ data[r] \in Identity
  <1>1. CASE who[r] = None
    <2>1. data[r] \in Identity /\ Principal(r) = data[r]
      BY <1>1 DEF CheckOK, Principal
    <2> QED BY <1>1, <2>1 DEF Identity
  <1>2. CASE who[r] # None
    <2>1. who[r] \in Claims /\ Principal(r) = who[r]
      BY <1>2 DEF RequestTypeOK, Principal
    <2> QED BY <1>2, <2>1 DEF Claims
  <1> QED BY <1>1, <1>2

PolicyOf(t) == IF t = None THEN NoPolicy ELSE policy[t]

LEMMA PoliciesType ==
  ASSUME TypeOK, NEW r \in Requests, CheckOK(r), pc[r] = "session"
  PROVE  LET s == PolicyOf(Principal(r).session) IN
         /\ s \in Policy
         /\ Policies(r) \in Found
         /\ Policies(r).generation = [subject |-> found[r].generation.subject,
                                      session |-> s.generation]
         /\ Policies(r).blocked = (found[r].blocked \/ s.blocked)
         /\ Policies(r).revoked = Later(found[r].revoked, s.revoked)
  <1> DEFINE s == PolicyOf(Principal(r).session)
  <1>1. Principal(r).session \in SessionIds \cup {None}
    BY PrincipalType DEF TypeOK
  <1>2. s \in Policy
    BY <1>1, Plain DEF TypeOK, StoreTypeOK, PolicyOf, Targets
  <1>3. Policies(r) = [generation |-> [subject |-> found[r].generation.subject,
                                       session |-> s.generation],
                       blocked |-> found[r].blocked \/ s.blocked,
                       revoked |-> Later(found[r].revoked, s.revoked)]
    BY DEF Policies, PolicyOf
  <1> HIDE DEF s
  <1>4. found[r] \in Found
    BY DEF TypeOK, RequestTypeOK
  <1>5. /\ s.generation \in Nat /\ s.blocked \in BOOLEAN /\ s.revoked \in Time
        /\ found[r].generation.subject \in Nat /\ found[r].blocked \in BOOLEAN
        /\ found[r].revoked \in Time
    BY <1>2, <1>4 DEF Policy, Found, Pair
  <1>6. Later(found[r].revoked, s.revoked) \in Time
    BY <1>5 DEF Later
  <1>7. Policies(r) \in Found
    BY <1>3, <1>5, <1>6 DEF Found, Pair
  <1>8. /\ Policies(r).generation = [subject |-> found[r].generation.subject,
                                     session |-> s.generation]
        /\ Policies(r).blocked = (found[r].blocked \/ s.blocked)
        /\ Policies(r).revoked = Later(found[r].revoked, s.revoked)
    BY <1>3
  <1>9. s = PolicyOf(Principal(r).session)
    BY DEF s
  <1> QED BY <1>2, <1>7, <1>8, <1>9

(* What nobody has a policy for has the policy of a missing row.           *)
LEMMA PolicyRead ==
  ASSUME TypeOK, StoreOK, NEW t \in Targets \cup {None}
  PROVE  PolicyAt(log, t, Len(log), PolicyOf(t)) /\ PolicyOf(t) \in Policy
  <1>1. CASE t \in Targets
    BY <1>1, Plain DEF StoreOK, PolicyOf, TypeOK, StoreTypeOK
  <1>2. CASE t = None
    <2>1. \A i \in 1..Len(log) : ~Of(log, i, t)
      BY <1>2, Plain, EntryType DEF Of, TypeOK, StoreTypeOK
    <2>2. /\ NoPolicy.generation = 0 /\ NoPolicy.blocked = FALSE /\ PolicyOf(t) = NoPolicy
      BY <1>2 DEF NoPolicy, PolicyOf
    <2> QED BY <2>1, <2>2, Plain DEF PolicyAt, GenerationAt, BlockedAt, RevokedAt, LastAt
  <1> QED BY <1>1, <1>2

-----------------------------------------------------------------------------
(* What a step of one request leaves of the invariant.                     *)

Undisturbed(r) ==
    /\ pc'[r] = pc[r] /\ data'[r] = data[r] /\ who'[r] = who[r] /\ found'[r] = found[r]
    /\ seen'[r] = seen[r] /\ begun'[r] = begun[r]

LEMMA Bystander ==
  ASSUME TypeOK, log' \in Seq(Entry), Grows(log, log'), NEW r \in Requests,
         RequestOK(r), Undisturbed(r)
  PROVE  RequestOK(r)'
  <1>0. /\ log \in Seq(Entry) /\ Len(log) \in Nat /\ Len(log') \in Nat
        /\ Len(log) <= Len(log') /\ begun[r] \in Nat /\ seen[r] \in Pair
        /\ data[r] \in Session
    BY DEF TypeOK, StoreTypeOK, RequestTypeOK, Grows
  <1>1. begun'[r] <= Len(log')
    BY <1>0 DEF RequestOK, Undisturbed
  <1>2. pc'[r] \in {"idle", "exchange"} => who'[r] = None
    BY DEF RequestOK, Undisturbed
  <1>3. data'[r] \in Identity => IdentityOK(log', data'[r])
    <2>1. data[r] \in Identity => IdentityOK(log', data[r])
      BY <1>0, IdentityStays DEF RequestOK
    <2> QED BY <2>1 DEF Undisturbed
  <1>4. CheckOK(r)'
    <2>1. ASSUME NEW n \in Nat, SubjectRead(log, data[r], found[r], n)
          PROVE  SubjectRead(log', data'[r], found'[r], n)
      <3>1. SubjectRead(log', data[r], found[r], n)
        BY <1>0, <2>1, SubjectStays
      <3> QED BY <3>1 DEF Undisturbed
    <2> QED BY <2>1 DEF RequestOK, CheckOK, Undisturbed
  <1>5. SignInOK(r)'
    <2>1. CASE pc[r] = "session" /\ who[r] # None
      <3>1. /\ SubjectRead(log, who[r], found[r], seen[r].subject)
            /\ RevokedAt(log, who[r].subject, seen[r].subject, found[r].revoked)
            /\ seen[r].subject \in Nat /\ seen[r].subject <= Len(log)
        BY <1>0, <2>1 DEF RequestOK, SignInOK, SubjectRead, Pair
      <3>2. SubjectRead(log', who[r], found[r], seen[r].subject)
        BY <1>0, <3>1, SubjectStays
      <3>3. RevokedAt(log', who[r].subject, seen[r].subject, found[r].revoked)
        BY <1>0, <3>1, Stays
      <3> QED BY <2>1, <3>2, <3>3 DEF SignInOK, Undisturbed
    <2>2. CASE pc[r] = "renew"
      <3>1. who[r] # None /\ Admitted(log, who[r], found[r], seen[r])
        BY <2>2 DEF RequestOK, SignInOK
      <3>2. Admitted(log', who[r], found[r], seen[r])
        BY <1>0, <3>1, AdmittedStays
      <3> QED BY <2>2, <3>1, <3>2 DEF SignInOK, Undisturbed
    <2> QED BY <2>1, <2>2 DEF SignInOK, Undisturbed
  <1>6. pc'[r] = "serve" /\ data'[r] # Anonymous => Current(log', data'[r], begun'[r])
    <2>1. pc[r] = "serve" /\ data[r] # Anonymous => Current(log', data[r], begun[r])
      BY <1>0, CurrentStays DEF RequestOK, Session
    <2> QED BY <2>1 DEF Undisturbed
  <1>7. pc'[r] = "revoked" => Ended(log', data'[r])
    <2>1. pc[r] = "revoked" => Ended(log', data[r])
      BY <1>0, EndedStays DEF RequestOK
    <2> QED BY <2>1 DEF Undisturbed
  <1> QED BY <1>1, <1>2, <1>3, <1>4, <1>5, <1>6, <1>7 DEF RequestOK

(* Where nothing has been found out there is little to keep.               *)
LEMMA Plainly ==
  ASSUME NEW r \in Requests, pc'[r] \in {"idle", "save", "logout"}, begun'[r] <= Len(log'),
         data'[r] \in Identity => IdentityOK(log', data'[r]),
         pc'[r] = "idle" => who'[r] = None
  PROVE  RequestOK(r)'
  BY DEF RequestOK, CheckOK, SignInOK

LEMMA StoredOK ==
  ASSUME TypeOK, \A t \in Tokens : RowOK(t), NEW t \in Known, Stored(t) \in Identity
  PROVE  IdentityOK(log, Stored(t))
  BY Plain, NoneAssumption DEF Known, Stored, RowOK, TypeOK, StoreTypeOK

(* Requests that do not touch the rows.                                    *)
LEMMA BeginStep ==
  ASSUME IInv, NEW r \in Requests, Begin(r)
  PROVE  RequestTypeOK' /\ RequestOK(r)' /\ row' = row
  <1>0. /\ TypeOK /\ begun \in [Requests -> Nat] /\ begun[r] <= Len(log)
        /\ Len(log) \in Nat /\ \A t \in Tokens : RowOK(t)
    BY DEF IInv, TypeOK, RequestTypeOK, StoreTypeOK, RequestOK
  <1>i. pc[r] = "idle" => who[r] = None
    BY DEF IInv, RequestOK
  <1>1. PICK t \in Known : Login(r, t) \/ Callback(r, t) \/ Logout(r, t) \/ AttachPrincipal(r, t)
    BY DEF Begin
  <1>2. Stored(t) \in Session /\ (Stored(t) \in Identity => IdentityOK(log, Stored(t)))
    BY <1>0, StoredType, StoredOK
  <1>3. ASSUME NEW s \in {"save", "logout", "exchange"}, Load(r, t, s), begun' = begun
        PROVE  RequestTypeOK' /\ RequestOK(r)' /\ row' = row
    <2>1. /\ RequestTypeOK' /\ pc[r] = "idle" /\ pc'[r] = s /\ data'[r] = Stored(t) /\ who'[r] = who[r]
          /\ log' = log /\ row' = row
      BY <1>0, <1>3, LoadType DEF Steps
    <2> QED BY <1>0, <1>2, <1>3, <1>i, <2>1 DEF RequestOK, CheckOK, SignInOK
  <1>4. CASE Login(r, t) \/ Callback(r, t) \/ Logout(r, t)
    BY <1>3, <1>4 DEF Login, Callback, Logout
  <1>5. CASE Stored(t) = Anonymous /\ Load(r, t, "serve") /\ UNCHANGED begun
    <2>1. /\ RequestTypeOK' /\ pc'[r] = "serve" /\ data'[r] = Anonymous
          /\ log' = log /\ row' = row
      BY <1>0, <1>5, LoadType DEF Steps
    <2> QED BY <1>0, <1>5, <2>1, NoneAssumption DEF RequestOK, CheckOK, SignInOK
  <1>6. CASE /\ Stored(t) # Anonymous
             /\ Load(r, t, "subject")
             /\ begun' = [begun EXCEPT ![r] = Len(log)]
    <2>1. begun' \in [Requests -> Nat] /\ begun'[r] = Len(log)
      BY <1>0, <1>6
    <2>2. /\ RequestTypeOK' /\ pc'[r] = "subject" /\ data'[r] = Stored(t)
          /\ log' = log /\ row' = row
      BY <1>0, <1>6, <2>1, LoadType DEF Steps
    <2>3. Stored(t) \in Identity
      BY <1>2, <1>6 DEF Session
    <2>4. IdentityOK(log, Stored(t))
      BY <1>2, <2>3
    <2>5. Stored(t).known.subject <= Len(log) /\ Stored(t).known.session <= Len(log)
      BY <2>4 DEF IdentityOK
    <2>6. CheckOK(r)'
      BY <2>1, <2>2, <2>3, <2>5 DEF CheckOK
    <2> QED BY <1>0, <2>1, <2>2, <2>4, <2>6 DEF RequestOK, SignInOK
  <1> QED BY <1>1, <1>4, <1>5, <1>6 DEF AttachPrincipal

LEMMA ExchangeStep ==
  ASSUME IInv, NEW r \in Requests, Exchange(r)
  PROVE  RequestTypeOK' /\ RequestOK(r)' /\ row' = row
  <1>0. /\ RequestTypeOK /\ RequestOK(r) /\ log' = log /\ row' = row
        /\ token' = token /\ data' = data /\ found' = found /\ seen' = seen /\ begun' = begun
    BY DEF IInv, TypeOK, Exchange, storeVars
  <1>1. CASE \E a \in Accounts, iat \in Time :
                /\ who' = [who EXCEPT ![r] =
                      [subject |-> a.subject, session |-> a.session, iat |-> iat]]
                /\ Goto(r, "subject")
    <2>1. PICK a \in Accounts, iat \in Time :
             /\ who' = [who EXCEPT ![r] =
                   [subject |-> a.subject, session |-> a.session, iat |-> iat]]
             /\ Goto(r, "subject")
      BY <1>1
    <2>2. [subject |-> a.subject, session |-> a.session, iat |-> iat] \in Claims
      BY SessionAssumption DEF Claims
    <2>3. who' \in [Requests -> Claims \cup {None}] /\ who'[r] \in Claims
      BY <1>0, <2>1, <2>2 DEF RequestTypeOK
    <2>4. pc' \in [Requests -> Steps] /\ pc'[r] = "subject"
      BY <1>0, <2>1, GotoType DEF Steps
    <2>5. RequestTypeOK'
      BY <1>0, <2>3, <2>4 DEF RequestTypeOK
    <2> QED BY <1>0, <2>3, <2>4, <2>5, Plain DEF RequestOK, CheckOK, SignInOK
  <1>2. CASE Goto(r, "save") /\ UNCHANGED who
    <2>1. pc' \in [Requests -> Steps] /\ pc'[r] = "save"
      BY <1>0, <1>2, GotoType DEF Steps
    <2>2. RequestTypeOK'
      BY <1>0, <1>2, <2>1 DEF RequestTypeOK
    <2> QED BY <1>0, <2>1, <2>2, Plainly DEF RequestOK
  <1> QED BY <1>1, <1>2 DEF Exchange

LEMMA ReadSubjectStep ==
  ASSUME IInv, NEW r \in Requests, ReadSubjectPolicy(r)
  PROVE  RequestTypeOK' /\ RequestOK(r)' /\ row' = row
  <1> DEFINE t == Principal(r).subject
             f == [generation |-> [subject |-> policy[t].generation, session |-> 0],
                   blocked |-> policy[t].blocked, revoked |-> policy[t].revoked]
             m == [subject |-> IF who[r] = None THEN 0 ELSE Len(log), session |-> 0]
  <1>0. /\ TypeOK /\ RequestTypeOK /\ RequestOK(r) /\ CheckOK(r) /\ StoreOK
        /\ log' = log /\ row' = row /\ token' = token /\ data' = data /\ who' = who
        /\ begun' = begun /\ pc[r] = "subject"
        /\ Len(log) \in Nat /\ begun[r] \in Nat /\ begun[r] <= Len(log)
    BY DEF IInv, TypeOK, ReadSubjectPolicy, storeVars, RequestOK, StoreTypeOK, RequestTypeOK
  <1>1. /\ t \in Targets
        /\ who[r] # None => t = who[r].subject
        /\ who[r] = None => t = data[r].subject /\ data[r] \in Identity
    BY <1>0, PrincipalType DEF Targets
  <1>2. policy[t] \in Policy /\ PolicyAt(log, t, Len(log), policy[t])
    BY <1>0, <1>1 DEF StoreOK, TypeOK, StoreTypeOK
  <1>3. /\ pc' \in [Requests -> Steps] /\ pc'[r] = "session"
    BY <1>0, GotoType DEF ReadSubjectPolicy, Steps
  <1>4. f \in Found /\ m \in Pair
    BY <1>0, <1>2 DEF Found, Pair, Policy
  <1>5. /\ found' = [found EXCEPT ![r] = f]
        /\ seen' = [seen EXCEPT ![r] = m]
    BY DEF ReadSubjectPolicy
  <1>6. /\ f.generation.subject = policy[t].generation
        /\ f.blocked = policy[t].blocked /\ f.revoked = policy[t].revoked
        /\ who[r] # None => m.subject = Len(log)
    OBVIOUS
  <1> HIDE DEF t, f, m
  <1>7. /\ found' \in [Requests -> Found] /\ found'[r] = f
        /\ seen' \in [Requests -> Pair] /\ seen'[r] = m
    BY <1>0, <1>4, <1>5 DEF RequestTypeOK
  <1>8. RequestTypeOK'
    BY <1>0, <1>3, <1>7 DEF RequestTypeOK
  <1>9. ASSUME NEW w, w.subject = t PROVE SubjectRead(log, w, f, Len(log))
    BY <1>0, <1>2, <1>6, <1>9 DEF SubjectRead, PolicyAt
  <1>10. CheckOK(r)'
    <2>1. CASE who[r] = None
      <3>1. SubjectRead(log, data[r], f, Len(log))
        BY <1>1, <1>9, <2>1
      <3> QED BY <1>0, <1>1, <1>3, <1>7, <2>1, <3>1 DEF CheckOK
    <2> QED BY <1>0, <2>1 DEF CheckOK
  <1>11. SignInOK(r)'
    <2>1. CASE who[r] # None
      <3>1. SubjectRead(log, who[r], f, m.subject)
        BY <1>1, <1>6, <1>9, <2>1
      <3>2. RevokedAt(log, who[r].subject, m.subject, f.revoked)
        BY <1>1, <1>2, <1>6, <2>1 DEF PolicyAt
      <3> QED BY <1>0, <1>3, <1>7, <3>1, <3>2 DEF SignInOK
    <2> QED BY <1>0, <1>3, <2>1 DEF SignInOK
  <1> QED BY <1>0, <1>3, <1>8, <1>10, <1>11 DEF RequestOK

(* A sign-in that is let in has seen no block, and only older changes.     *)
LEMMA AdmitStep ==
  ASSUME IInv, NEW r \in Requests, AdmitSignIn(r)
  PROVE  RequestTypeOK' /\ RequestOK(r)' /\ row' = row
  <1> DEFINE n == seen[r].subject
             f == Policies(r)
             s == PolicyOf(Principal(r).session)
             m == [subject |-> n, session |-> Len(log)]
             w == who[r]
  <1>0. /\ TypeOK /\ RequestTypeOK /\ RequestOK(r) /\ CheckOK(r) /\ SignInOK(r) /\ StoreOK
        /\ log' = log /\ row' = row /\ token' = token /\ data' = data /\ begun' = begun
        /\ pc[r] = "session" /\ w # None /\ log \in Seq(Entry)
        /\ Len(log) \in Nat /\ n \in Nat /\ begun[r] <= Len(log)
    BY DEF IInv, TypeOK, AdmitSignIn, storeVars, RequestOK, StoreTypeOK, RequestTypeOK, Pair
  <1>1. /\ w \in Claims /\ w.iat \in Time /\ Principal(r) = w
        /\ w.session \in Targets \cup {None}
    BY <1>0, PrincipalType DEF Claims, Targets
  <1>2. /\ f \in Found
        /\ f.generation.subject = found[r].generation.subject
        /\ f.generation.session = s.generation
        /\ f.blocked = (found[r].blocked \/ s.blocked)
        /\ f.revoked = Later(found[r].revoked, s.revoked)
    <2>1. /\ f \in Found
          /\ f.generation = [subject |-> found[r].generation.subject, session |-> s.generation]
          /\ f.blocked = (found[r].blocked \/ s.blocked)
          /\ f.revoked = Later(found[r].revoked, s.revoked)
      BY <1>0, PoliciesType
    <2> HIDE DEF f, s
    <2> QED BY <2>1
  <1>3. PolicyAt(log, w.session, Len(log), s) /\ s \in Policy
    BY <1>0, <1>1, PolicyRead
  <1>4. /\ SubjectRead(log, w, found[r], n)
        /\ RevokedAt(log, w.subject, n, found[r].revoked)
    BY <1>0 DEF SignInOK
  <1>5. found[r] \in Found /\ found[r].blocked \in BOOLEAN /\ found[r].revoked \in Time
        /\ s.blocked \in BOOLEAN /\ s.revoked \in Time
    BY <1>0, <1>3 DEF RequestTypeOK, Found, Policy
  <1>6. CASE /\ Admits(f, w.iat)
             /\ Goto(r, "renew")
             /\ found' = [found EXCEPT ![r] = f]
             /\ seen' = [seen EXCEPT ![r] = m]
             /\ UNCHANGED who
    <2>1. pc' \in [Requests -> Steps] /\ pc'[r] = "renew"
      BY <1>0, <1>6, GotoType DEF Steps
    <2>2. m \in Pair /\ m.subject = n /\ m.session = Len(log)
      BY <1>0 DEF Pair
    <2>3. ~f.blocked /\ (f.revoked > 0 => w.iat > f.revoked)
      BY <1>6 DEF Admits
    <2>4. BlockedAt(log, w.subject, n, FALSE) /\ BlockedAt(log, w.session, Len(log), FALSE)
      <3>1. found[r].blocked = FALSE /\ s.blocked = FALSE
        BY <1>2, <1>5, <2>3
      <3> QED BY <1>3, <1>4, <3>1 DEF SubjectRead, PolicyAt
    <2> HIDE DEF n, f, s, m, w
    <2>5. \A v \in {found[r].revoked, s.revoked} : v >= 1 => v < w.iat
      BY <1>1, <1>2, <1>5, <2>3 DEF Later, Time
    <2>6. \A i \in 1..Len(log) :
             LastAt(log, i, w.subject, m.subject) \/ LastAt(log, i, w.session, m.session)
             => log[i].stamp < w.iat
      <3> SUFFICES ASSUME NEW i \in 1..Len(log),
                          \/ LastAt(log, i, w.subject, n)
                          \/ LastAt(log, i, w.session, Len(log))
                   PROVE  log[i].stamp < w.iat
        BY <2>2
      <3>1. log[i].stamp >= 1
        BY <1>0 DEF StoreOK, LogOK
      <3>2. CASE LastAt(log, i, w.subject, n)
        BY <1>4, <2>5, <3>1, <3>2 DEF RevokedAt, LastAt
      <3>3. CASE LastAt(log, i, w.session, Len(log))
        BY <1>3, <2>5, <3>1, <3>3 DEF RevokedAt, LastAt, PolicyAt
      <3> QED BY <3>2, <3>3
    <2>7. Admitted(log, w, f, m)
      <3>1. GenerationAt(log, w.subject, n, f.generation.subject) /\ n <= Len(log)
        BY <1>2, <1>4 DEF SubjectRead
      <3>2. GenerationAt(log, w.session, Len(log), f.generation.session)
        BY <1>2, <1>3 DEF PolicyAt
      <3>3. m.subject <= Len(log) /\ m.session <= Len(log)
        BY <1>0, <2>2, <3>1
      <3> QED BY <2>2, <2>4, <2>6, <3>1, <3>2, <3>3 DEF Admitted
    <2>8. /\ found' \in [Requests -> Found] /\ found'[r] = f
          /\ seen' \in [Requests -> Pair] /\ seen'[r] = m
          /\ who' = who
      BY <1>0, <1>2, <1>6, <2>2 DEF RequestTypeOK
    <2>9. RequestTypeOK'
      BY <1>0, <2>1, <2>8 DEF RequestTypeOK
    <2>10. SignInOK(r)'
      BY <1>0, <2>1, <2>7, <2>8 DEF SignInOK, w
    <2> QED BY <1>0, <2>1, <2>9, <2>10 DEF RequestOK, CheckOK
  <1>7. CASE Goto(r, "save") /\ Forget(r)
    <2>1. pc' \in [Requests -> Steps] /\ pc'[r] = "save"
      BY <1>0, <1>7, GotoType DEF Steps
    <2>2. RequestTypeOK'
      BY <1>0, <1>7, <2>1, ForgetType DEF RequestTypeOK
    <2> QED BY <1>0, <2>1, <2>2, Plainly DEF RequestOK
  <1> QED BY <1>6, <1>7 DEF AdmitSignIn

(* A session that is accepted is current, another one has been ended.      *)
LEMMA AcceptStep ==
  ASSUME IInv, NEW r \in Requests, AcceptSession(r)
  PROVE  RequestTypeOK' /\ RequestOK(r)' /\ row' = row
  <1> DEFINE f == Policies(r)
             s == PolicyOf(Principal(r).session)
             id == data[r]
             b == begun[r]
  <1>0. /\ TypeOK /\ RequestTypeOK /\ RequestOK(r) /\ CheckOK(r) /\ StoreOK /\ LogOK(log)
        /\ log' = log /\ row' = row /\ token' = token /\ data' = data /\ begun' = begun
        /\ pc[r] = "session" /\ who[r] = None /\ log \in Seq(Entry)
        /\ Len(log) \in Nat /\ b \in Nat /\ b <= Len(log)
    BY DEF IInv, TypeOK, AcceptSession, storeVars, RequestOK, StoreTypeOK, RequestTypeOK, StoreOK
  <1>1. /\ id \in Identity /\ Principal(r) = id /\ IdentityOK(log, id)
        /\ id.known.subject \in Nat /\ id.known.session \in Nat
        /\ id.stamp \in Pair /\ id.stamp.subject \in Nat /\ id.stamp.session \in Nat
        /\ id.session \in Targets \cup {None}
    BY <1>0, PrincipalType DEF Identity, Pair, RequestOK, Targets
  <1>2. /\ id.known.subject <= b /\ id.known.session <= b
        /\ \E n \in Nat : b <= n /\ SubjectRead(log, id, found[r], n)
    BY <1>0 DEF CheckOK
  <1>3. PICK n \in Nat : b <= n /\ SubjectRead(log, id, found[r], n)
    BY <1>2
  <1>4. /\ f \in Found
        /\ f.generation = [subject |-> found[r].generation.subject, session |-> s.generation]
        /\ f.blocked = (found[r].blocked \/ s.blocked)
    BY <1>0, PoliciesType
  <1>5. PolicyAt(log, id.session, Len(log), s) /\ s \in Policy
    BY <1>0, <1>1, PolicyRead
  <1>6. /\ found[r].blocked \in BOOLEAN /\ found[r].generation.subject \in Nat
        /\ s.blocked \in BOOLEAN /\ s.generation \in Nat
    BY <1>0, <1>5 DEF RequestTypeOK, Found, Policy, Pair
  <1>7. /\ n <= Len(log)
        /\ GenerationAt(log, id.subject, n, found[r].generation.subject)
        /\ BlockedAt(log, id.subject, n, found[r].blocked)
        /\ GenerationAt(log, id.session, Len(log), s.generation)
        /\ BlockedAt(log, id.session, Len(log), s.blocked)
    BY <1>3, <1>5 DEF SubjectRead, PolicyAt
  <1>8. /\ GenerationAt(log, id.subject, id.known.subject, id.stamp.subject)
        /\ GenerationAt(log, id.session, id.known.session, id.stamp.session)
        /\ BlockedAt(log, id.subject, id.known.subject, FALSE)
        /\ BlockedAt(log, id.session, id.known.session, FALSE)
    BY <1>1 DEF IdentityOK
  <1>9. Goto(r, IF Accepts(f, id.stamp) THEN "serve" ELSE "revoked") /\ Forget(r)
    BY DEF AcceptSession
  <1>10. /\ pc' \in [Requests -> Steps]
         /\ pc'[r] = IF Accepts(f, id.stamp) THEN "serve" ELSE "revoked"
    BY <1>0, <1>9, GotoType DEF Steps
  <1>11. RequestTypeOK'
    BY <1>0, <1>9, <1>10, ForgetType DEF RequestTypeOK
  <1> HIDE DEF f, s, id, b
  <1>12. CASE Accepts(f, id.stamp)
    <2>1. ~f.blocked /\ f.generation = id.stamp
      BY <1>12 DEF Accepts
    <2>2. /\ found[r].blocked = FALSE
          /\ id.stamp.subject = found[r].generation.subject
          /\ id.stamp.session = s.generation
      BY <1>4, <1>6, <2>1
    <2>3. \A i \in (id.known.subject + 1)..n : ~Of(log, i, id.subject)
      BY <1>0, <1>1, <1>7, <1>8, <2>2, NoneBetween
    <2>4. \A i \in (id.known.session + 1)..Len(log) : ~Of(log, i, id.session)
      BY <1>0, <1>1, <1>7, <1>8, <2>2, NoneBetween
    <2>5. ASSUME NEW i \in 1..b, Of(log, i, id.subject), log[i].change.action = "block"
          PROVE  LiftedAt(log, id.subject, Len(log), i)
      <3>1. i \in 1..n
        BY <1>0, <1>3
      <3>2. LiftedAt(log, id.subject, n, i)
        BY <1>7, <2>2, <2>5, <3>1 DEF BlockedAt
      <3> QED BY <1>0, <1>7, <3>2 DEF LiftedAt
    <2>6. Current(log, id, b)
      BY <1>0, <1>1, <1>3, <1>7, <2>3, <2>4, <2>5 DEF Current
    <2> QED BY <1>0, <1>10, <1>11, <1>12, <2>6 DEF RequestOK, CheckOK, SignInOK, id, b
  <1>13. CASE ~Accepts(f, id.stamp)
    <2>1. \/ found[r].blocked = TRUE
          \/ s.blocked = TRUE
          \/ id.stamp.subject # found[r].generation.subject
          \/ id.stamp.session # s.generation
      BY <1>1, <1>4, <1>6, <1>13 DEF Accepts, Pair
    <2>2. id.known.subject <= n /\ id.known.session <= Len(log)
      BY <1>0, <1>1, <1>2, <1>3
    <2>3. \/ \E i \in (id.known.subject + 1)..n : Of(log, i, id.subject)
          \/ \E i \in (id.known.session + 1)..Len(log) : Of(log, i, id.session)
      <3>1. CASE found[r].blocked = TRUE
        <4>1. BlockedAt(log, id.subject, n, TRUE)
          BY <1>7, <3>1
        <4>2. BlockedAt(log, id.subject, id.known.subject, FALSE)
          BY <1>8
        <4>3. /\ id.known.subject \in Nat /\ log \in Seq(Entry)
              /\ id.known.subject <= n /\ n <= Len(log)
          BY <1>0, <1>1, <1>7, <2>2
        <4>4. \E i \in (id.known.subject + 1)..n : Of(log, i, id.subject)
          BY <4>1, <4>2, <4>3, BlockBetween
        <4> QED BY <4>4
      <3>2. CASE s.blocked = TRUE
        <4>1. BlockedAt(log, id.session, Len(log), TRUE)
          BY <1>7, <3>2
        <4>2. BlockedAt(log, id.session, id.known.session, FALSE)
          BY <1>8
        <4>3. /\ id.known.session \in Nat /\ log \in Seq(Entry)
              /\ id.known.session <= Len(log) /\ Len(log) \in Nat /\ Len(log) <= Len(log)
          BY <1>0, <1>1, <2>2
        <4>4. \E i \in (id.known.session + 1)..Len(log) : Of(log, i, id.session)
          BY <4>1, <4>2, <4>3, BlockBetween
        <4> QED BY <4>4
      <3>3. CASE id.stamp.subject # found[r].generation.subject
        BY <1>0, <1>1, <1>6, <1>7, <1>8, <2>2, <3>3, SomeBetween
      <3>4. CASE id.stamp.session # s.generation
        BY SMTT(30), <1>0, <1>1, <1>6, <1>7, <1>8, <2>2, <3>4, SomeBetween
      <3> QED BY <2>1, <3>1, <3>2, <3>3, <3>4
    <2>4. PICK i \in 1..Len(log) :
             \/ Of(log, i, id.subject) /\ i > id.known.subject
             \/ Of(log, i, id.session) /\ i > id.known.session
      BY <1>0, <1>1, <1>7, <2>3
    <2>5. \A j \in 1..(i - 1) : log[j].change.op # log[i].change.op
      BY <1>0 DEF LogOK
    <2>6. Ended(log, id)
      BY <2>4, <2>5 DEF Ended
    <2> QED BY <1>0, <1>10, <1>11, <1>13, <2>6 DEF RequestOK, CheckOK, SignInOK, id
  <1> QED BY <1>12, <1>13

(* A session begins with the generations its sign-in was admitted with.    *)
LEMMA RenewStep ==
  ASSUME IInv, NEW r \in Requests, RenewToken(r)
  PROVE  /\ RequestTypeOK' /\ RequestOK(r)'
         /\ row' \in [Tokens -> Session \cup {None}]
         /\ \A t \in Tokens : RowOK(t)'
  <1> DEFINE id == [subject |-> who[r].subject, session |-> who[r].session,
                    stamp |-> found[r].generation, known |-> seen[r]]
  <1>0. /\ RequestTypeOK /\ RequestOK(r) /\ SignInOK(r) /\ log' = log /\ begun' = begun
        /\ \A t \in Tokens : RowOK(t)
        /\ row \in [Tokens -> Session \cup {None}]
        /\ pc[r] = "renew" /\ token[r] \in Tokens \cup {None}
    BY DEF IInv, TypeOK, StoreTypeOK, RequestTypeOK, RenewToken, storeVars, RequestOK
  <1>1. /\ who[r] \in Claims /\ Admitted(log, who[r], found[r], seen[r])
        /\ found[r] \in Found /\ seen[r] \in Pair
    BY <1>0 DEF SignInOK, RequestTypeOK
  <1>2. id \in Identity
    BY <1>1 DEF Identity, Claims, Found
  <1>3. /\ id.subject = who[r].subject /\ id.session = who[r].session
        /\ id.known = seen[r] /\ id.stamp = found[r].generation
    OBVIOUS
  <1>4. data' = [data EXCEPT ![r] = id]
    BY DEF RenewToken
  <1> HIDE DEF id
  <1>5. IdentityOK(log, id)
    BY <1>1, <1>3 DEF Admitted, IdentityOK
  <1>6. /\ data' \in [Requests -> Session] /\ data'[r] = id
    BY <1>0, <1>2, <1>4 DEF RequestTypeOK, Session
  <1>7. /\ pc' \in [Requests -> Steps] /\ pc'[r] = "save"
    BY <1>0, GotoType DEF RenewToken, Steps
  <1>8. token' \in [Requests -> Tokens \cup {None}]
    BY <1>0 DEF RenewToken, RequestTypeOK
  <1>9. RequestTypeOK'
    BY <1>0, <1>6, <1>7, <1>8, ForgetType DEF RequestTypeOK, RenewToken
  <1>10. RequestOK(r)'
    BY <1>0, <1>5, <1>6, <1>7, Plainly DEF RequestOK
  <1>11. row' \in [Tokens -> Session \cup {None}]
    BY <1>0 DEF RenewToken
  <1>12. \A t \in Tokens : row'[t] \in {row[t], None}
    BY <1>0 DEF RenewToken
  <1>13. \A t \in Tokens : RowOK(t)'
    BY <1>0, <1>12, Plain DEF RowOK, Session
  <1> QED BY <1>9, <1>10, <1>11, <1>13

LEMMA SaveStep ==
  ASSUME IInv, NEW r \in Requests, Save(r)
  PROVE  /\ RequestTypeOK' /\ RequestOK(r)'
         /\ row' \in [Tokens -> Session \cup {None}]
         /\ \A t \in Tokens : RowOK(t)'
  <1>0. /\ RequestTypeOK /\ RequestOK(r) /\ log' = log /\ Len(log) \in Nat
        /\ \A t \in Tokens : RowOK(t)
        /\ row \in [Tokens -> Session \cup {None}]
        /\ data[r] \in Session
    BY DEF IInv, TypeOK, StoreTypeOK, RequestTypeOK, Save, storeVars
  <1>1. /\ RequestTypeOK' /\ pc'[r] = "idle" /\ data'[r] = Anonymous /\ begun'[r] = 0
        /\ who'[r] = None
    BY <1>0, EndType, ForgetType DEF Save, End
  <1>2. RequestOK(r)'
    BY <1>0, <1>1, NoneAssumption, Plainly
  <1>3. row' \in [Tokens -> Session \cup {None}]
    BY <1>0 DEF Save
  <1>4. \A t \in Tokens : row'[t] \in {row[t], data[r]}
    BY <1>0 DEF Save
  <1>5. data[r] \in Identity => IdentityOK(log, data[r])
    BY <1>0 DEF RequestOK
  <1>6. \A t \in Tokens : RowOK(t)'
    BY <1>0, <1>4, <1>5 DEF RowOK
  <1> QED BY <1>1, <1>2, <1>3, <1>6

LEMMA LeaveStep ==
  ASSUME IInv, NEW r \in Requests, Destroy(r) \/ Unavailable(r) \/ Disconnect(r)
  PROVE  /\ RequestTypeOK' /\ RequestOK(r)'
         /\ row' \in [Tokens -> Session \cup {None}]
         /\ \A t \in Tokens : RowOK(t)'
  <1>0. /\ RequestTypeOK /\ RequestOK(r) /\ log' = log /\ Len(log) \in Nat
        /\ \A t \in Tokens : RowOK(t)
        /\ row \in [Tokens -> Session \cup {None}]
    BY DEF IInv, TypeOK, StoreTypeOK, RequestTypeOK, Destroy, Unavailable, Disconnect, storeVars
  <1>1. CASE Destroy(r) \/ Disconnect(r)
    <2>1. /\ RequestTypeOK' /\ pc'[r] = "idle" /\ data'[r] = Anonymous /\ begun'[r] = 0
          /\ who'[r] = None
      BY <1>0, <1>1, EndType, ForgetType DEF Destroy, Disconnect, End
    <2>2. RequestOK(r)'
      BY <1>0, <2>1, NoneAssumption, Plainly
    <2>3. row' \in [Tokens -> Session \cup {None}]
      BY <1>0, <1>1 DEF Destroy, Disconnect
    <2>4. \A t \in Tokens : row'[t] \in {row[t], None}
      BY <1>0, <1>1 DEF Destroy, Disconnect
    <2>5. \A t \in Tokens : RowOK(t)'
      BY <1>0, <2>4, Plain DEF RowOK, Session
    <2> QED BY <2>1, <2>2, <2>3, <2>5
  <1>2. CASE Unavailable(r)
    <2>1. Goto(r, "save") /\ Forget(r)
          /\ row' = row /\ token' = token /\ data' = data /\ begun' = begun
      BY <1>2 DEF Unavailable
    <2>2. pc' \in [Requests -> Steps] /\ pc'[r] = "save"
      BY <1>0, <2>1, GotoType DEF Steps
    <2>3. RequestTypeOK'
      BY <1>0, <2>1, <2>2, ForgetType DEF RequestTypeOK
    <2>4. RequestOK(r)'
      BY <1>0, <2>1, <2>2, Plainly DEF RequestOK
    <2> QED BY <1>0, <2>1, <2>3, <2>4 DEF RowOK
  <1> QED BY <1>1, <1>2

-----------------------------------------------------------------------------
(* A step of one request leaves the others as they are.                    *)

LEMMA OthersUndisturbed ==
  ASSUME RequestTypeOK, NEW r \in Requests, NEW q \in Requests, q # r, Step(r)
  PROVE  Undisturbed(q)
  <1> USE DEF RequestTypeOK, Undisturbed
  <1>1. ASSUME NEW s, Goto(r, s) PROVE pc'[q] = pc[q]
    BY <1>1 DEF Goto
  <1>2. ASSUME Forget(r) PROVE who'[q] = who[q] /\ found'[q] = found[q] /\ seen'[q] = seen[q]
    BY <1>2 DEF Forget
  <1>3. ASSUME End(r) PROVE Undisturbed(q)
    BY <1>1, <1>2, <1>3 DEF End
  <1>4. CASE Begin(r)
    BY <1>1, <1>4 DEF Begin, Login, Callback, Logout, AttachPrincipal, Load
  <1>5. CASE Exchange(r)
    BY <1>1, <1>5 DEF Exchange
  <1>6. CASE ReadSubjectPolicy(r)
    BY <1>1, <1>6 DEF ReadSubjectPolicy
  <1>7. CASE AdmitSignIn(r)
    BY <1>1, <1>2, <1>7 DEF AdmitSignIn
  <1>8. CASE AcceptSession(r)
    BY <1>1, <1>2, <1>8 DEF AcceptSession
  <1>9. CASE RenewToken(r)
    BY <1>1, <1>2, <1>9 DEF RenewToken
  <1>10. CASE Save(r) \/ Destroy(r) \/ Disconnect(r)
    BY <1>3, <1>10 DEF Save, Destroy, Disconnect
  <1>11. CASE Unavailable(r)
    BY <1>1, <1>2, <1>11 DEF Unavailable
  <1> QED BY <1>4, <1>5, <1>6, <1>7, <1>8, <1>9, <1>10, <1>11 DEF Step

LEMMA OwnStep ==
  ASSUME IInv, NEW r \in Requests, Step(r)
  PROVE  /\ RequestTypeOK' /\ RequestOK(r)'
         /\ row' \in [Tokens -> Session \cup {None}]
         /\ \A t \in Tokens : RowOK(t)'
  <1>1. ASSUME RequestTypeOK', RequestOK(r)', row' = row, log' = log
        PROVE  /\ RequestTypeOK' /\ RequestOK(r)'
               /\ row' \in [Tokens -> Session \cup {None}]
               /\ \A t \in Tokens : RowOK(t)'
    BY <1>1 DEF IInv, TypeOK, StoreTypeOK, RowOK
  <1>2. log' = log
    BY DEF Step, Begin, Login, Callback, Logout, AttachPrincipal, Load, Exchange,
           ReadSubjectPolicy, AdmitSignIn, AcceptSession, RenewToken, Save, Destroy,
           Unavailable, Disconnect, storeVars
  <1> QED BY <1>1, <1>2, BeginStep, ExchangeStep, ReadSubjectStep, AdmitStep, AcceptStep,
             RenewStep, SaveStep, LeaveStep DEF Step

LEMMA RequestStep ==
  ASSUME IInv, NEW r \in Requests, Step(r)
  PROVE  IInv'
  <1>1. UNCHANGED <<now, storeVars, changeVars>>
    BY DEF Step, Begin, Login, Callback, Logout, AttachPrincipal, Load, Exchange,
           ReadSubjectPolicy, AdmitSignIn, AcceptSession, RenewToken, Save, Destroy,
           Unavailable, Disconnect
  <1>2. /\ RequestTypeOK' /\ RequestOK(r)'
        /\ row' \in [Tokens -> Session \cup {None}]
        /\ \A t \in Tokens : RowOK(t)'
    BY OwnStep
  <1>3. /\ TypeOK /\ log \in Seq(Entry) /\ log' = log
    BY <1>1 DEF IInv, TypeOK, StoreTypeOK, storeVars
  <1>4. ASSUME NEW q \in Requests PROVE RequestOK(q)'
    <2>1. CASE q # r
      <3>1. Undisturbed(q) /\ RequestOK(q)
        BY <2>1, OthersUndisturbed DEF IInv, TypeOK
      <3>2. Grows(log, log')
        BY <1>3, GrowsItself
      <3> QED BY <1>3, <3>1, <3>2, Bystander
    <2> QED BY <1>2, <2>1
  <1>5. TypeOK'
    BY <1>1, <1>2 DEF IInv, TypeOK, StoreTypeOK, ChangeTypeOK, storeVars, changeVars
  <1>6. StoreOK'
    BY <1>1 DEF IInv, StoreOK, Recorded, storeVars
  <1>7. \A c \in Changers : ChangeOK(c)'
    BY <1>1 DEF IInv, ChangeOK, storeVars, changeVars
  <1> QED BY <1>2, <1>4, <1>5, <1>6, <1>7 DEF IInv

-----------------------------------------------------------------------------
(* Changes.                                                                *)

(* What does not touch the requests keeps what they know, as the log grows.*)
LEMMA RequestsKept ==
  ASSUME IInv, log' \in Seq(Entry), Grows(log, log'), UNCHANGED requestVars,
         row' = row \/ (\E t \in Tokens : row' = [row EXCEPT ![t] = None])
  PROVE  /\ RequestTypeOK'
         /\ row' \in [Tokens -> Session \cup {None}]
         /\ \A t \in Tokens : RowOK(t)'
         /\ \A r \in Requests : RequestOK(r)'
  <1>0. /\ TypeOK /\ log \in Seq(Entry) /\ row \in [Tokens -> Session \cup {None}]
        /\ \A t \in Tokens : RowOK(t)
    BY DEF IInv, TypeOK, StoreTypeOK
  <1>1. RequestTypeOK'
    BY <1>0 DEF TypeOK, RequestTypeOK, requestVars
  <1>2. row' \in [Tokens -> Session \cup {None}]
    BY <1>0
  <1>3. ASSUME NEW t \in Tokens PROVE RowOK(t)'
    <2>1. row'[t] \in {row[t], None}
      BY <1>0
    <2>2. row[t] \in Identity => IdentityOK(log', row[t])
      BY <1>0, IdentityStays DEF RowOK
    <2> QED BY <2>1, <2>2, Plain DEF RowOK, Session
  <1>4. ASSUME NEW r \in Requests PROVE RequestOK(r)'
    <2>1. Undisturbed(r) /\ RequestOK(r)
      BY DEF Undisturbed, requestVars, IInv
    <2> QED BY <1>0, <2>1, Bystander
  <1> QED BY <1>1, <1>2, <1>3, <1>4

(* Steps of a change before it is committed.                               *)
LEMMA PreparingStep ==
  ASSUME IInv, NEW c \in Changers,
         (\E x \in Changes : BeginOperation(c, x)) \/ AbortChange(c)
  PROVE  IInv'
  <1>0. /\ TypeOK /\ ChangeTypeOK /\ log \in Seq(Entry) /\ log' = log /\ now \in Time /\ now >= 1
        /\ \A d \in Changers : ChangeOK(d)
        /\ UNCHANGED <<now, storeVars, row, requestVars>>
    BY DEF IInv, TypeOK, StoreTypeOK, StoreOK, BeginOperation, AbortChange, storeVars
  <1>1. /\ RequestTypeOK'
        /\ row' \in [Tokens -> Session \cup {None}]
        /\ \A t \in Tokens : RowOK(t)'
        /\ \A r \in Requests : RequestOK(r)'
    BY <1>0, GrowsItself, RequestsKept
  <1>2. StoreOK'
    BY <1>0 DEF IInv, StoreOK, Recorded, storeVars
  <1>3. StoreTypeOK'
    BY <1>0 DEF TypeOK, StoreTypeOK, storeVars
  <1>4. ASSUME NEW x \in Changes, BeginOperation(c, x)
        PROVE  ChangeTypeOK' /\ \A d \in Changers : ChangeOK(d)'
    <2>1. /\ cpc' = [cpc EXCEPT ![c] = "commit"] /\ change' = [change EXCEPT ![c] = x]
          /\ stamp' = [stamp EXCEPT ![c] = now] /\ operation' = operation /\ operation[x.op] = None
      BY <1>4 DEF BeginOperation, storeVars
    <2>2. ChangeTypeOK'
      BY <1>0, <2>1 DEF ChangeTypeOK, ChangeSteps
    <2>3. \A d \in Changers \ {c} : cpc[d] # "idle" => change[d].op # x.op
      BY <1>0, <1>4 DEF BeginOperation, Free, ChangeTypeOK, ChangeSteps
    <2>4. ASSUME NEW d \in Changers PROVE ChangeOK(d)'
      <3>1. CASE d = c
        BY <1>0, <2>1, <2>3, <3>1 DEF ChangeOK, ChangeTypeOK
      <3>2. CASE d # c
        BY <1>0, <2>1, <2>3, <3>2 DEF ChangeOK, ChangeTypeOK
      <3> QED BY <3>1, <3>2
    <2> QED BY <2>2, <2>4
  <1>5. ASSUME AbortChange(c) PROVE ChangeTypeOK' /\ \A d \in Changers : ChangeOK(d)'
    <2>1. /\ cpc' = [cpc EXCEPT ![c] = "idle"] /\ change' = [change EXCEPT ![c] = None]
          /\ stamp' = [stamp EXCEPT ![c] = 0] /\ operation' = operation
      BY <1>5 DEF AbortChange, EndChange, storeVars
    <2> QED BY <1>0, <2>1, Plain DEF ChangeOK, ChangeTypeOK, ChangeSteps
  <1>6. ChangeTypeOK' /\ \A d \in Changers : ChangeOK(d)'
    BY <1>4, <1>5
  <1> QED BY <1>1, <1>2, <1>3, <1>6 DEF IInv, TypeOK

(* A change that is committed is the last one of the log, and its target's *)
(* policy is what the log now says.                                        *)
LEMMA CommitStep ==
  ASSUME IInv, NEW c \in Changers, CommitChange(c)
  PROVE  IInv'
  <1> DEFINE x == change[c]
             t == x.target
             p == policy[t]
             q == [generation |-> p.generation + 1, blocked |-> NowBlocked(t, x.action),
                   revoked |-> stamp[c]]
             e == [change |-> x, stamp |-> stamp[c], generation |-> p.generation + 1]
             n == Len(log)
  <1>0. /\ TypeOK /\ StoreTypeOK /\ ChangeTypeOK /\ StoreOK /\ LogOK(log) /\ Recorded
        /\ log \in Seq(Entry) /\ n \in Nat /\ policy \in [Targets -> Policy]
        /\ operation \in [Operations -> Changes \cup {None}]
        /\ ChangeOK(c) /\ cpc[c] = "commit" /\ now' = now /\ row' = row
        /\ UNCHANGED requestVars
    BY DEF IInv, TypeOK, StoreTypeOK, StoreOK, CommitChange
  <1>1. /\ x \in Changes /\ x \in Change /\ x.op \in Operations /\ t \in Targets
        /\ x.action \in Actions /\ operation[x.op] = None
        /\ stamp[c] >= 1 /\ stamp[c] \in Time
    BY <1>0, SessionAssumption DEF ChangeOK, Change, ChangeTypeOK
  <1>2. p \in Policy /\ PolicyAt(log, t, n, p)
    BY <1>0, <1>1 DEF StoreOK
  <1>3. p.generation \in Nat /\ p.blocked \in BOOLEAN
    BY <1>2 DEF Policy
  <1>4. NowBlocked(t, x.action) = (IF x.action = "invalidate" THEN p.blocked
                                                              ELSE x.action = "block")
    BY DEF NowBlocked
  <1>5. NowBlocked(t, x.action) \in BOOLEAN
    BY <1>3, <1>4
  <1>6. /\ q \in Policy /\ q.generation = p.generation + 1 /\ q.revoked = stamp[c]
        /\ q.blocked = (IF x.action = "invalidate" THEN p.blocked ELSE x.action = "block")
    BY <1>1, <1>3, <1>4, <1>5 DEF Policy
  <1>7. /\ e \in Entry /\ e.change = x /\ e.stamp = stamp[c] /\ e.generation = p.generation + 1
    BY <1>1, <1>3 DEF Entry
  <1>8. /\ policy' = [policy EXCEPT ![t] = q]
        /\ operation' = [operation EXCEPT ![x.op] = x]
        /\ log' = Append(log, e)
        /\ cpc' = [cpc EXCEPT ![c] = "idle"] /\ change' = [change EXCEPT ![c] = None]
        /\ stamp' = [stamp EXCEPT ![c] = 0]
    BY DEF CommitChange, NextGeneration, EndChange
  <1> HIDE DEF q, e, n, p, t
  <1>9. /\ log' \in Seq(Entry) /\ Len(log') = n + 1 /\ log'[n + 1] = e /\ Grows(log, log')
        /\ \A i \in 1..n : log'[i] = log[i]
    BY <1>0, <1>7, <1>8, GrowsAppended DEF n, Grows
  <1>10. /\ RequestTypeOK'
         /\ row' \in [Tokens -> Session \cup {None}]
         /\ \A k \in Tokens : RowOK(k)'
         /\ \A r \in Requests : RequestOK(r)'
    BY <1>0, <1>9, RequestsKept
  <1>11. StoreTypeOK'
    <2>1. policy' \in [Targets -> Policy]
      BY <1>0, <1>6, <1>8
    <2>2. operation' \in [Operations -> Changes \cup {None}]
      BY <1>0, <1>1, <1>8
    <2> QED BY <1>0, <1>9, <1>10, <2>1, <2>2 DEF StoreTypeOK
  <1>12. ChangeTypeOK' /\ \A d \in Changers : ChangeOK(d)'
    <2>1. ChangeTypeOK'
      BY <1>0, <1>8, Plain DEF ChangeTypeOK, ChangeSteps
    <2>2. ASSUME NEW d \in Changers PROVE ChangeOK(d)'
      <3>1. CASE d = c
        BY <1>0, <1>8, <3>1 DEF ChangeOK, ChangeTypeOK
      <3>2. CASE d # c
        <4>1. /\ cpc'[d] = cpc[d] /\ change'[d] = change[d] /\ stamp'[d] = stamp[d]
          BY <1>0, <1>8, <3>2 DEF ChangeTypeOK
        <4>2. cpc[d] # "idle" => change[d].op # x.op /\ ChangeOK(d)
          BY <1>0, <3>2 DEF ChangeOK, IInv
        <4>3. cpc[d] # "idle" => operation'[change[d].op] = operation[change[d].op]
          BY <1>0, <1>8, <4>2, SessionAssumption DEF ChangeOK, Change
        <4>4. \A b \in Changers \ {d} : cpc'[b] # "idle" => b # c /\ cpc[b] # "idle"
                                                            /\ change'[b] = change[b]
          BY <1>0, <1>8 DEF ChangeTypeOK
        <4> QED BY <4>1, <4>2, <4>3, <4>4 DEF ChangeOK
      <3> QED BY <3>1, <3>2
    <2> QED BY <2>1, <2>2
  <1>13. ASSUME NEW i \in 1..n
         PROVE  /\ log[i].change.op # x.op
                /\ Of(log, i, t) => log[i].generation < e.generation
    <2>1. operation[log[i].change.op] # None
      BY <1>0 DEF Recorded, n
    <2>2. log[i].generation \in Nat
      BY <1>0, EntryType DEF n
    <2>3. Of(log, i, t) => log[i].generation <= p.generation
      BY <1>2 DEF PolicyAt, GenerationAt
    <2> QED BY <1>1, <1>3, <1>7, <2>1, <2>2, <2>3
  <1>14. LogOK(log')
    <2>1. ASSUME NEW i \in 1..(n + 1) PROVE log'[i].generation >= 1 /\ log'[i].stamp >= 1
      <3>1. CASE i \in 1..n
        BY <1>0, <1>9, <3>1 DEF LogOK, n
      <3>2. CASE i = n + 1
        BY <1>1, <1>3, <1>7, <1>9, <3>2
      <3> QED BY <1>0, <3>1, <3>2
    <2>2. ASSUME NEW i \in 1..(n + 1), NEW j \in 1..(n + 1), i < j
          PROVE  /\ log'[i].change.op # log'[j].change.op
                 /\ log'[i].change.target = log'[j].change.target
                    => log'[i].generation < log'[j].generation
      <3>0. i \in 1..n
        BY <1>0, <2>2
      <3>1. CASE j \in 1..n
        BY <1>0, <1>9, <2>2, <3>0, <3>1 DEF LogOK, n
      <3>2. CASE j = n + 1
        BY <1>7, <1>9, <1>13, <3>0, <3>2 DEF Of, t
      <3> QED BY <1>0, <3>1, <3>2
    <2>3. ASSUME NEW i \in 1..(n + 1), NEW j \in 1..(n + 1), i # j
          PROVE  log'[i].change.op # log'[j].change.op
      <3>1. i < j \/ j < i
        BY <1>0, <2>3
      <3> QED BY <2>2, <3>1
    <2> QED BY <1>9, <2>1, <2>2, <2>3 DEF LogOK
  <1>15. Recorded'
    <2>1. ASSUME NEW i \in 1..(n + 1) PROVE operation'[log'[i].change.op] # None
      <3>1. CASE i \in 1..n
        <4>1. operation[log[i].change.op] # None /\ log[i].change.op # x.op
          BY <1>0, <1>13, <3>1 DEF Recorded, n
        <4>2. log[i].change.op \in Operations
          BY <1>0, <3>1, EntryType DEF n, Change
        <4> QED BY <1>0, <1>8, <1>9, <3>1, <4>1, <4>2
      <3>2. CASE i = n + 1
        BY <1>0, <1>1, <1>7, <1>8, <1>9, <3>2, SessionAssumption
      <3> QED BY <1>0, <3>1, <3>2
    <2> QED BY <1>9, <2>1 DEF Recorded
  <1>16. ASSUME NEW k \in Targets PROVE PolicyAt(log', k, n + 1, policy'[k])
    <2>1. CASE k = t
      <3>1. policy'[k] = q
        BY <1>0, <1>8, <2>1
      <3>2. PolicyAt(Append(log, e), t, Len(log) + 1, q)
        BY <1>0, <1>1, <1>2, <1>6, <1>7, SameTarget DEF n, t
      <3> QED BY <1>8, <2>1, <3>1, <3>2 DEF n
    <2>2. CASE k # t
      <3>1. policy'[k] = policy[k]
        BY <1>0, <1>8, <2>2
      <3>2. PolicyAt(log, k, Len(log), policy[k])
        BY <1>0 DEF StoreOK
      <3>3. PolicyAt(Append(log, e), k, Len(log) + 1, policy[k])
        BY <1>0, <1>7, <2>2, <3>2, OtherTarget DEF t
      <3> QED BY <1>8, <3>1, <3>3 DEF n
    <2> QED BY <2>1, <2>2
  <1>17. StoreOK'
    BY <1>0, <1>9, <1>14, <1>15, <1>16 DEF StoreOK
  <1> QED BY <1>10, <1>11, <1>12, <1>17 DEF IInv, TypeOK

-----------------------------------------------------------------------------
(* The invariant.                                                          *)

LEMMA InitInv == Init => IInv
  <1> SUFFICES ASSUME Init PROVE IInv
    OBVIOUS
  <1>1. TypeOK
    <2>1. StoreTypeOK
      BY Plain, SessionAssumption DEF Init, StoreTypeOK, Time
    <2>2. ChangeTypeOK
      BY Plain DEF Init, ChangeTypeOK, ChangeSteps
    <2>3. RequestTypeOK
      BY Plain DEF Init, RequestTypeOK, Steps
    <2> QED BY <2>1, <2>2, <2>3 DEF TypeOK
  <1>2. StoreOK
    <2>1. Len(log) = 0 /\ now = 1
      BY DEF Init
    <2>2. \A t \in Targets : policy[t].generation = 0 /\ policy[t].blocked = FALSE
      BY DEF Init, NoPolicy
    <2>3. ASSUME NEW t \in Targets PROVE PolicyAt(log, t, Len(log), policy[t])
      BY <2>1, <2>2 DEF PolicyAt, GenerationAt, BlockedAt, RevokedAt
    <2> QED BY <2>1, <2>3 DEF StoreOK, LogOK, Recorded
  <1>3. \A c \in Changers : ChangeOK(c)
    BY DEF Init, ChangeOK
  <1>4. \A t \in Tokens : RowOK(t)
    BY Plain DEF Init, RowOK, Session
  <1>5. \A r \in Requests : RequestOK(r)
    BY NoneAssumption DEF Init, RequestOK, CheckOK, SignInOK
  <1> QED BY <1>1, <1>2, <1>3, <1>4, <1>5 DEF IInv

LEMMA InvStep == IInv /\ [Next]_vars => IInv'
  <1> SUFFICES ASSUME IInv, [Next]_vars PROVE IInv'
    OBVIOUS
  <1>0. ASSUME UNCHANGED <<storeVars, changeVars, requestVars>>, now' \in Time, now' >= 1,
               row' = row \/ \E t \in Tokens : row' = [row EXCEPT ![t] = None]
        PROVE  IInv'
    <2>1. log \in Seq(Entry) /\ log' = log
      BY <1>0 DEF IInv, TypeOK, StoreTypeOK, storeVars
    <2>2. /\ RequestTypeOK'
          /\ row' \in [Tokens -> Session \cup {None}]
          /\ \A t \in Tokens : RowOK(t)'
          /\ \A r \in Requests : RequestOK(r)'
      BY <1>0, <2>1, GrowsItself, RequestsKept
    <2>3. StoreTypeOK' /\ ChangeTypeOK'
      BY <1>0, <2>2 DEF IInv, TypeOK, StoreTypeOK, ChangeTypeOK, storeVars, changeVars
    <2>4. StoreOK' /\ \A c \in Changers : ChangeOK(c)'
      BY <1>0 DEF IInv, StoreOK, Recorded, ChangeOK, storeVars, changeVars
    <2> QED BY <2>2, <2>3, <2>4 DEF IInv, TypeOK
  <1>t. now \in Time /\ now >= 1
    BY DEF IInv, TypeOK, StoreTypeOK, StoreOK
  <1>1. CASE Tick
    BY <1>0, <1>1, <1>t, SessionAssumption DEF Tick, Time
  <1>2. CASE \E t \in Tokens : DeleteExpired(t)
    BY <1>0, <1>2, <1>t DEF DeleteExpired
  <1>3. CASE UNCHANGED vars
    BY <1>0, <1>3, <1>t DEF vars
  <1>4. ASSUME NEW c \in Changers, ChangeStep(c) PROVE IInv'
    BY <1>4, PreparingStep, CommitStep DEF ChangeStep
  <1>5. ASSUME NEW r \in Requests, Step(r) PROVE IInv'
    BY <1>5, RequestStep
  <1> QED BY <1>1, <1>2, <1>3, <1>4, <1>5 DEF Next

THEOREM Invariant == Spec => []IInv
  BY InitInv, InvStep, PTL DEF Spec

(* Every variable has its type: whoever a policy is read for is known, and *)
(* a session that is renewed is somebody's.                                *)
THEOREM TypeCorrect == Spec => []TypeOK
  <1>1. IInv => TypeOK
    BY DEF IInv
  <1> QED BY <1>1, Invariant, PTL

(* For any number of people, browsers, servers and changes: a request is   *)
(* served only for a session that nothing had ended when the request began *)
(* (SessionPolicy, accepts and attachPrincipal).                           *)
THEOREM ServedAreCurrent == Spec => []ServedIsCurrent
  <1>1. IInv => ServedIsCurrent
    BY DEF IInv, RequestOK, Current, LiftedAt, Of, ServedIsCurrent, Concerns
  <1> QED BY <1>1, Invariant, PTL

(* A sign-in that succeeds has an ID token that was issued after the last  *)
(* change of its policies began (stamp and SessionPolicy, callback).       *)
THEOREM SignInsAreFresh == Spec => []FreshSignIn
  <1>1. IInv => FreshSignIn
    <2> SUFFICES ASSUME IInv, NEW r \in Requests, pc[r] = "renew", NEW n \in 1..Len(log),
                        \/ Last(n, who[r].subject, seen[r].subject)
                        \/ Last(n, who[r].session, seen[r].session)
                 PROVE  log[n].stamp < who[r].iat
      BY DEF FreshSignIn
    <2>1. Admitted(log, who[r], found[r], seen[r])
      BY DEF IInv, RequestOK, SignInOK
    <2> QED BY <2>1 DEF Admitted, LastAt, Of, Last, Concerns
  <1> QED BY <1>1, Invariant, PTL

(* A session is ended only by a change of its subject or of the provider's *)
(* session that was made after its sign-in, a repeated notice being none   *)
(* (ChangeSessions, ApplyOIDCLogout).                                      *)
THEOREM EndedIsLater == Spec => []EndedByLaterChange
  <1>1. IInv => EndedByLaterChange
    BY DEF IInv, RequestOK, Ended, Of, EndedByLaterChange, Concerns
  <1> QED BY <1>1, Invariant, PTL

=============================================================================
