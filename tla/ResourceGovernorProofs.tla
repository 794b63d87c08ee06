----------------------- MODULE ResourceGovernorProofs -----------------------
(* Theorems of ResourceGovernor for every value of its constants.          *)
EXTENDS ResourceGovernor, FiniteSetTheorems, SequenceTheorems, TLAPS

-----------------------------------------------------------------------------
(* What a set of requests holds: the sums that the controller keeps
   incrementally.                                                          *)

LEMMA UnitsOfOne ==
  ASSUME NEW r \in Requests, NEW k \in Kinds
  PROVE  /\ IsFiniteSet({r} \X (1 .. Need[r][k]))
         /\ Cardinality({r} \X (1 .. Need[r][k])) = Need[r][k]
<1> DEFINE n == Need[r][k]
<1>1. n \in Nat
  BY NeedAssumption
<1>2. IsFiniteSet({r}) /\ Cardinality({r}) = 1
  BY FS_Singleton
<1>3. IsFiniteSet(1 .. n) /\ Cardinality(1 .. n) = n
  <2> HIDE DEF n
  <2>1. 1 \in Int /\ n \in Int
    BY <1>1
  <2>2. /\ IsFiniteSet(1 .. n)
        /\ Cardinality(1 .. n) = IF 1 > n THEN 0 ELSE n - 1 + 1
    BY <2>1, FS_Interval
  <2> QED
    BY <1>1, <2>2
<1>4. /\ IsFiniteSet({r} \X (1 .. n))
      /\ Cardinality({r} \X (1 .. n)) = 1 * n
  BY <1>2, <1>3, FS_Product
<1> QED
  BY <1>1, <1>4

(* A set of requests holds finitely many units. *)
LEMMA UnitsFinite ==
  ASSUME NEW S \in SUBSET Requests, NEW k \in Kinds
  PROVE  IsFiniteSet(Units(S, k))
<1> DEFINE U(r) == {r} \X (1 .. Need[r][k])
           T == {U(r) : r \in S}
           f == [r \in S |-> U(r)]
<1>1. IsFiniteSet(S)
  BY RequestsAssumption, FS_Subset
<1>2. f \in Surjection(S, T)
  BY DEF Surjection
<1>3. IsFiniteSet(T)
  BY <1>1, <1>2, FS_Surjection
<1>4. \A X \in T : IsFiniteSet(X)
  BY UnitsOfOne
<1> QED
  BY <1>3, <1>4, FS_UNION DEF Units

LEMMA UsageType ==
  ASSUME NEW S \in SUBSET Requests, NEW k \in Kinds
  PROVE  Usage(S, k) \in Nat
BY UnitsFinite, FS_CardinalityType DEF Usage

LEMMA UsageEmpty ==
  ASSUME NEW k \in Kinds
  PROVE  Usage({}, k) = 0
<1>1. Units({}, k) = {}
  BY DEF Units
<1> QED
  BY <1>1, FS_EmptySet DEF Usage

(* A grant adds exactly what the request needs. *)
LEMMA UsageAdd ==
  ASSUME NEW S \in SUBSET Requests, NEW r \in Requests, r \notin S, NEW k \in Kinds
  PROVE  Usage(S \cup {r}, k) = Usage(S, k) + Need[r][k]
<1> DEFINE U == {r} \X (1 .. Need[r][k])
<1>1. Units(S \cup {r}, k) = Units(S, k) \cup U
  BY DEF Units
<1>2. Units(S, k) \cap U = {}
  BY DEF Units
<1>3. IsFiniteSet(Units(S, k))
  BY UnitsFinite
<1>4. IsFiniteSet(U) /\ Cardinality(U) = Need[r][k]
  BY UnitsOfOne
<1>5. Cardinality(Units(S, k) \cup U)
        = Cardinality(Units(S, k)) + Cardinality(U) - Cardinality(Units(S, k) \cap U)
  BY <1>3, <1>4, FS_Union
<1>6. Cardinality(Units(S, k) \cap U) = 0
  BY <1>2, FS_EmptySet
<1>7. Cardinality(Units(S, k)) \in Nat /\ Need[r][k] \in Nat
  BY <1>3, FS_CardinalityType, NeedAssumption
<1>8. Cardinality(Units(S, k) \cup U) = Cardinality(Units(S, k)) + Need[r][k]
  <2> HIDE DEF U
  <2> QED
    BY <1>4, <1>5, <1>6, <1>7
<1> QED
  BY <1>1, <1>8 DEF Usage

(* A release takes exactly that away. *)
LEMMA UsageRemove ==
  ASSUME NEW S \in SUBSET Requests, NEW r \in S, NEW k \in Kinds
  PROVE  Usage(S, k) = Usage(S \ {r}, k) + Need[r][k]
<1>1. (S \ {r}) \cup {r} = S
  OBVIOUS
<1> QED
  BY <1>1, UsageAdd

(* The same for the part of the set that belongs to one root. *)
LEMMA OfRootAdd ==
  ASSUME NEW S \in SUBSET Requests, NEW r \in Requests, r \notin S,
         NEW t \in Roots, NEW k \in Kinds
  PROVE  Usage(OfRoot(S \cup {r}, t), k)
           = Usage(OfRoot(S, t), k) + (IF RootOf[r] = t THEN Need[r][k] ELSE 0)
<1>1. OfRoot(S, t) \in SUBSET Requests /\ r \notin OfRoot(S, t)
  BY DEF OfRoot
<1>2. Usage(OfRoot(S, t), k) \in Nat
  BY <1>1, UsageType
<1>3. CASE RootOf[r] = t
  <2>1. OfRoot(S \cup {r}, t) = OfRoot(S, t) \cup {r}
    BY <1>3 DEF OfRoot
  <2> QED
    BY <1>1, <1>3, <2>1, UsageAdd
<1>4. CASE RootOf[r] # t
  <2>1. OfRoot(S \cup {r}, t) = OfRoot(S, t)
    BY <1>4 DEF OfRoot
  <2> QED
    BY <1>2, <1>4, <2>1
<1> QED
  BY <1>3, <1>4

LEMMA OfRootRemove ==
  ASSUME NEW S \in SUBSET Requests, NEW r \in S, NEW t \in Roots, NEW k \in Kinds
  PROVE  Usage(OfRoot(S, t), k)
           = Usage(OfRoot(S \ {r}, t), k) + (IF RootOf[r] = t THEN Need[r][k] ELSE 0)
<1> DEFINE R == S \ {r}
<1>1. R \cup {r} = S /\ R \in SUBSET Requests /\ r \in Requests /\ r \notin R
  OBVIOUS
<1> HIDE DEF R
<1>2. Usage(OfRoot(R \cup {r}, t), k)
        = Usage(OfRoot(R, t), k) + (IF RootOf[r] = t THEN Need[r][k] ELSE 0)
  BY <1>1, OfRootAdd
<1> QED
  BY <1>1, <1>2 DEF R

-----------------------------------------------------------------------------
(* The wait queue.                                                         *)

RangeOf(q) == {q[i] : i \in DOMAIN q}
Distinct(q) == \A i, j \in DOMAIN q : q[i] = q[j] => i = j

(* The indices behind a removed entry. *)
LEMMA IndexShift ==
  ASSUME NEW n \in Nat, NEW m \in 1 .. n
  PROVE  /\ n - (m + 1) + 1 = n - m
         /\ ~(m + 1 <= n) => n - m = 0
         /\ \A j \in 1 .. n - m : m + 1 + j - 1 = m + j
OBVIOUS

(* Removing a queued request removes it and nothing else. *)
LEMMA WithoutProperties ==
  ASSUME NEW q \in Seq(Requests), Distinct(q), NEW r \in RangeOf(q)
  PROVE  /\ Without(q, r) \in Seq(Requests)
         /\ Len(Without(q, r)) = Len(q) - 1
         /\ Distinct(Without(q, r))
         /\ RangeOf(Without(q, r)) = RangeOf(q) \ {r}
<1> DEFINE i == CHOOSE j \in DOMAIN q : q[j] = r
           p == SubSeq(q, 1, i - 1)
           s == SubSeq(q, i + 1, Len(q))
           w == Without(q, r)
<1>1. i \in 1 .. Len(q) /\ q[i] = r
  <2>1. \E j \in DOMAIN q : q[j] = r
    BY DEF RangeOf
  <2>2. i \in DOMAIN q /\ q[i] = r
    BY <2>1
  <2> QED
    BY <2>2
<1>2. w = p \o s
  BY DEF Without
<1> HIDE DEF i, p, s, w
<1>3. Len(q) \in Nat /\ DOMAIN q = 1 .. Len(q) /\ \A j \in 1 .. Len(q) : q[j] \in Requests
  OBVIOUS
<1>4. /\ p \in Seq(Requests) /\ Len(p) = i - 1
      /\ \A j \in 1 .. i - 1 : p[j] = q[j]
  <2>1. /\ SubSeq(q, 1, i - 1) \in Seq(Requests)
        /\ Len(SubSeq(q, 1, i - 1)) = IF 1 <= i - 1 THEN i - 1 - 1 + 1 ELSE 0
        /\ \A j \in 1 .. i - 1 - 1 + 1 : SubSeq(q, 1, i - 1)[j] = q[1 + j - 1]
    BY <1>1, <1>3, SubSeqProperties
  <2> QED
    BY <1>1, <1>3, <2>1 DEF p
<1>5. /\ s \in Seq(Requests) /\ Len(s) = Len(q) - i
      /\ \A j \in 1 .. Len(q) - i : s[j] = q[i + j]
  <2>1. /\ SubSeq(q, i + 1, Len(q)) \in Seq(Requests)
        /\ Len(SubSeq(q, i + 1, Len(q)))
             = IF i + 1 <= Len(q) THEN Len(q) - (i + 1) + 1 ELSE 0
        /\ \A j \in 1 .. Len(q) - (i + 1) + 1 :
             SubSeq(q, i + 1, Len(q))[j] = q[i + 1 + j - 1]
    BY <1>1, <1>3, SubSeqProperties
  <2>2. /\ Len(q) - (i + 1) + 1 = Len(q) - i
        /\ ~(i + 1 <= Len(q)) => Len(q) - i = 0
    BY <1>1, <1>3, IndexShift, Zenon
  <2>3. \A j \in 1 .. Len(q) - i : i + 1 + j - 1 = i + j
    BY <1>1, <1>3, IndexShift, Zenon
  <2>4. s \in Seq(Requests) /\ Len(s) = Len(q) - i
    BY <2>1, <2>2 DEF s
  <2>5. \A j \in 1 .. Len(q) - i : s[j] = q[i + j]
    BY <2>1, <2>2, <2>3, Zenon DEF s
  <2> QED
    BY <2>4, <2>5
<1>6. /\ w \in Seq(Requests) /\ Len(w) = Len(q) - 1
      /\ \A j \in 1 .. Len(q) - 1 : w[j] = IF j <= i - 1 THEN p[j] ELSE s[j - (i - 1)]
  <2>1. /\ p \o s \in Seq(Requests)
        /\ Len(p \o s) = Len(p) + Len(s)
        /\ \A j \in 1 .. Len(p) + Len(s) :
             (p \o s)[j] = IF j <= Len(p) THEN p[j] ELSE s[j - Len(p)]
    BY <1>4, <1>5, ConcatProperties
  <2>2. Len(p) + Len(s) = Len(q) - 1
    BY <1>1, <1>3, <1>4, <1>5
  <2> QED
    BY <1>2, <1>4, <2>1, <2>2
<1>7. \A j \in 1 .. Len(q) - 1 : w[j] = IF j < i THEN q[j] ELSE q[j + 1]
  <2> SUFFICES ASSUME NEW j \in 1 .. Len(q) - 1
               PROVE  w[j] = IF j < i THEN q[j] ELSE q[j + 1]
    OBVIOUS
  <2>1. CASE j < i
    BY <1>1, <1>3, <1>4, <1>6, <2>1
  <2>2. CASE ~(j < i)
    <3>1. j - (i - 1) \in 1 .. Len(q) - i /\ ~(j <= i - 1)
      BY <1>1, <1>3, <2>2
    <3>2. w[j] = s[j - (i - 1)]
      BY <1>6, <3>1
    <3>3. s[j - (i - 1)] = q[i + (j - (i - 1))]
      BY <1>5, <3>1
    <3>4. i + (j - (i - 1)) = j + 1
      BY <1>1, <1>3
    <3> QED
      BY <2>2, <3>2, <3>3, <3>4
  <2> QED
    BY <2>1, <2>2
<1>8. DOMAIN w = 1 .. Len(q) - 1
  BY <1>6
<1>9. \A j \in 1 .. Len(q), l \in 1 .. Len(q) : q[j] = q[l] => j = l
  BY <1>3 DEF Distinct
<1>10. Distinct(w)
  BY <1>1, <1>3, <1>7, <1>8, <1>9 DEF Distinct
<1>11. RangeOf(w) = RangeOf(q) \ {r}
  <2>1. ASSUME NEW x \in RangeOf(w) PROVE x \in RangeOf(q) \ {r}
    <3>1. PICK j \in 1 .. Len(q) - 1 : x = w[j]
      BY <1>8, <2>1 DEF RangeOf
    <3>2. PICK l \in 1 .. Len(q) : x = q[l] /\ l # i
      BY <1>1, <1>3, <1>7, <3>1
    <3> QED
      BY <1>1, <1>3, <1>9, <3>2 DEF RangeOf
  <2>2. ASSUME NEW x \in RangeOf(q) \ {r} PROVE x \in RangeOf(w)
    <3>1. PICK l \in 1 .. Len(q) : x = q[l]
      BY <1>3, <2>2 DEF RangeOf
    <3>2. l # i
      BY <1>1, <2>2, <3>1
    <3>3. CASE l < i
      <4>1. l \in 1 .. Len(q) - 1 /\ w[l] = x
        BY <1>1, <1>3, <1>7, <3>1, <3>3
      <4> QED
        BY <1>8, <4>1 DEF RangeOf
    <3>4. CASE l > i
      <4>1. l - 1 \in 1 .. Len(q) - 1 /\ w[l - 1] = x
        BY <1>1, <1>3, <1>7, <3>1, <3>4
      <4> QED
        BY <1>8, <4>1 DEF RangeOf
    <3> QED
      BY <1>1, <1>3, <3>2, <3>3, <3>4
  <2> QED
    BY <2>1, <2>2
<1> QED
  BY <1>6, <1>10, <1>11 DEF w
-----------------------------------------------------------------------------
(* The inductive invariant.                                                *)

(* The accounts are within the limits; with AccountsMatchLeases this is
   CapacityRespected. *)
AccountsBounded ==
  Mode = "enforce" =>
    \A k \in Kinds :
      /\ Limit[k] > 0 => reserved[k] <= Limit[k]
      /\ RootLimit[k] > 0 => \A t \in Roots : rootReserved[t][k] <= RootLimit[k]

(* A request that nobody submitted has no outcome, and what admit_wait
   returned is the settled outcome. *)
AnswersSettled ==
  \A r \in Requests :
    /\ caller[r] = "idle" => outcome[r] = "none"
    /\ answer[r] # "none" => answer[r] = outcome[r] /\ answer[r] # "queued"

IInv ==
  /\ TypeOK
  /\ QueueMatchesOutcomes
  /\ AccountsMatchLeases
  /\ AccountsBounded
  /\ AnswersSettled

LEMMA IInvInit == Init => IInv
<1> SUFFICES ASSUME Init PROVE IInv
  OBVIOUS
<1>1. TypeOK
  <2>1. queue \in Seq(Requests)
    BY EmptySeq DEF Init
  <2>2. NoAmount \in [Kinds -> Nat]
    BY DEF NoAmount
  <2>3. /\ rootReserved \in [Roots -> [Kinds -> Nat]]
        /\ runLimit \in [Runs -> [Kinds -> Nat]]
        /\ runReserved \in [Runs -> [Kinds -> Nat]]
    BY <2>2 DEF Init
  <2> QED
    BY <2>1, <2>2, <2>3 DEF Init, TypeOK
<1>2. QueueMatchesOutcomes
  BY AmountAssumption DEF Init, QueueMatchesOutcomes, Enqueued
<1>3. AccountsMatchLeases
  <2>1. \A t : OfRoot({}, t) = {}
    BY DEF OfRoot
  <2> QED
    BY <2>1, UsageEmpty DEF Init, AccountsMatchLeases, NoAmount
<1>4. AccountsBounded
  BY AmountAssumption DEF Init, AccountsBounded, NoAmount
<1>5. AnswersSettled
  BY DEF Init, AnswersSettled
<1> QED
  BY <1>1, <1>2, <1>3, <1>4, <1>5 DEF IInv

(* admit grants only what is not blocked, and queues only below the limit. *)
LEMMA AdmitDecision ==
  ASSUME NEW r \in Requests
  PROVE  /\ AdmitOutcome(r) \in Outcomes
         /\ AdmitOutcome(r) = "granted" =>
              ~shuttingDown /\ (Mode = "enforce" => ~WouldBlock(r) /\ queue = <<>>)
         /\ AdmitOutcome(r) = "queued" => ~(Len(queue) >= QueueMax) /\ Mode = "enforce"
BY DEF AdmitOutcome, Immediate, Outcomes

(* What _cancel_locked, and the removal of a granted entry, do to the queue. *)
LEMMA CancelQueue ==
  ASSUME IInv, NEW r \in Enqueued, NEW o \in Outcomes \ {"queued"}, CancelLocked(r, o)
  PROVE  /\ queue' \in Seq(Requests)
         /\ Len(queue') = Len(queue) - 1
         /\ \A i, j \in DOMAIN queue' : queue'[i] = queue'[j] => i = j
         /\ Enqueued' = Enqueued \ {r}
         /\ outcome' \in [Requests -> Outcomes \cup {"none"}]
         /\ outcome'[r] = o
         /\ \A q \in Requests \ {r} : outcome'[q] = outcome[q]
         /\ r \in Requests /\ outcome[r] = "queued" /\ r \notin leases
<1>1. queue \in Seq(Requests) /\ Distinct(queue) /\ r \in RangeOf(queue)
  BY DEF IInv, TypeOK, QueueMatchesOutcomes, Distinct, RangeOf, Enqueued
<1>2. queue' = Without(queue, r)
  BY DEF CancelLocked
<1>3. /\ Without(queue, r) \in Seq(Requests)
      /\ Len(Without(queue, r)) = Len(queue) - 1
      /\ Distinct(Without(queue, r))
      /\ RangeOf(Without(queue, r)) = RangeOf(queue) \ {r}
  BY <1>1, WithoutProperties
<1>4. r \in Requests
  BY <1>1 DEF RangeOf
<1>5. /\ outcome' \in [Requests -> Outcomes \cup {"none"}]
      /\ outcome'[r] = o
      /\ \A q \in Requests \ {r} : outcome'[q] = outcome[q]
  BY <1>4 DEF CancelLocked, IInv, TypeOK
<1>6. outcome[r] = "queued" /\ r \notin leases
  BY <1>4 DEF IInv, QueueMatchesOutcomes
<1>7. Enqueued = RangeOf(queue) /\ Enqueued' = RangeOf(queue')
  BY DEF RangeOf, Enqueued
<1>8. \A i, j \in DOMAIN queue' : queue'[i] = queue'[j] => i = j
  BY <1>2, <1>3 DEF Distinct
<1> QED
  BY <1>2, <1>3, <1>4, <1>5, <1>6, <1>7, <1>8

(* A grant of a new lease keeps the accounts equal to the leases. *)
LEMMA GrantAccounts ==
  ASSUME IInv, NEW r \in Requests, r \notin leases, GrantLocked(r)
  PROVE  /\ leases' \subseteq Requests
         /\ reserved' \in [Kinds -> Nat]
         /\ rootReserved' \in [Roots -> [Kinds -> Nat]]
         /\ runReserved' \in [Runs -> [Kinds -> Nat]]
         /\ lastRoot' \subseteq Roots
         /\ AccountsMatchLeases'
<1>1. /\ leases \subseteq Requests
      /\ reserved \in [Kinds -> Nat]
      /\ rootReserved \in [Roots -> [Kinds -> Nat]]
      /\ runReserved \in [Runs -> [Kinds -> Nat]]
      /\ RootOf[r] \in Roots
      /\ \A k \in Kinds : Need[r][k] \in Nat
  BY NeedAssumption DEF IInv, TypeOK
<1>2. leases' \subseteq Requests /\ lastRoot' \subseteq Roots
  BY <1>1 DEF GrantLocked
<1>3. reserved' \in [Kinds -> Nat]
  BY <1>1 DEF GrantLocked
<1>4. rootReserved' \in [Roots -> [Kinds -> Nat]]
  BY <1>1 DEF GrantLocked
<1>5. runReserved' \in [Runs -> [Kinds -> Nat]]
  BY <1>1 DEF GrantLocked
<1>6. ASSUME NEW k \in Kinds PROVE reserved'[k] = Usage(leases', k)
  <2>1. Usage(leases \cup {r}, k) = Usage(leases, k) + Need[r][k]
    BY <1>1, UsageAdd
  <2> QED
    BY <2>1 DEF GrantLocked, IInv, AccountsMatchLeases
<1>7. ASSUME NEW k \in Kinds, NEW t \in Roots
      PROVE  rootReserved'[t][k] = Usage(OfRoot(leases', t), k)
  <2>1. Usage(OfRoot(leases \cup {r}, t), k)
          = Usage(OfRoot(leases, t), k) + (IF RootOf[r] = t THEN Need[r][k] ELSE 0)
    <3>1. leases \in SUBSET Requests
      BY <1>1
    <3> QED
      BY <3>1, OfRootAdd, Zenon
  <2>2. rootReserved[t][k] = Usage(OfRoot(leases, t), k)
    BY DEF IInv, AccountsMatchLeases
  <2>3. rootReserved'[t][k]
          = rootReserved[t][k] + (IF RootOf[r] = t THEN Need[r][k] ELSE 0)
    <3>1. rootReserved' = [rootReserved EXCEPT
            ![RootOf[r]] = [l \in Kinds |-> rootReserved[RootOf[r]][l] + Need[r][l]]]
      BY DEF GrantLocked
    <3>2. CASE t = RootOf[r]
      BY <1>1, <3>1, <3>2
    <3>3. CASE t # RootOf[r]
      <4>1. rootReserved'[t] = rootReserved[t]
        BY <1>1, <3>1, <3>3
      <4>2. rootReserved[t][k] \in Nat
        BY <1>1
      <4> QED
        BY <3>3, <4>1, <4>2
    <3> QED
      BY <3>2, <3>3
  <2>4. leases' = leases \cup {r}
    BY DEF GrantLocked
  <2> QED
    BY <2>1, <2>2, <2>3, <2>4
<1>8. AccountsMatchLeases'
  BY <1>6, <1>7 DEF AccountsMatchLeases
<1> QED
  BY <1>2, <1>3, <1>4, <1>5, <1>8

(* A grant of a request that is not blocked keeps the accounts bounded. *)
LEMMA GrantBounds ==
  ASSUME IInv, NEW r \in Requests, GrantLocked(r), Mode = "enforce" => ~WouldBlock(r)
  PROVE  AccountsBounded'
<1> SUFFICES ASSUME Mode = "enforce", NEW k \in Kinds
             PROVE  /\ Limit[k] > 0 => reserved'[k] <= Limit[k]
                    /\ RootLimit[k] > 0 =>
                         \A t \in Roots : rootReserved'[t][k] <= RootLimit[k]
  BY DEF AccountsBounded
<1>1. /\ reserved \in [Kinds -> Nat] /\ consumed \in [Kinds -> Nat]
      /\ rootReserved \in [Roots -> [Kinds -> Nat]]
      /\ RootOf[r] \in Roots
      /\ Need[r][k] \in Nat /\ Limit[k] \in Nat /\ RootLimit[k] \in Nat
  BY NeedAssumption, AmountAssumption DEF IInv, TypeOK
<1>2. Need[r][k] > 0 => ~OverLimit(r, k) /\ ~OverRoot(r, k)
  BY DEF WouldBlock
<1>3. /\ Limit[k] > 0 => reserved[k] <= Limit[k]
      /\ RootLimit[k] > 0 => \A t \in Roots : rootReserved[t][k] <= RootLimit[k]
  BY DEF IInv, AccountsBounded
<1>4. Spent(k) \in Nat
  BY <1>1 DEF Spent
<1>5. reserved'[k] = reserved[k] + Need[r][k]
  BY DEF GrantLocked
<1>6. \A t \in Roots : rootReserved'[t][k]
          = rootReserved[t][k] + (IF RootOf[r] = t THEN Need[r][k] ELSE 0)
  BY <1>1 DEF GrantLocked
<1>7. Limit[k] > 0 => reserved'[k] <= Limit[k]
  BY <1>1, <1>2, <1>3, <1>4, <1>5 DEF OverLimit
<1>8. ASSUME RootLimit[k] > 0, NEW t \in Roots PROVE rootReserved'[t][k] <= RootLimit[k]
  <2>1. rootReserved[t][k] \in Nat /\ rootReserved[t][k] <= RootLimit[k]
    BY <1>1, <1>3, <1>8
  <2>2. CASE RootOf[r] = t /\ Need[r][k] > 0
    BY <1>1, <1>2, <1>6, <1>8, <2>2 DEF OverRoot
  <2>3. CASE ~(RootOf[r] = t /\ Need[r][k] > 0)
    BY <1>1, <1>6, <2>1, <2>3
  <2> QED
    BY <2>2, <2>3
<1> QED
  BY <1>7, <1>8

(* A release keeps the accounts equal to the leases, and bounded. *)
LEMMA ReleaseAccounts ==
  ASSUME IInv, NEW r \in Requests, NEW used \in Usages, Release(r, used)
  PROVE  /\ leases' \subseteq Requests
         /\ reserved' \in [Kinds -> Nat]
         /\ consumed' \in [Kinds -> Nat]
         /\ rootReserved' \in [Roots -> [Kinds -> Nat]]
         /\ runReserved' \in [Runs -> [Kinds -> Nat]]
         /\ AccountsMatchLeases'
         /\ AccountsBounded'
<1>1. /\ r \in leases /\ leases \subseteq Requests
      /\ reserved \in [Kinds -> Nat]
      /\ consumed \in [Kinds -> Nat]
      /\ rootReserved \in [Roots -> [Kinds -> Nat]]
      /\ runReserved \in [Runs -> [Kinds -> Nat]]
      /\ RootOf[r] \in Roots
      /\ used \in Nat
      /\ \A k \in Kinds : Need[r][k] \in Nat /\ Limit[k] \in Nat /\ RootLimit[k] \in Nat
  BY NeedAssumption, AmountAssumption DEF IInv, TypeOK, Release
<1>2. \A n, m \in Nat : Less(n, m) \in Nat /\ Less(n, m) <= n /\ Less(n + m, m) = n
  BY DEF Less
<1>3. leases' = leases \ {r}
  BY DEF Release
<1>4. \A k \in Kinds : reserved'[k] = Less(reserved[k], Need[r][k])
  BY DEF Release
<1>5. \A t \in Roots, k \in Kinds :
        rootReserved'[t][k] = IF RootOf[r] = t THEN Less(rootReserved[t][k], Need[r][k])
                              ELSE rootReserved[t][k]
  BY <1>1 DEF Release
<1>6. reserved' \in [Kinds -> Nat] /\ consumed' \in [Kinds -> Nat]
  <2>1. \A k \in Kinds : Less(reserved[k], Need[r][k]) \in Nat
    BY <1>1, <1>2
  <2>2. \A k \in Kinds : consumed[k] + used \in Nat /\ consumed[k] \in Nat
    BY <1>1
  <2> QED
    BY <2>1, <2>2 DEF Release
<1>7. rootReserved' \in [Roots -> [Kinds -> Nat]]
  <2>1. \A k \in Kinds : Less(rootReserved[RootOf[r]][k], Need[r][k]) \in Nat
    <3>1. \A k \in Kinds : rootReserved[RootOf[r]][k] \in Nat /\ Need[r][k] \in Nat
      BY <1>1
    <3> QED
      BY <1>2, <3>1
  <2>2. [k \in Kinds |-> Less(rootReserved[RootOf[r]][k], Need[r][k])] \in [Kinds -> Nat]
    BY <2>1
  <2> QED
    BY <1>1, <2>2 DEF Release
<1>8. runReserved' \in [Runs -> [Kinds -> Nat]]
  <2>1. \A t \in Runs, k \in Kinds : Less(runReserved[t][k], Need[r][k]) \in Nat
    BY <1>1, <1>2
  <2> QED
    BY <1>1, <2>1 DEF Release
<1>9. AccountsMatchLeases'
  <2>1. ASSUME NEW k \in Kinds PROVE reserved'[k] = Usage(leases', k)
    <3>1. Usage(leases, k) = Usage(leases \ {r}, k) + Need[r][k]
      BY <1>1, UsageRemove
    <3>2. Usage(leases \ {r}, k) \in Nat
      BY <1>1, UsageType
    <3>3. reserved[k] = Usage(leases, k)
      BY DEF IInv, AccountsMatchLeases
    <3>4. Less(Usage(leases \ {r}, k) + Need[r][k], Need[r][k]) = Usage(leases \ {r}, k)
      BY <1>1, <1>2, <3>2
    <3> QED
      BY <1>3, <1>4, <3>1, <3>3, <3>4
  <2>2. ASSUME NEW k \in Kinds, NEW t \in Roots
        PROVE  rootReserved'[t][k] = Usage(OfRoot(leases', t), k)
    <3>1. CASE RootOf[r] = t
      <4>1. Usage(OfRoot(leases, t), k) = Usage(OfRoot(leases \ {r}, t), k) + Need[r][k]
        BY <1>1, <3>1, OfRootRemove
      <4>2. Usage(OfRoot(leases \ {r}, t), k) \in Nat
        BY <1>1, UsageType DEF OfRoot
      <4>3. Less(Usage(OfRoot(leases \ {r}, t), k) + Need[r][k], Need[r][k])
              = Usage(OfRoot(leases \ {r}, t), k)
        BY <1>1, <1>2, <4>2
      <4>4. rootReserved'[t][k] = Less(rootReserved[t][k], Need[r][k])
        BY <1>5, <3>1
      <4>5. rootReserved[t][k] = Usage(OfRoot(leases, t), k)
        BY DEF IInv, AccountsMatchLeases
      <4> QED
        BY <1>3, <4>1, <4>3, <4>4, <4>5
    <3>2. CASE RootOf[r] # t
      <4>1. OfRoot(leases \ {r}, t) = OfRoot(leases, t)
        BY <3>2 DEF OfRoot
      <4>2. rootReserved[t][k] = Usage(OfRoot(leases, t), k)
        BY DEF IInv, AccountsMatchLeases
      <4> QED
        BY <1>3, <1>5, <3>2, <4>1, <4>2
    <3> QED
      BY <3>1, <3>2
  <2> QED
    BY <2>1, <2>2 DEF AccountsMatchLeases
<1>10. AccountsBounded'
  <2> SUFFICES ASSUME Mode = "enforce", NEW k \in Kinds
               PROVE  /\ Limit[k] > 0 => reserved'[k] <= Limit[k]
                      /\ RootLimit[k] > 0 =>
                           \A t \in Roots : rootReserved'[t][k] <= RootLimit[k]
    BY DEF AccountsBounded
  <2>1. /\ Limit[k] > 0 => reserved[k] <= Limit[k]
        /\ RootLimit[k] > 0 => \A t \in Roots : rootReserved[t][k] <= RootLimit[k]
    BY DEF IInv, AccountsBounded
  <2>2. reserved[k] \in Nat /\ Less(reserved[k], Need[r][k]) <= reserved[k]
          /\ Less(reserved[k], Need[r][k]) \in Nat
    BY <1>1, <1>2
  <2>3. Limit[k] > 0 => reserved'[k] <= Limit[k]
    BY <1>1, <1>4, <2>1, <2>2
  <2>4. ASSUME RootLimit[k] > 0, NEW t \in Roots PROVE rootReserved'[t][k] <= RootLimit[k]
    <3>1. rootReserved[t][k] \in Nat /\ Less(rootReserved[t][k], Need[r][k]) \in Nat
            /\ Less(rootReserved[t][k], Need[r][k]) <= rootReserved[t][k]
      BY <1>1, <1>2
    <3>2. rootReserved[t][k] <= RootLimit[k]
      BY <2>1, <2>4
    <3> QED
      BY <1>1, <1>5, <3>1, <3>2
  <2> QED
    BY <2>3, <2>4
<1> QED
  BY <1>1, <1>3, <1>6, <1>7, <1>8, <1>9, <1>10
-----------------------------------------------------------------------------
(* Steps that leave a part of the state alone preserve what is said of it. *)

LEMMA AccountsKept ==
  ASSUME IInv, UNCHANGED <<leases, reserved, rootReserved>>
  PROVE  AccountsMatchLeases' /\ AccountsBounded'
BY DEF IInv, AccountsMatchLeases, AccountsBounded

LEMMA QueueKept ==
  ASSUME IInv, UNCHANGED resultVars, leases' \subseteq leases
  PROVE  QueueMatchesOutcomes'
<1>1. queue' = queue /\ outcome' = outcome /\ Enqueued' = Enqueued
  BY DEF resultVars, Enqueued
<1> QED
  BY <1>1 DEF IInv, QueueMatchesOutcomes

LEMMA AnswersKept ==
  ASSUME IInv, UNCHANGED callVars,
         \A r \in Requests : outcome[r] # "queued" => outcome'[r] = outcome[r]
  PROVE  AnswersSettled'
BY DEF IInv, AnswersSettled, callVars

(* A caller returns with the settled outcome of its request. *)
LEMMA AnswersReturned ==
  ASSUME IInv, NEW r \in Requests, NEW o \in Outcomes, Return(r, o), o # "queued",
         outcome'[r] = o,
         \A q \in Requests \ {r} : outcome'[q] = outcome[q]
  PROVE  AnswersSettled' /\ caller'[r] = "returned"
BY DEF IInv, TypeOK, AnswersSettled, Return

(* The removal of a queued entry with a final outcome other than a grant. *)
LEMMA QueueCancelled ==
  ASSUME IInv, NEW r \in Enqueued, NEW o \in Outcomes \ {"queued", "granted"},
         CancelLocked(r, o), leases' = leases
  PROVE  QueueMatchesOutcomes'
<1>1. /\ queue' \in Seq(Requests)
      /\ Len(queue') = Len(queue) - 1
      /\ \A i, j \in DOMAIN queue' : queue'[i] = queue'[j] => i = j
      /\ Enqueued' = Enqueued \ {r}
      /\ outcome'[r] = o
      /\ \A q \in Requests \ {r} : outcome'[q] = outcome[q]
      /\ r \in Requests /\ r \notin leases
  BY CancelQueue
<1>2. Len(queue) \in Nat /\ QueueMax \in Nat /\ Len(queue) <= QueueMax /\ Len(queue') \in Nat
  BY <1>1, AmountAssumption DEF IInv, TypeOK, QueueMatchesOutcomes
<1>3. Len(queue') <= QueueMax
  BY <1>1, <1>2
<1>4. \A q \in Requests : q \in Enqueued' <=> outcome'[q] = "queued"
  BY <1>1 DEF IInv, QueueMatchesOutcomes
<1>5. \A q \in leases' : outcome'[q] = "granted"
  BY <1>1 DEF IInv, TypeOK, QueueMatchesOutcomes
<1> QED
  BY <1>1, <1>3, <1>4, <1>5 DEF QueueMatchesOutcomes

-----------------------------------------------------------------------------
(* Admission.                                                              *)

LEMMA AdmitStep ==
  ASSUME IInv, NEW r \in Requests, Admit(r)
  PROVE  /\ outcome' \in [Requests -> Outcomes \cup {"none"}]
         /\ outcome'[r] \in Outcomes
         /\ \A q \in Requests \ {r} : outcome'[q] = outcome[q]
         /\ queue' \in Seq(Requests)
         /\ leases' \subseteq Requests
         /\ reserved' \in [Kinds -> Nat]
         /\ rootReserved' \in [Roots -> [Kinds -> Nat]]
         /\ runReserved' \in [Runs -> [Kinds -> Nat]]
         /\ lastRoot' \subseteq Roots
         /\ QueueMatchesOutcomes'
         /\ AccountsMatchLeases'
         /\ AccountsBounded'
<1> DEFINE o == AdmitOutcome(r)
<1>1. /\ o \in Outcomes
      /\ o = "granted" => (Mode = "enforce" => ~WouldBlock(r))
      /\ o = "queued" => ~(Len(queue) >= QueueMax)
  BY AdmitDecision
<1>2. /\ outcome[r] = "none" /\ r \notin leases /\ r \notin Enqueued
      /\ queue \in Seq(Requests)
      /\ outcome \in [Requests -> Outcomes \cup {"none"}]
  BY DEF Admit, IInv, TypeOK, AnswersSettled, QueueMatchesOutcomes
<1>3. /\ outcome' = [outcome EXCEPT ![r] = o]
      /\ queue' = IF o = "queued" THEN Append(queue, r) ELSE queue
      /\ o = "granted" => GrantLocked(r)
      /\ o # "granted" => UNCHANGED poolVars
  BY DEF Admit
<1> HIDE DEF o
<1>4. /\ outcome' \in [Requests -> Outcomes \cup {"none"}]
      /\ outcome'[r] = o
      /\ \A q \in Requests \ {r} : outcome'[q] = outcome[q]
  BY <1>1, <1>2, <1>3
<1>5. /\ leases' \subseteq Requests
      /\ reserved' \in [Kinds -> Nat]
      /\ rootReserved' \in [Roots -> [Kinds -> Nat]]
      /\ runReserved' \in [Runs -> [Kinds -> Nat]]
      /\ lastRoot' \subseteq Roots
      /\ AccountsMatchLeases'
      /\ AccountsBounded'
  <2>1. CASE o = "granted"
    BY <1>1, <1>2, <1>3, <2>1, GrantAccounts, GrantBounds
  <2>2. CASE o # "granted"
    <3>1. UNCHANGED <<leases, reserved, rootReserved, runReserved, lastRoot>>
      BY <1>3, <2>2 DEF poolVars
    <3> QED
      BY <3>1, AccountsKept DEF IInv, TypeOK
  <2> QED
    BY <2>1, <2>2
<1>6. leases' = IF o = "granted" THEN leases \cup {r} ELSE leases
  BY <1>3 DEF GrantLocked, poolVars
<1>7. queue' \in Seq(Requests) /\ QueueMatchesOutcomes'
  <2>1. CASE o = "queued"
    <3>1. /\ queue' \in Seq(Requests)
          /\ Len(queue') = Len(queue) + 1
          /\ \A i \in 1 .. Len(queue) : queue'[i] = queue[i]
          /\ queue'[Len(queue) + 1] = r
      BY <1>2, <1>3, <2>1, AppendProperties
    <3>2. Len(queue) \in Nat /\ QueueMax \in Nat
      BY <1>2, AmountAssumption
    <3>3. DOMAIN queue = 1 .. Len(queue) /\ DOMAIN queue' = 1 .. Len(queue) + 1
      BY <1>2, <3>1
    <3>4. Len(queue') <= QueueMax
      BY <1>1, <2>1, <3>1, <3>2
    <3>5. \A i, j \in DOMAIN queue' : queue'[i] = queue'[j] => i = j
      <4>1. \A i \in 1 .. Len(queue) : queue[i] # r
        BY <1>2, <3>3 DEF Enqueued
      <4>2. \A i, j \in 1 .. Len(queue) : queue[i] = queue[j] => i = j
        BY <3>3 DEF IInv, QueueMatchesOutcomes
      <4> QED
        BY <3>1, <3>2, <3>3, <4>1, <4>2
    <3>6. Enqueued' = Enqueued \cup {r}
      BY <3>1, <3>2, <3>3 DEF Enqueued
    <3>7. \A q \in Requests : q \in Enqueued' <=> outcome'[q] = "queued"
      BY <1>4, <2>1, <3>6 DEF IInv, QueueMatchesOutcomes
    <3>8. \A q \in leases' : outcome'[q] = "granted"
      BY <1>2, <1>4, <1>6, <2>1 DEF IInv, TypeOK, QueueMatchesOutcomes
    <3> QED
      BY <3>1, <3>4, <3>5, <3>7, <3>8 DEF QueueMatchesOutcomes
  <2>2. CASE o # "queued"
    <3>1. queue' = queue /\ Enqueued' = Enqueued
      BY <1>3, <2>2 DEF Enqueued
    <3>2. \A q \in Requests : q \in Enqueued' <=> outcome'[q] = "queued"
      BY <1>2, <1>4, <2>2, <3>1 DEF IInv, QueueMatchesOutcomes
    <3>3. \A q \in leases' : outcome'[q] = "granted"
      BY <1>2, <1>4, <1>6 DEF IInv, TypeOK, QueueMatchesOutcomes
    <3> QED
      BY <1>2, <3>1, <3>2, <3>3 DEF IInv, QueueMatchesOutcomes
  <2> QED
    BY <2>1, <2>2
<1> QED
  BY <1>1, <1>4, <1>5, <1>7

LEMMA AdmitOnlyStep ==
  ASSUME IInv, NEW r \in Requests, AdmitOnly(r)
  PROVE  IInv'
<1>1. Admit(r) /\ caller' = [caller EXCEPT ![r] = "held"] /\ answer' = answer
  BY DEF AdmitOnly
<1>2. TypeOK'
  BY <1>1, AdmitStep DEF IInv, TypeOK, Admit, adminVars, envVars
<1>3. AnswersSettled'
  <2>1. caller[r] = "idle" /\ outcome[r] = "none" /\ answer[r] = "none"
    BY <1>1 DEF Admit, IInv, TypeOK, AnswersSettled
  <2>2. \A q \in Requests \ {r} : outcome'[q] = outcome[q]
    BY <1>1, AdmitStep
  <2> QED
    BY <1>1, <2>1, <2>2 DEF IInv, TypeOK, AnswersSettled
<1> QED
  BY <1>1, <1>2, <1>3, AdmitStep DEF IInv

LEMMA AdmitWaitStep ==
  ASSUME IInv, NEW r \in Requests, AdmitWait(r)
  PROVE  IInv'
<1>1. /\ Admit(r)
      /\ outcome'[r] = "queued" => caller' = [caller EXCEPT ![r] = "looking"] /\ answer' = answer
      /\ outcome'[r] # "queued" => Return(r, outcome'[r])
  BY DEF AdmitWait, Return
<1>2. /\ outcome'[r] \in Outcomes
      /\ \A q \in Requests \ {r} : outcome'[q] = outcome[q]
  BY <1>1, AdmitStep
<1>3. caller' \in [Requests -> {"idle", "held", "looking", "waiting", "returned"}]
        /\ answer' \in [Requests -> Outcomes \cup {"none"}]
  BY <1>1, <1>2 DEF IInv, TypeOK, Return
<1>4. TypeOK'
  BY <1>1, <1>3, AdmitStep DEF IInv, TypeOK, Admit, adminVars, envVars
<1>5. AnswersSettled'
  <2>1. outcome[r] = "none" /\ answer[r] = "none"
    BY <1>1 DEF Admit, IInv, TypeOK, AnswersSettled
  <2>2. CASE outcome'[r] = "queued"
    BY <1>1, <1>2, <2>1, <2>2 DEF IInv, TypeOK, AnswersSettled
  <2>3. CASE outcome'[r] # "queued"
    BY <1>1, <1>2, <2>3, AnswersReturned
  <2> QED
    BY <2>2, <2>3
<1> QED
  BY <1>1, <1>4, <1>5, AdmitStep DEF IInv
-----------------------------------------------------------------------------
(* The wait loop and cancel_request.                                       *)

LEMMA LookStep ==
  ASSUME IInv, NEW r \in Requests, Look(r)
  PROVE  IInv'
<1>1. UNCHANGED <<outcome, queue, leases, reserved, rootReserved>>
  BY DEF Look, resultVars, poolVars
<1>2. CASE r \in Enqueued
  <2>1. caller' = [caller EXCEPT ![r] = "waiting"] /\ answer' = answer /\ caller[r] = "looking"
    BY <1>2 DEF Look
  <2>2. TypeOK'
    BY <2>1 DEF Look, IInv, TypeOK, resultVars, poolVars, adminVars, envVars
  <2>3. AnswersSettled'
    BY <1>1, <2>1 DEF IInv, TypeOK, AnswersSettled
  <2> QED
    BY <1>1, <2>2, <2>3, AccountsKept, QueueKept DEF IInv, resultVars
<1>3. CASE r \notin Enqueued
  <2>1. outcome[r] # "queued"
    BY <1>3 DEF IInv, QueueMatchesOutcomes
  <2>2. Return(r, outcome[r])
    BY <1>3, <2>1 DEF Look
  <2>3. TypeOK'
    BY <2>2 DEF Look, Return, IInv, TypeOK, resultVars, poolVars, adminVars, envVars
  <2>4. AnswersSettled'
    BY <1>1, <2>1, <2>2 DEF IInv, TypeOK, AnswersSettled, Return
  <2> QED
    BY <1>1, <2>3, <2>4, AccountsKept, QueueKept DEF IInv, resultVars
<1> QED
  BY <1>2, <1>3

LEMMA PollStep ==
  ASSUME IInv, NEW r \in Requests, Poll(r)
  PROVE  IInv'
<1>1. UNCHANGED <<unset, leases, reserved, rootReserved, runReserved, lastRoot, consumed,
                  runLimit, shuttingDown, drain, cancelled, late>>
  BY DEF Poll, poolVars, adminVars, envVars
<1>2. CASE PollAnswered(r)
  <2>1. outcome' = outcome /\ queue' = queue /\ outcome[r] # "queued" /\ Return(r, outcome[r])
    BY <1>2 DEF PollAnswered, resultVars
  <2>2. TypeOK'
    BY <1>1, <2>1 DEF Return, IInv, TypeOK
  <2>3. AnswersSettled'
    BY <2>1 DEF IInv, TypeOK, AnswersSettled, Return
  <2> QED
    BY <1>1, <2>1, <2>2, <2>3, AccountsKept, QueueKept DEF IInv, resultVars
<1>3. ASSUME NEW o \in {"cancelled", "capacity_timeout"}, outcome[r] = "queued",
             CancelLocked(r, o), Return(r, o)
      PROVE  IInv'
  <2>1. r \in Enqueued /\ o \in Outcomes \ {"queued", "granted"} /\ o \in Outcomes \ {"queued"}
    BY <1>3 DEF IInv, QueueMatchesOutcomes, Outcomes
  <2>2. /\ queue' \in Seq(Requests)
        /\ outcome' \in [Requests -> Outcomes \cup {"none"}]
        /\ outcome'[r] = o
        /\ \A q \in Requests \ {r} : outcome'[q] = outcome[q]
    BY <1>3, <2>1, CancelQueue
  <2>3. TypeOK'
    BY <1>1, <1>3, <2>1, <2>2 DEF Return, IInv, TypeOK
  <2>4. QueueMatchesOutcomes'
    BY <1>1, <1>3, <2>1, QueueCancelled
  <2>5. AnswersSettled'
    BY <1>3, <2>1, <2>2, AnswersReturned
  <2> QED
    BY <1>1, <2>3, <2>4, <2>5, AccountsKept DEF IInv
<1>4. CASE PollCancelled(r)
  BY <1>3, <1>4 DEF PollCancelled
<1>5. CASE PollExpired(r)
  BY <1>3, <1>5 DEF PollExpired
<1> QED
  BY <1>2, <1>4, <1>5 DEF Poll, PollEnds

(* Any step that only answers a queued entry, and moves nothing else that the
   invariant is about. *)
LEMMA EntryCancelled ==
  ASSUME IInv, NEW r \in Enqueued, NEW o \in {"cancelled", "capacity_timeout"},
         CancelLocked(r, o),
         UNCHANGED <<callVars, unset, poolVars, consumed, adminVars, drain, envVars>>
  PROVE  IInv'
<1>1. o \in Outcomes \ {"queued", "granted"} /\ o \in Outcomes \ {"queued"}
  BY DEF Outcomes
<1>2. UNCHANGED <<caller, answer, unset, leases, reserved, rootReserved, runReserved,
                  lastRoot, consumed, runLimit, shuttingDown, drain, cancelled, late>>
  BY DEF callVars, poolVars, adminVars, envVars
<1>3. /\ queue' \in Seq(Requests)
      /\ outcome' \in [Requests -> Outcomes \cup {"none"}]
      /\ \A q \in Requests \ {r} : outcome'[q] = outcome[q]
      /\ outcome[r] = "queued"
  BY <1>1, CancelQueue
<1>4. TypeOK'
  BY <1>2, <1>3 DEF IInv, TypeOK
<1>5. QueueMatchesOutcomes'
  BY <1>1, <1>2, QueueCancelled
<1>6. AnswersSettled'
  BY <1>3, AnswersKept
<1> QED
  BY <1>2, <1>4, <1>5, <1>6, AccountsKept DEF IInv

-----------------------------------------------------------------------------
(* Release, drain and shutdown.                                            *)

LEMMA ReleaseStep ==
  ASSUME IInv, NEW r \in Requests, NEW used \in Usages, Release(r, used)
  PROVE  IInv'
<1>1. UNCHANGED <<callVars, resultVars, unset, lastRoot, adminVars, envVars>> /\ drain' = "purge"
  BY DEF Release
<1>2. TypeOK'
  BY <1>1, ReleaseAccounts DEF IInv, TypeOK, callVars, resultVars, adminVars, envVars
<1>3. leases' \subseteq leases
  BY DEF Release
<1>4. AnswersSettled'
  BY <1>1, AnswersKept DEF resultVars
<1> QED
  BY <1>1, <1>2, <1>3, <1>4, ReleaseAccounts, QueueKept DEF IInv

LEMMA DrainGrantStep ==
  ASSUME IInv, DrainGrant
  PROVE  IInv'
<1>1. PICK i \in DOMAIN queue :
        /\ IsNext(i)
        /\ GrantLocked(queue[i])
        /\ CancelLocked(queue[i], "granted")
        /\ unset' = {queue[i]}
  BY DEF DrainGrant
<1> DEFINE r == queue[i]
<1>2. r \in Enqueued
  BY DEF Enqueued
<1>3. ~WouldBlock(r)
  BY <1>1 DEF IsNext, OtherRoot, Grantable
<1> HIDE DEF r
<1>4. GrantLocked(r) /\ CancelLocked(r, "granted") /\ unset' = {r}
  BY <1>1 DEF r
<1>5. /\ queue' \in Seq(Requests)
      /\ Len(queue') = Len(queue) - 1
      /\ \A j, l \in DOMAIN queue' : queue'[j] = queue'[l] => j = l
      /\ Enqueued' = Enqueued \ {r}
      /\ outcome' \in [Requests -> Outcomes \cup {"none"}]
      /\ outcome'[r] = "granted"
      /\ \A q \in Requests \ {r} : outcome'[q] = outcome[q]
      /\ r \in Requests /\ outcome[r] = "queued" /\ r \notin leases
  BY <1>2, <1>4, CancelQueue DEF Outcomes
<1>6. UNCHANGED <<callVars, consumed, adminVars, drain, envVars>>
  BY DEF DrainGrant
<1>7. TypeOK'
  BY <1>4, <1>5, <1>6, GrantAccounts DEF IInv, TypeOK, callVars, adminVars, envVars
<1>8. AccountsMatchLeases' /\ AccountsBounded'
  BY <1>3, <1>4, <1>5, GrantAccounts, GrantBounds
<1>9. QueueMatchesOutcomes'
  <2>1. Len(queue) \in Nat /\ QueueMax \in Nat /\ Len(queue) <= QueueMax
    BY AmountAssumption DEF IInv, TypeOK, QueueMatchesOutcomes
  <2>2. Len(queue') <= QueueMax
    BY <1>5, <2>1
  <2>3. \A q \in Requests : q \in Enqueued' <=> outcome'[q] = "queued"
    BY <1>5 DEF IInv, QueueMatchesOutcomes
  <2>4. leases' = leases \cup {r}
    BY <1>4 DEF GrantLocked
  <2>5. \A q \in leases' : outcome'[q] = "granted"
    BY <1>5, <2>4 DEF IInv, TypeOK, QueueMatchesOutcomes
  <2> QED
    BY <1>5, <2>2, <2>3, <2>5 DEF QueueMatchesOutcomes
<1>10. AnswersSettled'
  BY <1>5, <1>6, AnswersKept
<1> QED
  BY <1>7, <1>8, <1>9, <1>10 DEF IInv

LEMMA ShutdownStep ==
  ASSUME IInv, Shutdown
  PROVE  IInv'
<1>1. /\ outcome' = [r \in Requests |-> IF r \in Enqueued THEN "shutdown" ELSE outcome[r]]
      /\ queue' = <<>> /\ shuttingDown' = TRUE
      /\ UNCHANGED <<callVars, unset, poolVars, consumed, runLimit, drain, envVars>>
  BY DEF Shutdown, ShutdownOutcome
<1>2. queue' \in Seq(Requests) /\ Len(queue') = 0 /\ DOMAIN queue' = {} /\ Enqueued' = {}
  BY <1>1 DEF Enqueued
<1>3. TypeOK'
  BY <1>1, <1>2 DEF IInv, TypeOK, Outcomes, callVars, poolVars, envVars
<1>4. QueueMatchesOutcomes'
  BY <1>1, <1>2, AmountAssumption DEF IInv, TypeOK, QueueMatchesOutcomes, poolVars
<1>5. AnswersSettled'
  BY <1>1, AnswersKept DEF IInv, QueueMatchesOutcomes
<1> QED
  BY <1>1, <1>3, <1>4, <1>5, AccountsKept DEF IInv, poolVars

(* Steps of the drain loop, of the administration and of the environment that
   answer and grant nothing. *)
LEMMA SilentStep ==
  ASSUME IInv, UNCHANGED <<callVars, resultVars, leases, reserved, rootReserved, consumed>>,
         unset' \subseteq Requests, runLimit' \in [Runs -> [Kinds -> Nat]],
         runReserved' \in [Runs -> [Kinds -> Nat]], lastRoot' = lastRoot,
         shuttingDown' = shuttingDown, drain' \in {"off", "purge", "grant"},
         cancelled' \subseteq Requests, late' \subseteq Requests
  PROVE  IInv'
<1>1. TypeOK'
  BY DEF IInv, TypeOK, callVars, resultVars
<1>2. AnswersSettled'
  BY AnswersKept DEF resultVars
<1> QED
  BY <1>1, <1>2, AccountsKept, QueueKept DEF IInv

LEMMA AdministrationStep ==
  ASSUME IInv, NEW t \in Runs,
         \/ RemoveLimitForRun(t)
         \/ \E k \in Kinds, n \in RunLimits : SetLimitForRun(t, k, n)
  PROVE  IInv'
<1>1. NoAmount \in [Kinds -> Nat]
  BY DEF NoAmount
<1>2. CASE RemoveLimitForRun(t)
  <2>1. /\ runLimit' \in [Runs -> [Kinds -> Nat]]
        /\ runReserved' \in [Runs -> [Kinds -> Nat]]
    BY <1>1, <1>2 DEF RemoveLimitForRun, IInv, TypeOK
  <2>2. UNCHANGED <<callVars, resultVars, unset, leases, reserved, rootReserved, lastRoot,
                    consumed, shuttingDown, drain, cancelled, late>>
    BY <1>2 DEF RemoveLimitForRun, envVars
  <2> QED
    BY <2>1, <2>2, SilentStep DEF IInv, TypeOK
<1>3. ASSUME NEW k \in Kinds, NEW n \in RunLimits, SetLimitForRun(t, k, n)
      PROVE  IInv'
  <2>1. runLimit' \in [Runs -> [Kinds -> Nat]]
    BY <1>1, <1>3, AmountAssumption DEF SetLimitForRun, IInv, TypeOK
  <2>2. UNCHANGED <<callVars, resultVars, unset, leases, reserved, rootReserved, runReserved,
                    lastRoot, consumed, shuttingDown, drain, cancelled, late>>
    BY <1>3 DEF SetLimitForRun, poolVars, envVars
  <2> QED
    BY <2>1, <2>2, SilentStep DEF IInv, TypeOK
<1> QED
  BY <1>2, <1>3

LEMMA DrainLoopStep ==
  ASSUME IInv, DrainStep
  PROVE  IInv'
<1>1. CASE DrainPurge
  <2>1. PICK r \in Terminal :
          CancelLocked(r, IF r \in cancelled THEN "cancelled" ELSE "capacity_timeout")
    BY <1>1 DEF DrainPurge
  <2>2. UNCHANGED <<callVars, unset, poolVars, consumed, adminVars, drain, envVars>>
    BY <1>1 DEF DrainPurge
  <2>3. r \in Enqueued
    BY DEF Terminal
  <2> QED
    BY <2>1, <2>2, <2>3, EntryCancelled
<1>2. CASE DrainPurged \/ DrainPublish \/ DrainStop
  <2>1. UNCHANGED <<callVars, resultVars, leases, reserved, rootReserved, runReserved, lastRoot,
                    consumed, runLimit, shuttingDown, cancelled, late>>
    BY <1>2 DEF DrainPurged, DrainPublish, DrainStop, poolVars, adminVars, envVars
  <2>2. unset' \subseteq Requests /\ drain' \in {"off", "purge", "grant"}
    BY <1>2 DEF DrainPurged, DrainPublish, DrainStop, IInv, TypeOK
  <2> QED
    BY <2>1, <2>2, SilentStep DEF IInv, TypeOK
<1>3. CASE DrainGrant
  BY <1>3, DrainGrantStep
<1> QED
  BY <1>1, <1>2, <1>3 DEF DrainStep

-----------------------------------------------------------------------------
(* Theorems.                                                               *)

LEMMA IInvStep == IInv /\ [Next]_vars => IInv'
<1> SUFFICES ASSUME IInv, [Next]_vars PROVE IInv'
  OBVIOUS
<1>1. ASSUME NEW r \in Requests, AdmitOnly(r) PROVE IInv'
  BY <1>1, AdmitOnlyStep
<1>2. ASSUME NEW r \in Requests, AdmitWait(r) PROVE IInv'
  BY <1>2, AdmitWaitStep
<1>3. ASSUME NEW r \in Requests, Look(r) PROVE IInv'
  BY <1>3, LookStep
<1>4. ASSUME NEW r \in Requests, Poll(r) PROVE IInv'
  BY <1>4, PollStep
<1>5. ASSUME NEW r \in Requests, CancelRequest(r) PROVE IInv'
  <2>1. r \in Enqueued /\ CancelLocked(r, "cancelled")
        /\ UNCHANGED <<callVars, unset, poolVars, consumed, adminVars, drain, envVars>>
    BY <1>5 DEF CancelRequest
  <2> QED
    BY <2>1, EntryCancelled
<1>6. ASSUME NEW r \in Requests, CancelToken(r) \/ Deadline(r) PROVE IInv'
  <2>1. /\ UNCHANGED <<callVars, resultVars, unset, leases, reserved, rootReserved, runReserved,
                       lastRoot, consumed, runLimit, shuttingDown, drain>>
        /\ cancelled' \subseteq Requests /\ late' \subseteq Requests
    BY <1>6 DEF CancelToken, Deadline, IInv, TypeOK, poolVars, adminVars
  <2> QED
    BY <2>1, SilentStep DEF IInv, TypeOK
<1>7. ASSUME NEW r \in Requests, NEW used \in Usages, Release(r, used) PROVE IInv'
  BY <1>7, ReleaseStep
<1>8. CASE DrainStep
  BY <1>8, DrainLoopStep
<1>9. ASSUME NEW t \in Runs,
             \/ RemoveLimitForRun(t)
             \/ \E k \in Kinds, n \in RunLimits : SetLimitForRun(t, k, n)
      PROVE  IInv'
  BY <1>9, AdministrationStep
<1>10. CASE Shutdown
  BY <1>10, ShutdownStep
<1>11. CASE UNCHANGED vars
  BY <1>11, SilentStep
    DEF vars, poolVars, adminVars, envVars, IInv, TypeOK
<1> QED
  BY <1>1, <1>2, <1>3, <1>4, <1>5, <1>6, <1>7, <1>8, <1>9, <1>10, <1>11 DEF Next

(* Every reachable state satisfies the inductive invariant. *)
THEOREM Invariance == Spec => []IInv
  BY IInvInit, IInvStep, PTL DEF Spec

(* The state keeps its types. *)
THEOREM TypeCorrectness == Spec => []TypeOK
<1>1. IInv => TypeOK
  BY DEF IInv
<1> QED
  BY <1>1, Invariance, PTL

(* Conservation: _reserved and _root_reserved are what the live leases hold. *)
THEOREM Conservation == Spec => []AccountsMatchLeases
<1>1. IInv => AccountsMatchLeases
  BY DEF IInv
<1> QED
  BY <1>1, Invariance, PTL

(* In enforce mode no interleaving of admissions, releases, drains, timeouts
   and cancellations takes the leases over a global or per-root limit. *)
THEOREM CapacitySafety == Spec => []CapacityRespected
<1>1. IInv => CapacityRespected
  BY DEF IInv, CapacityRespected, AccountsMatchLeases, AccountsBounded
<1> QED
  BY <1>1, Invariance, PTL

(* The queue holds exactly the requests whose outcome is QUEUED, once each. *)
THEOREM QueueCoherence == Spec => []QueueMatchesOutcomes
<1>1. IInv => QueueMatchesOutcomes
  BY DEF IInv
<1> QED
  BY <1>1, Invariance, PTL

(* A caller of admit_wait that was refused never owns a live lease. *)
THEOREM NoLeaseLost == Spec => []NoLostLease
<1>1. IInv => NoLostLease
  BY DEF IInv, TypeOK, NoLostLease, AnswersSettled, QueueMatchesOutcomes
<1> QED
  BY <1>1, Invariance, PTL
-----------------------------------------------------------------------------
(* The order of the queue.                                                 *)

(* A grant passes a queued request only by the queue's own order. *)
InOrder(r, q) ==
  \/ WouldBlock(q)
  \/ \E i, j \in DOMAIN queue : queue[i] = r /\ queue[j] = q /\ i < j

(* The drain takes the first entry of its choice; entries of one root are
   chosen together, so that the first of a root goes first. *)
LEMMA DrainInOrder ==
  ASSUME IInv, DrainGrant, NEW r \in leases' \ leases, NEW q \in Enqueued \ leases',
         RootOf[r] = RootOf[q]
  PROVE  InOrder(r, q)
<1>1. PICK i \in DOMAIN queue : IsNext(i) /\ GrantLocked(queue[i])
  BY DEF DrainGrant
<1>2. r = queue[i]
  BY <1>1 DEF GrantLocked
<1>3. PICK j \in DOMAIN queue : q = queue[j]
  BY DEF Enqueued
<1> SUFFICES ASSUME ~WouldBlock(q) PROVE i < j
  BY <1>2, <1>3 DEF InOrder
<1>4. i \in Nat /\ j \in Nat
  BY DEF IInv, TypeOK
<1>5. i # j
  BY <1>1, <1>3 DEF GrantLocked
<1>6. j \in Grantable
  BY <1>3 DEF Grantable
<1>7. i \in OtherRoot => j \in OtherRoot
  BY <1>2, <1>3, <1>6 DEF OtherRoot
<1>8. i <= j
  BY <1>1, <1>6, <1>7 DEF IsNext
<1> QED
  BY <1>4, <1>5, <1>8

(* admit grants in enforce mode only when nothing is queued. *)
LEMMA AdmitInOrder ==
  ASSUME IInv, NEW s \in Requests, Admit(s), Mode = "enforce", leases' # leases
  PROVE  Enqueued = {}
<1>1. AdmitOutcome(s) = "granted"
  BY DEF Admit, poolVars
<1>2. queue = <<>>
  BY <1>1, AdmitDecision
<1> QED
  BY <1>2 DEF Enqueued

LEMMA OrderStep ==
  ASSUME IInv, [Next]_vars
  PROVE  \A r \in leases' \ leases, q \in Enqueued \ leases' :
           Mode = "enforce" /\ RootOf[r] = RootOf[q] => InOrder(r, q)
<1> SUFFICES ASSUME NEW r \in leases' \ leases, NEW q \in Enqueued \ leases',
                    Mode = "enforce", RootOf[r] = RootOf[q]
             PROVE  InOrder(r, q)
  OBVIOUS
<1>1. ASSUME NEW s \in Requests, AdmitOnly(s) \/ AdmitWait(s) PROVE InOrder(r, q)
  BY <1>1, AdmitInOrder DEF AdmitOnly, AdmitWait
<1>2. CASE DrainGrant
  BY <1>2, DrainInOrder
<1>3. ASSUME NEW s \in Requests,
             \/ Look(s) \/ Poll(s) \/ CancelRequest(s) \/ CancelToken(s) \/ Deadline(s)
             \/ \E used \in Usages : Release(s, used)
      PROVE  FALSE
  BY <1>3 DEF Look, Poll, CancelRequest, CancelToken, Deadline, Release, poolVars
<1>4. CASE DrainPurge \/ DrainPurged \/ DrainPublish \/ DrainStop
  BY <1>4 DEF DrainPurge, DrainPurged, DrainPublish, DrainStop, poolVars
<1>5. ASSUME NEW t \in Runs,
             \/ RemoveLimitForRun(t)
             \/ \E k \in Kinds, n \in RunLimits : SetLimitForRun(t, k, n)
      PROVE  FALSE
  BY <1>5 DEF RemoveLimitForRun, SetLimitForRun, poolVars
<1>6. CASE Shutdown \/ UNCHANGED vars
  BY <1>6 DEF Shutdown, vars, poolVars
<1> QED
  BY <1>1, <1>2, <1>3, <1>4, <1>5, <1>6 DEF Next, DrainStep

(* No request is passed by a later one of its own root, unless it is blocked
   and the later one is not: for any queue, whichever root the drain prefers. *)
THEOREM FirstOfRootFirst == Spec => OvertakesOnlyBlocked
<1>1. IInv /\ [Next]_vars =>
        [\A r \in leases' \ leases, q \in Enqueued \ leases' :
           (Mode = "enforce" /\ RootOf[r] = RootOf[q]) =>
             \/ WouldBlock(q)
             \/ \E i, j \in DOMAIN queue : queue[i] = r /\ queue[j] = q /\ i < j]_vars
  BY OrderStep DEF InOrder
<1> QED
  BY <1>1, Invariance, PTL DEF Spec, OvertakesOnlyBlocked

-----------------------------------------------------------------------------
(* The governor implements AdmissionPool.                                  *)

Status == [r \in Requests |-> StatusOf(r)]

LEMMA SameAmounts ==
  ASSUME NEW S
  PROVE  /\ \A k : Pool!Usage(S, k) = Usage(S, k)
         /\ \A t : Pool!OfRoot(S, t) = OfRoot(S, t)
<1>1. \A T : Pool!Cardinality(T) = Cardinality(T)
  BY DEF Pool!Cardinality, Cardinality
<1> QED
  BY <1>1 DEF Pool!Usage, Pool!Units, Usage, Units, Pool!OfRoot, OfRoot

(* What is granted and not returned is what is leased. *)
LEMMA LiveAreLeased ==
  ASSUME IInv
  PROVE  /\ Pool!Live = leases
         /\ \A r \in Requests : r \in Pool!Open <=> outcome[r] \in {"none", "queued"}
         /\ Enqueued \subseteq Pool!Open
<1>1. \A r \in Requests :
        /\ StatusOf(r) = "granted" <=> outcome[r] = "granted" /\ r \in leases
        /\ StatusOf(r) \in {"new", "queued"} <=> outcome[r] \in {"none", "queued"}
  BY DEF StatusOf
<1>2. /\ leases \subseteq Requests /\ \A r \in leases : outcome[r] = "granted"
      /\ \A r \in Enqueued : r \in Requests /\ outcome[r] = "queued"
  <2>1. Enqueued \subseteq Requests
    BY DEF Enqueued, IInv, TypeOK
  <2> QED
    BY <2>1 DEF IInv, TypeOK, QueueMatchesOutcomes
<1>3. Pool!Live = leases
  BY <1>1, <1>2 DEF Pool!Live
<1> QED
  BY <1>1, <1>2, <1>3 DEF Pool!Open

(* A request that is granted: the limits hold with it. *)
LEMMA PoolGrants ==
  ASSUME IInv, IInv', NEW r \in Requests, outcome[r] \in {"none", "queued"},
         leases' = leases \cup {r}, outcome'[r] = "granted",
         \A q \in Requests \ {r} : outcome'[q] = outcome[q]
  PROVE  Pool!Grant(r)
<1>1. Mode = "enforce" => Pool!Within(leases')
  <2> SUFFICES ASSUME Mode = "enforce", NEW k \in Kinds
               PROVE  /\ Limit[k] > 0 => Usage(leases', k) <= Limit[k]
                      /\ RootLimit[k] > 0 =>
                           \A t \in Roots : Usage(OfRoot(leases', t), k) <= RootLimit[k]
    BY SameAmounts DEF Pool!Within
  <2> QED
    BY DEF IInv, AccountsBounded, AccountsMatchLeases
<1>2. Status' = [Status EXCEPT ![r] = "granted"]
  BY DEF Status, StatusOf, IInv, QueueMatchesOutcomes
<1> QED
  BY <1>1, <1>2, LiveAreLeased DEF Pool!Grant, Status

(* A request that is answered without a lease. *)
LEMMA PoolRefuses ==
  ASSUME IInv, NEW r \in Requests, outcome[r] \in {"none", "queued"},
         outcome'[r] \in Outcomes \ {"granted", "queued"}, leases' = leases,
         \A q \in Requests \ {r} : outcome'[q] = outcome[q]
  PROVE  Pool!Refuse({r})
<1>1. Status' = [q \in Requests |-> IF q \in {r} THEN "refused" ELSE Status[q]]
  BY DEF Status, StatusOf, Outcomes
<1> QED
  BY <1>1 DEF Pool!Refuse, Status

LEMMA PoolAdmits ==
  ASSUME IInv, IInv', NEW r \in Requests, Admit(r)
  PROVE  Pool!Next
<1> DEFINE o == AdmitOutcome(r)
<1>1. /\ o \in Outcomes /\ outcome[r] = "none" /\ outcome'[r] = o
      /\ \A q \in Requests \ {r} : outcome'[q] = outcome[q]
      /\ IF o = "granted" THEN leases' = leases \cup {r} ELSE leases' = leases
  BY AdmitDecision DEF Admit, GrantLocked, poolVars, IInv, TypeOK, AnswersSettled
<1>2. CASE o = "granted"
  BY <1>1, <1>2, PoolGrants DEF Pool!Next
<1>3. CASE o = "queued"
  <2>1. Status[r] = "new" /\ Status' = [Status EXCEPT ![r] = "queued"]
    BY <1>1, <1>3 DEF Status, StatusOf
  <2> QED
    BY <2>1 DEF Pool!Next, Pool!Enqueue, Status
<1>4. CASE o \notin {"granted", "queued"}
  <2>1. Pool!Refuse({r}) /\ {r} \subseteq Pool!Open
    BY <1>1, <1>4, PoolRefuses, LiveAreLeased
  <2> QED
    BY <2>1 DEF Pool!Next
<1> QED
  BY <1>2, <1>3, <1>4

LEMMA PoolCancels ==
  ASSUME IInv, NEW r \in Enqueued, NEW o \in Outcomes \ {"queued", "granted"},
         CancelLocked(r, o), leases' = leases
  PROVE  Pool!Next
<1>1. /\ r \in Requests /\ outcome[r] = "queued" /\ outcome'[r] = o
      /\ \A q \in Requests \ {r} : outcome'[q] = outcome[q]
  BY CancelQueue
<1>2. Pool!Refuse({r}) /\ {r} \subseteq Pool!Open
  BY <1>1, PoolRefuses, LiveAreLeased
<1> QED
  BY <1>2 DEF Pool!Next

LEMMA PoolReturns ==
  ASSUME IInv, NEW r \in leases, leases' = leases \ {r}, outcome' = outcome
  PROVE  Pool!Next
<1>1. r \in Requests /\ outcome[r] = "granted"
  BY DEF IInv, TypeOK, QueueMatchesOutcomes
<1>2. Status[r] = "granted" /\ Status' = [Status EXCEPT ![r] = "released"]
  BY <1>1 DEF Status, StatusOf
<1> QED
  BY <1>1, <1>2 DEF Pool!Next, Pool!Return, Status

LEMMA PoolDrains ==
  ASSUME IInv, IInv', DrainGrant
  PROVE  Pool!Next
<1>1. PICK i \in DOMAIN queue : GrantLocked(queue[i]) /\ CancelLocked(queue[i], "granted")
  BY DEF DrainGrant
<1> DEFINE r == queue[i]
<1>2. r \in Enqueued
  BY DEF Enqueued
<1>3. /\ r \in Requests /\ outcome[r] = "queued" /\ outcome'[r] = "granted"
      /\ \A q \in Requests \ {r} : outcome'[q] = outcome[q]
  BY <1>1, <1>2, CancelQueue DEF Outcomes
<1>4. leases' = leases \cup {r}
  BY <1>1 DEF GrantLocked
<1> QED
  BY <1>3, <1>4, PoolGrants DEF Pool!Next

LEMMA PoolShutsDown ==
  ASSUME IInv, Shutdown
  PROVE  Pool!Next \/ Status' = Status
<1>1. /\ \A r \in Requests : outcome'[r] = IF r \in Enqueued THEN "shutdown" ELSE outcome[r]
      /\ leases' = leases
  BY DEF Shutdown, ShutdownOutcome, poolVars
<1>2. Enqueued \subseteq Pool!Open
  BY LiveAreLeased
<1>3. Status' = [r \in Requests |-> IF r \in Enqueued THEN "refused" ELSE Status[r]]
  BY <1>1 DEF Status, StatusOf
<1>4. CASE Enqueued = {}
  BY <1>3, <1>4 DEF Status
<1>5. CASE Enqueued # {}
  BY <1>2, <1>3, <1>5 DEF Pool!Next, Pool!Refuse, Status
<1> QED
  BY <1>4, <1>5

LEMMA PoolStep == IInv /\ IInv' /\ [Next]_vars => [Pool!Next]_Status
<1> SUFFICES ASSUME IInv, IInv', [Next]_vars PROVE Pool!Next \/ Status' = Status
  OBVIOUS
<1>1. ASSUME NEW r \in Requests, AdmitOnly(r) \/ AdmitWait(r) PROVE Pool!Next
  BY <1>1, PoolAdmits DEF AdmitOnly, AdmitWait
<1>2. CASE UNCHANGED <<outcome, leases>>
  BY <1>2 DEF Status, StatusOf
<1>3. ASSUME NEW r \in Requests, Look(r) \/ CancelToken(r) \/ Deadline(r)
      PROVE  UNCHANGED <<outcome, leases>>
  BY <1>3 DEF Look, CancelToken, Deadline, resultVars, poolVars
<1>4. ASSUME NEW r \in Requests, Poll(r) PROVE Pool!Next \/ Status' = Status
  <2>1. leases' = leases
    BY <1>4 DEF Poll, poolVars
  <2>2. CASE PollAnswered(r)
    BY <1>2, <2>1, <2>2 DEF PollAnswered, resultVars
  <2>3. CASE PollCancelled(r) \/ PollExpired(r)
    <3>1. /\ r \in Enqueued
          /\ CancelLocked(r, "cancelled") \/ CancelLocked(r, "capacity_timeout")
      BY <2>3 DEF PollCancelled, PollExpired, IInv, QueueMatchesOutcomes
    <3> QED
      BY <2>1, <3>1, PoolCancels DEF Outcomes
  <2> QED
    BY <1>4, <2>2, <2>3 DEF Poll, PollEnds
<1>5. ASSUME NEW r \in Requests, CancelRequest(r) PROVE Pool!Next
  BY <1>5, PoolCancels DEF CancelRequest, Outcomes, poolVars
<1>6. ASSUME NEW r \in Requests, NEW used \in Usages, Release(r, used) PROVE Pool!Next
  BY <1>6, PoolReturns DEF Release, resultVars
<1>7. CASE DrainPurge
  <2>1. PICK r \in Terminal :
          CancelLocked(r, IF r \in cancelled THEN "cancelled" ELSE "capacity_timeout")
    BY <1>7 DEF DrainPurge
  <2>2. r \in Enqueued /\ leases' = leases
    BY <1>7 DEF DrainPurge, Terminal, poolVars
  <2> QED
    BY <2>1, <2>2, PoolCancels DEF Outcomes
<1>8. CASE DrainGrant
  BY <1>8, PoolDrains
<1>9. CASE DrainPurged \/ DrainPublish \/ DrainStop \/ UNCHANGED vars
  BY <1>2, <1>9 DEF DrainPurged, DrainPublish, DrainStop, vars, resultVars, poolVars
<1>10. ASSUME NEW t \in Runs,
             \/ RemoveLimitForRun(t)
             \/ \E k \in Kinds, n \in RunLimits : SetLimitForRun(t, k, n)
      PROVE  UNCHANGED <<outcome, leases>>
  BY <1>10 DEF RemoveLimitForRun, SetLimitForRun, resultVars, poolVars
<1>11. CASE Shutdown
  BY <1>11, PoolShutsDown
<1> QED
  BY <1>1, <1>2, <1>3, <1>4, <1>5, <1>6, <1>7, <1>8, <1>9, <1>10, <1>11 DEF Next, DrainStep

LEMMA PoolInit == Init => Pool!Init
BY DEF Init, Pool!Init, StatusOf

(* For any requests, limits and modes, what queue, drains, timeouts,
   cancellations and shutdown make of the requests is a behaviour of
   AdmissionPool: granted at most once or refused, for good, and within the
   limits. *)
THEOREM GovernorImplementsPool == Spec => ImplementsPool
<1>1. Spec => [][Pool!Next]_Status
  BY PoolStep, Invariance, PTL DEF Spec
<1>2. Spec => Pool!Init
  BY PoolInit DEF Spec
<1> QED
  BY <1>1, <1>2, PTL DEF ImplementsPool, Pool!Spec, Status
=============================================================================
