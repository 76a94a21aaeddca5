-------------------------- MODULE ProcurementProofs --------------------------
(***************************************************************************)
(* Theorems about Procurement, for any lines, quantities, deliveries and   *)
(* requirements and any number of requests.                                *)
(***************************************************************************)
EXTENDS Procurement, FiniteSetTheorems, SequenceTheorems, WellFoundedInduction, TLAPS

(***************************************************************************)
(* What a request in progress holds.                                       *)
(***************************************************************************)
Marks == [item : Items, n : Nat]
Args == DOMAIN Allowed \cup ReqStatuses \cup {"again"}
Loops == {"cost", "costCreate", "orderLine", "orderWrite", "receiptLine", "receiptWrite"}

Typed(p) ==
  /\ sess[p].pc \in Pcs
  /\ sess[p].arg \in Args
  /\ sess[p].pc \in {"createItems", "editItems", "reprice"} => sess[p].todo \in ItemLists
  /\ sess[p].pc \in Loops => sess[p].todo \in Seq(Items) \ {<<>>}
  /\ sess[p].pc = "uncost" => sess[p].todo \in Seq(Marks) \ {<<>>}
  /\ sess[p].pc = "receive" => sess[p].todo \in Deliveries
  /\ sess[p].pc = "allocate" => \E r \in Requirements : sess[p].todo = <<r>>
  /\ sess[p].pc \in {"orderWrite", "receiptWrite"} =>
       sess[p].arg \in ReqStatuses /\ This(p) \in DOMAIN ReqOf
  /\ sess[p].pc = "deriveWrite" => sess[p].arg \in DOMAIN Allowed

TypeInv ==
  /\ TypeOK /\ IsFiniteSet(costs)
  /\ DOMAIN sess = Procs /\ sess = [p \in Procs |-> sess[p]]
  /\ \A p \in Procs : Typed(p)

(* An order received, or about to be marked so, was delivered; and one of  *)
(* its lines refuses to be replaced.                                       *)
Delivered ==
  /\ SumOver(received, items) >= SumOver(Quantity, items)
  /\ \E i \in ToSet(items) : received[i] > 0

Earned ==
  /\ po.status = "received" => Delivered
  /\ \A p \in Procs : At(p, "deriveWrite") /\ sess[p].arg = "received" => Delivered

AnyInv == TypeInv /\ ActualIsReceived /\ Earned

(***************************************************************************)
(* The order when requests do not overlap, seen by the only request that   *)
(* may be in progress.                                                     *)
(***************************************************************************)
Solo(p) == \A q \in Procs \ {p} : At(q, "idle")

Freed == {"received", "allocated", "consumed", "cancelled"}
Open == {"none", "draft", "cancelled"}
Charging == {"costList", "cost", "costCreate"}

Single(i) == \E e \in costs : Entries(i) = {e}
Full(i) == Quantity[i] > 0 /\ received[i] >= Quantity[i]

AllCharged == \A i \in ToSet(items) : Single(i)
NoneTwice == \A i \in ToSet(items) : Entries(i) = {} \/ Single(i)

\* What two of the properties suppose of the users: a delivery names a line
\* once, and a requirement is not set back by hand.
OneLineEach == \A d \in Deliveries : \A j, k \in DOMAIN d : d[j].item = d[k].item => j = k
UsersFree == UserStatuses \subseteq Freed

Started == po.status = "none" => items = <<>>

Priced(p) ==
  po.status # "none" /\ sess[p].pc \notin {"createItems", "reprice"} => po.priced = items

Stamped(p) ==
  po.status \notin Open /\ sess[p].pc \notin Charging \cup {"stamp"} => po.stamped

Uncharged(p) ==
  po.status \in Open /\ sess[p].pc \notin {"uncostList", "uncost"} => costs = {}

Charged(p) ==
  po.status \notin Open /\ sess[p].pc \notin Charging => AllCharged

Counted ==
  po.status \in {"partially_received", "received"} =>
    SumOver(Quantity, items) > 0 /\ SumOver(received, items) > 0

Within == OneLineEach => \A i \in Items : received[i] <= Quantity[i]

Unblocked(p) == UsersFree =>
  \A i \in DOMAIN ReqOf :
    \/ ~ Full(i)
    \/ req[ReqOf[i]] \in Freed
    \/ sess[p].pc \in {"receiptLine", "receiptWrite"} /\ i \in ToSet(sess[p].todo)

\* What a request may rely on at the next step of its own.
Held(p) ==
  /\ sess[p].pc \in {"createItems", "editItems", "reprice", "fields", "approve"} =>
       po.status = "draft"
  /\ sess[p].pc = "createItems" => items = <<>> /\ po.priced = sess[p].todo
  /\ sess[p].pc = "reprice" => items = sess[p].todo
  /\ sess[p].pc \in Charging \cup {"stamp", "order"} => po.status = "approved"
  /\ sess[p].pc \in Charging \cup {"stamp"} /\ sess[p].arg = "again" => po.stamped
  /\ sess[p].pc \in Charging => NoneTwice
  /\ sess[p].pc \in {"cost", "costCreate"} =>
       /\ ToSet(sess[p].todo) \subseteq ToSet(items)
       /\ \A i \in ToSet(items) : Entries(i) # {} \/ i \in ToSet(sess[p].todo)
  /\ sess[p].pc = "costCreate" => Entries(This(p)) = {}
  /\ sess[p].pc \in {"orderWrite", "receiptWrite"} =>
       /\ req[ReqOf[This(p)]] \notin Freed
       /\ ~ Regress(req[ReqOf[This(p)]], sess[p].arg)
  /\ sess[p].pc = "receiptWrite" /\ Full(This(p)) => sess[p].arg \in Freed
  /\ sess[p].pc = "cancel" => "cancelled" \in Allowed[po.status]
  /\ sess[p].pc \in {"uncostList", "uncost"} => po.status = "cancelled"
  /\ sess[p].pc = "uncost" =>
       \A e \in costs : [item |-> e.item, n |-> e.n] \in ToSet(sess[p].todo)
  /\ sess[p].pc = "receive" => \A k \in DOMAIN sess[p].todo : Fits(sess[p].todo[k])
  /\ sess[p].pc = "deriveWrite" => sess[p].arg = Derived /\ Derived # po.status
  /\ sess[p].pc = "allocate" => req[This(p)] \notin {"allocated", "consumed", "cancelled"}

Sound(p) ==
  /\ Started /\ Priced(p) /\ Stamped(p) /\ Uncharged(p) /\ Charged(p)
  /\ Counted /\ Within /\ Unblocked(p) /\ Held(p)

CalmInv == calm => \E p \in Procs : Solo(p) /\ Sound(p)

(***************************************************************************)
(* Sums                                                                    *)
(***************************************************************************)

LEMMA LeastOf ==
  ASSUME NEW T, T \subseteq Nat, T # {}
  PROVE  \E n \in T : \A k \in T : n <= k
<1>1. \E n \in T : \A k \in T : ~ (<<k, n>> \in OpToRel(<, Nat))
  BY WFMin, NatLessThanWellFounded
<1>2. \A a, b \in Nat : a < b => <<a, b>> \in {ss \in Nat \X Nat : ss[1] < ss[2]}
  BY SMT
<1>3. {ss \in Nat \X Nat : ss[1] < ss[2]} = OpToRel(<, Nat)
  BY Zenon DEF OpToRel
<1>4. \A a, b \in Nat : a < b => <<a, b>> \in OpToRel(<, Nat)
  BY <1>2, <1>3, Zenon
<1>5. PICK n \in T : \A k \in T : ~ (<<k, n>> \in OpToRel(<, Nat))
  BY <1>1, Zenon
<1>6. \A k \in T : ~ (k < n)
  BY <1>4, <1>5, Zenon
<1> QED
  BY <1>6, SMT


(* The sums of the beginnings of a sequence of numbers.                    *)
Sums(w, sum) ==
  /\ sum \in [0 .. Len(w) -> Nat] /\ sum[0] = 0
  /\ \A k \in 1 .. Len(w) : sum[k] = sum[k - 1] + w[k]

(* Induction is by the least counterexample: the provers cannot apply a    *)
(* theorem that takes the formula to be proved as its parameter.           *)
LEMMA SumsExist ==
  ASSUME NEW w \in Seq(Nat)
  PROVE  \E sum : Sums(w, sum)
<1> DEFINE Upto(n, s) == /\ s \in [0 .. n -> Nat] /\ s[0] = 0
                         /\ \A k \in 1 .. n : s[k] = s[k - 1] + w[k]
           Bad == {n \in 0 .. Len(w) : ~ \E s : Upto(n, s)}
<1>0. Len(w) \in Nat /\ \A k \in 1 .. Len(w) : w[k] \in Nat
  OBVIOUS
<1>1. SUFFICES Bad = {}
  <2>1. Len(w) \in 0 .. Len(w)
    BY <1>0
  <2> QED BY <1>1, <2>1 DEF Sums
<1>2. SUFFICES ASSUME Bad # {} PROVE FALSE
  OBVIOUS
<1>3. PICK n \in Bad : \A k \in Bad : n <= k
  <2>1. Bad \subseteq Nat
    BY <1>0
  <2> HIDE DEF Bad
  <2> QED BY <1>2, <2>1, LeastOf
<1>4. n \in 0 .. Len(w) /\ n \in Nat
  BY <1>0
<1>5. n # 0
  <2>1. Upto(0, [k \in 0 .. 0 |-> 0])
    OBVIOUS
  <2> QED BY <1>3, <2>1
<1>6. n - 1 \in 0 .. Len(w) /\ ~ (n - 1 \in Bad) /\ n \in 1 .. Len(w)
  <2>1. n - 1 \in 0 .. Len(w) /\ ~ (n <= n - 1) /\ n \in 1 .. Len(w)
    BY <1>0, <1>4, <1>5
  <2> HIDE DEF Bad
  <2> QED BY <1>3, <2>1
<1>7. PICK s : Upto(n - 1, s)
  BY <1>6
<1> DEFINE t == [k \in 0 .. n |-> IF k = n THEN s[n - 1] + w[n] ELSE s[k]]
<1>8. Upto(n, t)
  BY SMTT(30), <1>0, <1>4, <1>5, <1>6, <1>7
<1> QED
  BY <1>3, <1>8

LEMMA TotalSums ==
  ASSUME NEW w \in Seq(Nat)
  PROVE  \E sum : Sums(w, sum) /\ Total(w) = sum[Len(w)]
<1> DEFINE Step(s) == [k \in 0 .. Len(w) |-> IF k = 0 THEN 0 ELSE s[k - 1] + w[k]]
           fix == CHOOSE s : s = Step(s)
<1>1. PICK sum : Sums(w, sum)
  BY SumsExist
<1>2. sum = Step(sum)
  BY <1>1 DEF Sums
<1>3. fix = Step(fix)
  BY <1>2, Zenon
<1>4. Total(w) = fix[Len(w)]
  BY Zenon DEF Total
<1> HIDE DEF fix
<1>5. \A k \in 0 .. Len(w) : fix[k] = sum[k]
  <2> DEFINE Bad == {k \in 0 .. Len(w) : fix[k] # sum[k]}
  <2>1. SUFFICES ASSUME Bad # {} PROVE FALSE
    OBVIOUS
  <2>2. Bad \subseteq Nat
    OBVIOUS
  <2>3. PICK n \in Bad : \A k \in Bad : n <= k
    <3> HIDE DEF Bad
    <3> QED BY <2>1, <2>2, LeastOf
  <2>4. n \in 0 .. Len(w) /\ Len(w) \in Nat
    OBVIOUS
  <2>5. fix[0] = 0 /\ \A k \in 1 .. Len(w) : fix[k] = fix[k - 1] + w[k]
    <3>1. Step(fix)[0] = 0 /\ \A k \in 1 .. Len(w) : Step(fix)[k] = fix[k - 1] + w[k]
      BY <2>4
    <3> HIDE DEF Step
    <3> QED BY <1>3, <3>1
  <2>6. n # 0
    BY <1>1, <2>5 DEF Sums
  <2>7. fix[n - 1] = sum[n - 1]
    <3>1. n - 1 \in 0 .. Len(w) /\ ~ (n <= n - 1)
      BY <2>4, <2>6
    <3> QED BY <2>3, <3>1
  <2>8. fix[n] = sum[n]
    BY <1>1, <2>4, <2>5, <2>6, <2>7 DEF Sums
  <2> QED BY <2>3, <2>8
<1>6. Len(w) \in 0 .. Len(w)
  OBVIOUS
<1> QED
  BY <1>1, <1>4, <1>5, <1>6


(* Induction along the numbers up to n, for a set of them.                 *)
LEMMA AllUpTo ==
  ASSUME NEW n \in Nat, NEW S, 0 \in S, \A k \in 1 .. n : k - 1 \in S => k \in S
  PROVE  \A k \in 0 .. n : k \in S
<1> DEFINE Bad == {k \in 0 .. n : k \notin S}
<1>1. SUFFICES ASSUME Bad # {} PROVE FALSE
  OBVIOUS
<1>2. Bad \subseteq Nat
  OBVIOUS
<1>3. PICK m \in Bad : \A k \in Bad : m <= k
  <2> HIDE DEF Bad
  <2> QED BY <1>1, <1>2, LeastOf
<1>4. m \in 1 .. n /\ ~ (m <= m - 1) /\ m - 1 \in 0 .. n
  BY <1>3
<1>5. m - 1 \in S
  BY <1>3, <1>4
<1> QED
  BY <1>3, <1>4, <1>5

LEMMA TotalIsNat ==
  ASSUME NEW w \in Seq(Nat)
  PROVE  Total(w) \in Nat
<1>1. PICK sum : Sums(w, sum) /\ Total(w) = sum[Len(w)]
  BY TotalSums
<1>2. Len(w) \in 0 .. Len(w)
  OBVIOUS
<1> QED
  BY <1>1, <1>2 DEF Sums

(* Two sums of two numbers are equal only if the numbers are, where neither *)
(* number of the first exceeds its counterpart in the second.              *)
LEMMA NoneExceeds ==
  ASSUME NEW x \in Nat, NEW y \in Nat, NEW s \in Nat, NEW t \in Nat,
         x <= y, s <= t, x + s = y + t
  PROVE  x = y /\ s = t
  OBVIOUS

(* A sum is no more than another whose numbers are no less, and if it is   *)
(* as much their numbers are the same.                                     *)
LEMMA TotalGrows ==
  ASSUME NEW v \in Seq(Nat), NEW w \in Seq(Nat), Len(v) = Len(w),
         \A k \in 1 .. Len(v) : v[k] <= w[k]
  PROVE  /\ Total(v) <= Total(w)
         /\ Total(v) >= Total(w) => \A k \in 1 .. Len(v) : v[k] = w[k]
<1> DEFINE n == Len(v)
<1>0. /\ n \in Nat /\ n \in 0 .. n
      /\ \A k \in 1 .. n : v[k] \in Nat /\ w[k] \in Nat /\ k - 1 \in 0 .. n /\ k \in 0 .. n
  OBVIOUS
<1>1. PICK a : Sums(v, a) /\ Total(v) = a[n]
  BY TotalSums
<1>2. PICK b : Sums(w, b) /\ Total(w) = b[n]
  BY TotalSums
<1>3. /\ a[0] = 0 /\ b[0] = 0
      /\ \A k \in 0 .. n : a[k] \in Nat /\ b[k] \in Nat
      /\ \A k \in 1 .. n : a[k] = a[k - 1] + v[k] /\ b[k] = b[k - 1] + w[k]
  BY <1>1, <1>2 DEF Sums
<1> DEFINE Apart == {k \in 0 .. n : a[k] <= b[k] /\ (a[k] = b[k] => \A j \in 1 .. k : v[j] = w[j])}
<1> HIDE DEF n
<1>4. \A k \in 0 .. n : k \in Apart
  <2>1. 0 \in Apart
    BY <1>0, <1>3
  <2>2. ASSUME NEW k \in 1 .. n, k - 1 \in Apart
        PROVE  k \in Apart
    <3>1. /\ a[k - 1] <= b[k - 1] /\ a[k - 1] \in Nat /\ b[k - 1] \in Nat
          /\ a[k] = a[k - 1] + v[k] /\ b[k] = b[k - 1] + w[k] /\ v[k] <= w[k]
          /\ v[k] \in Nat /\ w[k] \in Nat /\ k \in 0 .. n
      BY <1>0, <1>3, <2>2 DEF n
    <3>2. a[k] <= b[k]
      BY <3>1
    <3>3. ASSUME a[k] = b[k], NEW j \in 1 .. k
          PROVE  v[j] = w[j]
      <4>1. a[k - 1] = b[k - 1] /\ v[k] = w[k]
        <5>1. a[k - 1] + v[k] = b[k - 1] + w[k]
          BY <3>1, <3>3
        <5>2. w[k] \in Nat
          BY <1>0, <2>2
        <5> QED BY <3>1, <5>1, <5>2, NoneExceeds
      <4>2. CASE j = k
        BY <4>1, <4>2
      <4>3. CASE j # k
        <5>1. j \in 1 .. k - 1
          BY <4>3
        <5> QED BY <2>2, <4>1, <5>1
      <4> QED BY <4>2, <4>3
    <3> QED BY <3>1, <3>2, <3>3
  <2> HIDE DEF Apart
  <2> QED BY <1>0, <2>1, <2>2, AllUpTo
<1>5. a[n] <= b[n] /\ (a[n] = b[n] => \A j \in 1 .. n : v[j] = w[j])
  BY <1>0, <1>4
<1>6. a[n] \in Nat /\ b[n] \in Nat
  BY <1>0, <1>3
<1>7. Total(v) <= Total(w) /\ (Total(v) >= Total(w) => \A j \in 1 .. n : v[j] = w[j])
  <2> HIDE DEF Apart
  <2>1. Total(v) = a[n] /\ Total(w) = b[n]
    BY <1>1, <1>2
  <2>2. a[n] >= b[n] => a[n] = b[n]
    BY <1>5, <1>6
  <2> QED BY <1>5, <2>1, <2>2
<1> QED
  BY <1>7 DEF n

(* A sum of which all numbers but one are nothing is that one.             *)
LEMMA TotalOfOne ==
  ASSUME NEW w \in Seq(Nat), NEW m \in Nat, NEW j,
         \A k \in 1 .. Len(w) : (k = j => w[k] <= m) /\ (k # j => w[k] = 0)
  PROVE  Total(w) <= m
<1> DEFINE n == Len(w)
<1>0. n \in Nat /\ n \in 0 .. n /\ \A k \in 1 .. n : w[k] \in Nat /\ k - 1 \in 0 .. n /\ k \in 0 .. n
  OBVIOUS
<1>1. PICK a : Sums(w, a) /\ Total(w) = a[n]
  BY TotalSums
<1>2. /\ a[0] = 0 /\ \A k \in 0 .. n : a[k] \in Nat
      /\ \A k \in 1 .. n : a[k] = a[k - 1] + w[k]
  BY <1>1 DEF Sums
<1> DEFINE Small == {k \in 0 .. n : a[k] <= m /\ (j \notin 1 .. k => a[k] = 0)}
<1> HIDE DEF n
<1>3. \A k \in 0 .. n : k \in Small
  <2>1. 0 \in Small
    BY <1>0, <1>2
  <2>2. ASSUME NEW k \in 1 .. n, k - 1 \in Small
        PROVE  k \in Small
    <3>1. /\ a[k - 1] <= m /\ a[k - 1] \in Nat /\ a[k] = a[k - 1] + w[k] /\ w[k] \in Nat /\ k \in 0 .. n
          /\ (j \notin 1 .. k - 1 => a[k - 1] = 0)
          /\ (k = j => w[k] <= m) /\ (k # j => w[k] = 0)
      BY <1>0, <1>2, <2>2 DEF n
    <3>2. CASE k = j
      BY <3>1, <3>2
    <3>3. CASE k # j
      <4>1. (j \notin 1 .. k) <=> (j \notin 1 .. k - 1)
        BY <3>3
      <4> QED BY <3>1, <3>3, <4>1
    <3> QED BY <3>2, <3>3
  <2> HIDE DEF Small
  <2> QED BY <1>0, <2>1, <2>2, AllUpTo
<1> QED
  BY <1>0, <1>1, <1>3

(* A sum that is something has a number that is.                           *)
LEMMA TotalOfNone ==
  ASSUME NEW w \in Seq(Nat), Total(w) # 0
  PROVE  \E k \in 1 .. Len(w) : w[k] > 0
<1> SUFFICES ASSUME \A k \in 1 .. Len(w) : ~ (w[k] > 0) PROVE FALSE
  OBVIOUS
<1>1. \A k \in 1 .. Len(w) : w[k] = 0
  OBVIOUS
<1>2. Total(w) <= 0
  BY <1>1, TotalOfOne
<1> QED
  BY <1>2, TotalIsNat

(* The lists the requests walk.                                            *)
LEMMA Walks ==
  ASSUME NEW S, NEW w \in Seq(S), w # <<>>
  PROVE  /\ Head(w) \in S /\ Head(w) \in ToSet(w)
         /\ Tail(w) \in Seq(S)
         /\ ToSet(w) = {Head(w)} \cup ToSet(Tail(w))
<1>1. /\ Len(w) \in Nat /\ Len(w) >= 1 /\ DOMAIN w = 1 .. Len(w)
      /\ Head(w) = w[1] /\ w[1] \in S /\ Tail(w) \in Seq(S)
      /\ Len(Tail(w)) = Len(w) - 1 /\ DOMAIN Tail(w) = 1 .. Len(w) - 1
      /\ \A k \in 1 .. Len(w) - 1 : Tail(w)[k] = w[k + 1]
  OBVIOUS
<1>2. \A k \in DOMAIN w : k = 1 \/ (k - 1 \in DOMAIN Tail(w) /\ w[k] = Tail(w)[k - 1])
  BY <1>1
<1>3. \A k \in DOMAIN Tail(w) : k + 1 \in DOMAIN w /\ w[k + 1] = Tail(w)[k]
  BY <1>1
<1>4. 1 \in DOMAIN w
  BY <1>1
<1> HIDE DEF ToSet
<1>5. ToSet(w) = {Head(w)} \cup ToSet(Tail(w))
  <2>1. ASSUME NEW e \in ToSet(w) PROVE e \in {Head(w)} \cup ToSet(Tail(w))
    <3>1. PICK k \in DOMAIN w : e = w[k]
      BY <2>1 DEF ToSet
    <3> QED BY <1>1, <1>2, <3>1 DEF ToSet
  <2>2. ASSUME NEW e \in ToSet(Tail(w)) PROVE e \in ToSet(w)
    <3>1. PICK k \in DOMAIN Tail(w) : e = Tail(w)[k]
      BY <2>2 DEF ToSet
    <3> QED BY <1>3, <3>1 DEF ToSet
  <2>3. Head(w) \in ToSet(w)
    BY <1>1, <1>4 DEF ToSet
  <2> QED BY <2>1, <2>2, <2>3
<1> QED
  BY <1>1, <1>5

LEMMA EmptyList ==
  /\ ToSet(<<>>) = {} /\ \A S : <<>> \in Seq(S)
  /\ Total(<<>>) = 0
<1>1. ToSet(<<>>) = {} /\ \A S : <<>> \in Seq(S)
  BY DEF ToSet
<1>2. PICK w \in Seq(Nat) : w = <<>>
  BY <1>1
<1>3. Total(w) \in Nat /\ Len(w) = 0
  BY <1>2, TotalIsNat
<1>4. ~ (Total(w) # 0)
  <2>1. ASSUME Total(w) # 0 PROVE FALSE
    <3>1. \E k \in 1 .. Len(w) : w[k] > 0
      BY <2>1, TotalOfNone
    <3> QED BY <1>3, <3>1
  <2> QED BY <2>1
<1> QED
  BY <1>1, <1>2, <1>4

LEMMA ListedSet ==
  ASSUME NEW S, IsFiniteSet(S)
  PROVE  SetToSeq(S) \in Seq(S) /\ ToSet(SetToSeq(S)) = S
<1> DEFINE n == Cardinality(S)
           g == SetToSeq(S)
<1>1. n \in Nat /\ ExistsBijection(1 .. n, S)
  BY FS_CardinalityType
<1>2. PICK b : b \in Bijection(1 .. n, S)
  BY <1>1 DEF ExistsBijection
<1>3. b \in [1 .. n -> S] /\ IsInjective(b)
  BY <1>2 DEF Bijection, Injection
<1>4. g \in [1 .. n -> S] /\ IsInjective(g)
  BY <1>3, Zenon DEF SetToSeq
<1> HIDE DEF g
<1>5. g \in Injection(1 .. n, S)
  BY <1>4 DEF Injection
<1>6. Cardinality(1 .. n) = n
  BY <1>1, FS_Interval
<1>7. g \in Surjection(1 .. n, S)
  BY <1>5, <1>6, FS_Injection, Zenon
<1>8. g \in Seq(S)
  BY <1>1, <1>4
<1>9. ToSet(g) = S
  BY <1>4, <1>7 DEF ToSet, Surjection
<1> QED
  BY <1>8, <1>9 DEF g

(***************************************************************************)
(* Statuses                                                                *)
(***************************************************************************)

LEMMA RankOf ==
  /\ Rank("planned") = 1 /\ Rank("required") = 2 /\ Rank("ordered") = 3
  /\ Rank("partially_received") = 4 /\ Rank("received") = 5
  /\ Rank("allocated") = 6 /\ Rank("consumed") = 7
<1>1. /\ Len(ForwardOrder) = 7
      /\ ForwardOrder[1] = "planned" /\ ForwardOrder[2] = "required" /\ ForwardOrder[3] = "ordered"
      /\ ForwardOrder[4] = "partially_received" /\ ForwardOrder[5] = "received"
      /\ ForwardOrder[6] = "allocated" /\ ForwardOrder[7] = "consumed"
  BY DEF ForwardOrder
<1> DEFINE Is(k, s) == k \in 1 .. 7 /\ ForwardOrder[k] = s
<1>2. \A k \in 1 .. 7 : k \in {1, 2, 3, 4, 5, 6, 7}
  OBVIOUS
<1>3. \A k : /\ k \in 1 .. 7 /\ ForwardOrder[k] = "planned" <=> k = 1
             /\ k \in 1 .. 7 /\ ForwardOrder[k] = "required" <=> k = 2
             /\ k \in 1 .. 7 /\ ForwardOrder[k] = "ordered" <=> k = 3
             /\ k \in 1 .. 7 /\ ForwardOrder[k] = "partially_received" <=> k = 4
             /\ k \in 1 .. 7 /\ ForwardOrder[k] = "received" <=> k = 5
             /\ k \in 1 .. 7 /\ ForwardOrder[k] = "allocated" <=> k = 6
             /\ k \in 1 .. 7 /\ ForwardOrder[k] = "consumed" <=> k = 7
  BY <1>1, <1>2
<1>4. \A s : Rank(s) = CHOOSE k \in 1 .. 7 : ForwardOrder[k] = s
  BY <1>1 DEF Rank
<1> QED
  BY <1>3, <1>4, SMT

LEMMA StatusesAre ==
  ReqStatuses = {"planned", "required", "ordered", "partially_received", "received",
                 "allocated", "consumed", "cancelled"}
<1>1. /\ Len(ForwardOrder) = 7 /\ DOMAIN ForwardOrder = 1 .. 7
      /\ ForwardOrder[1] = "planned" /\ ForwardOrder[2] = "required" /\ ForwardOrder[3] = "ordered"
      /\ ForwardOrder[4] = "partially_received" /\ ForwardOrder[5] = "received"
      /\ ForwardOrder[6] = "allocated" /\ ForwardOrder[7] = "consumed"
  BY DEF ForwardOrder
<1>2. 1 .. 7 = {1, 2, 3, 4, 5, 6, 7}
  OBVIOUS
<1>3. ToSet(ForwardOrder) = {"planned", "required", "ordered", "partially_received", "received",
                             "allocated", "consumed"}
  BY <1>1, <1>2 DEF ToSet
<1> QED
  BY <1>3 DEF ReqStatuses

\* Procurement moves a requirement to the status of the line, and only forward.
LEMMA NextMoves ==
  ASSUME NEW current \in ReqStatuses, NEW itemStatus \in Receiving
  PROVE  LET next == NextRequirementStatus(current, itemStatus)
         IN  /\ next \in ReqStatuses
             /\ next # current => next = itemStatus /\ current \notin Freed /\ ~ Regress(current, next)
             /\ itemStatus = "received" => next \in Freed
<1>1. current \in {"planned", "required", "ordered", "partially_received", "received",
                   "allocated", "consumed", "cancelled"}
  BY StatusesAre
<1>2. itemStatus \in {"ordered", "partially_received", "received"}
  BY DEF Receiving
<1> QED
  BY <1>1, <1>2, RankOf, StatusesAre DEF NextRequirementStatus, Receiving, Freed, Regress

(***************************************************************************)
(* Requests                                                                *)
(***************************************************************************)

Shape == DOMAIN sess = Procs /\ sess = [p \in Procs |-> sess[p]]

\* The other requests are where they were.
Others(p) ==
  /\ Shape' /\ DOMAIN sess'[p] = {"pc", "todo", "arg"}
  /\ \A q \in Procs \ {p} : sess'[q] = sess[q]

LEMMA GoStep ==
  ASSUME Shape, NEW p \in Procs, NEW pc, NEW todo, NEW arg, Go(p, pc, todo, arg)
  PROVE  /\ Others(p)
         /\ sess'[p].pc = pc /\ sess'[p].todo = todo /\ sess'[p].arg = arg
<1>1. sess' = [sess EXCEPT ![p] = [pc |-> pc, todo |-> todo, arg |-> arg]]
  BY DEF Go
<1>2. DOMAIN sess' = Procs /\ sess' = [q \in Procs |-> sess'[q]]
  BY <1>1 DEF Shape
<1>3. sess'[p] = [pc |-> pc, todo |-> todo, arg |-> arg]
  BY <1>1 DEF Shape
<1> QED
  BY <1>1, <1>2, <1>3 DEF Shape, Others

LEMMA DoneStep ==
  ASSUME Shape, NEW p \in Procs, Done(p)
  PROVE  /\ Others(p)
         /\ sess'[p].pc = "idle" /\ sess'[p].todo = <<>> /\ sess'[p].arg = "none"
<1>1. Go(p, "idle", <<>>, "none")
  BY DEF Done, Go, Idle
<1> QED
  BY <1>1, GoStep

LEMMA ContinueStep ==
  ASSUME Shape, NEW p \in Procs, NEW pc, NEW rest, NEW after, Continue(p, pc, rest, after)
  PROVE  /\ Others(p)
         /\ sess'[p].pc = (IF rest = <<>> THEN after ELSE pc)
         /\ sess'[p].todo = rest
         /\ \/ sess'[p].arg = sess[p].arg
            \/ sess'[p].pc = "idle" /\ sess'[p].arg = "none"
<1>1. CASE rest = <<>> /\ after = "idle"
  BY <1>1, DoneStep DEF Continue
<1>2. CASE ~ (rest = <<>> /\ after = "idle")
  <2>1. Go(p, IF rest = <<>> THEN after ELSE pc, rest, sess[p].arg)
    BY <1>2 DEF Continue
  <2> QED BY <2>1, GoStep
<1> QED
  BY <1>1, <1>2

\* What a request holds does not depend on the steps of others.
LEMMA OthersTyped ==
  ASSUME TypeInv, NEW p \in Procs, Others(p), Typed(p)'
  PROVE  /\ DOMAIN sess' = Procs /\ sess' = [q \in Procs |-> sess'[q]]
         /\ \A q \in Procs : Typed(q)' /\ DOMAIN sess'[q] = {"pc", "todo", "arg"}
<1>1. \A q \in Procs \ {p} : Typed(q)'
  <2>1. ASSUME NEW q \in Procs, q # p, sess'[q] = sess[q], Typed(q)
        PROVE  Typed(q)'
    BY <2>1 DEF Typed, This
  <2> QED BY <2>1 DEF TypeInv, Others
<1>2. \A q \in Procs \ {p} : DOMAIN sess'[q] = {"pc", "todo", "arg"}
  BY DEF TypeInv, TypeOK, Others
<1> QED
  BY <1>1, <1>2 DEF Others, Shape

(***************************************************************************)
(* Types                                                                   *)
(***************************************************************************)

DataOK ==
  /\ po \in [status : DOMAIN Allowed, priced : ItemLists \cup {<<>>},
            stamped : BOOLEAN, taxed : BOOLEAN]
  /\ items \in ItemLists \cup {<<>>}
  /\ costs \subseteq [item : Items, n : 1..MaxEntries, state : {"committed", "actual"}]
  /\ IsFiniteSet(costs)
  /\ made \in [Items -> 0..MaxEntries]
  /\ received \in [Items -> Nat]
  /\ req \in [Requirements -> ReqStatuses]
  /\ calm \in BOOLEAN

LEMMA OthersKeepTypes ==
  ASSUME TypeInv, NEW p \in Procs, Others(p), Typed(p)', DataOK'
  PROVE  TypeInv'
<1>1. /\ DOMAIN sess' = Procs /\ sess' = [q \in Procs |-> sess'[q]]
      /\ \A q \in Procs : Typed(q)' /\ DOMAIN sess'[q] = {"pc", "todo", "arg"}
  BY OthersTyped, Zenon
<1>2. TypeOK' /\ IsFiniteSet(costs)'
  <2>1. \A q \in Procs : /\ DOMAIN sess'[q] = {"pc", "todo", "arg"}
                         /\ sess'[q].pc \in Pcs
                         /\ sess'[q].arg \in DOMAIN Allowed \cup ReqStatuses \cup {"again"}
    BY <1>1, Zenon DEF Typed, Args
  <2> QED BY <2>1, Zenon DEF TypeOK, DataOK
<1> QED
  BY <1>1, <1>2, Zenon DEF TypeInv

LEMMA TypesKnown ==
  ASSUME TypeInv
  PROVE  /\ DataOK /\ Shape
         /\ items \in Seq(Items) /\ ToSet(items) \subseteq Items
         /\ ItemLists \subseteq Seq(Items)
         /\ DOMAIN Allowed = {"none", "draft", "approved", "ordered", "partially_received",
                              "received", "cancelled"}
<1>1. ItemLists \subseteq Seq(Items)
  BY ProcurementAssumption
<1>2. items \in Seq(Items)
  BY <1>1, EmptyList DEF TypeInv, TypeOK
<1>3. ToSet(items) \subseteq Items
  BY <1>2 DEF ToSet
<1>4. DOMAIN Allowed = {"none", "draft", "approved", "ordered", "partially_received",
                        "received", "cancelled"}
  BY DEF Allowed
<1>5. DataOK /\ Shape
  BY DEF TypeInv, TypeOK, DataOK, Shape
<1> QED
  BY <1>1, <1>2, <1>3, <1>4, <1>5

Reads(p) ==
  \/ \E list \in ItemLists : EditRead(p, list)
  \/ FieldsRead(p)
  \/ ApproveRead(p) \/ CostList(p) \/ CostCheck(p) \/ OrderRead(p) \/ OrderList(p) \/ OrderLine(p)
  \/ CancelRead(p) \/ CancelList(p) \/ DeriveRead(p) \/ Crash(p)
  \/ \E d \in Deliveries : ReceiptRead(p, d)
  \/ \E r \in Requirements : AllocateRead(p, r)

\* The requirement of the line at hand is read, and written next if it moves.
LEMMA SyncTypes ==
  ASSUME TypeInv, NEW p \in Procs, NEW itemStatus \in Receiving,
         NEW line \in {"orderLine", "receiptLine"}, NEW write \in {"orderWrite", "receiptWrite"},
         NEW after \in {"idle", "derive"},
         sess[p].pc \in Loops, SyncRead(p, itemStatus, line, write, after)
  PROVE  Others(p) /\ Typed(p)'
<1> DEFINE i == This(p)
           next == NextRequirementStatus(req[ReqOf[i]], itemStatus)
<1>1. /\ sess[p].todo \in Seq(Items) /\ sess[p].todo # <<>> /\ sess[p].arg \in Args
      /\ Rest(p) \in Seq(Items) /\ Shape
  BY TypesKnown, Walks DEF TypeInv, Typed, Rest
<1>2. CASE i \in DOMAIN ReqOf /\ next # req[ReqOf[i]]
  <2>1. Go(p, write, sess[p].todo, next)
    BY <1>2, Zenon DEF SyncRead
  <2>2. req[ReqOf[i]] \in ReqStatuses
    BY <1>2, TypesKnown, ProcurementAssumption DEF DataOK
  <2>3. next \in ReqStatuses
    BY <2>2, NextMoves
  <2> HIDE DEF next
  <2>4. Others(p) /\ sess'[p].pc = write /\ sess'[p].todo = sess[p].todo /\ sess'[p].arg = next
    BY <1>1, <2>1, GoStep
  <2> QED BY <1>1, <1>2, <2>3, <2>4 DEF Typed, Pcs, Loops, Args, This
<1>3. CASE ~ (i \in DOMAIN ReqOf /\ next # req[ReqOf[i]])
  <2>1. Continue(p, line, Rest(p), after)
    BY <1>3, Zenon DEF SyncRead
  <2>2. /\ Others(p) /\ sess'[p].pc = (IF Rest(p) = <<>> THEN after ELSE line)
        /\ sess'[p].todo = Rest(p)
        /\ sess'[p].arg = sess[p].arg \/ sess'[p].arg = "none"
    BY <1>1, <2>1, ContinueStep
  <2>3. "none" \in Args
    BY TypesKnown DEF Args
  <2> QED BY <1>1, <2>2, <2>3 DEF Typed, Pcs, Loops
<1> QED BY <1>2, <1>3

LEMMA ReadsKeepTypes ==
  ASSUME TypeInv, NEW p \in Procs, Reads(p)
  PROVE  Others(p) /\ Typed(p)' /\ UNCHANGED <<po, items, costs, made, received, req>>
<1>0. /\ Shape /\ Typed(p) /\ items \in Seq(Items)
      /\ {"none", "again"} \subseteq Args /\ DOMAIN Allowed \subseteq Args
  BY TypesKnown DEF TypeInv, Args
<1>1. ASSUME NEW list \in ItemLists, EditRead(p, list)
      PROVE  Others(p) /\ Typed(p)' /\ UNCHANGED <<po, items, costs, made, received, req>>
  BY <1>0, <1>1, GoStep DEF EditRead, Typed, Pcs, Loops
<1>14. CASE FieldsRead(p)
  BY <1>0, <1>14, GoStep DEF FieldsRead, Typed, Pcs, Loops
<1>2. CASE ApproveRead(p)
  BY <1>0, <1>2, GoStep DEF ApproveRead, Typed, Pcs, Loops
<1>3. CASE CostList(p)
  <2>1. Continue(p, "cost", items, AfterCosts(p)) /\ AfterCosts(p) \in {"idle", "stamp"}
    BY <1>3 DEF CostList, AfterCosts
  <2> QED BY <1>0, <1>3, <2>1, ContinueStep DEF CostList, Typed, Pcs, Loops
<1>4. CASE CostCheck(p)
  <2>1. AfterCosts(p) \in {"idle", "stamp"}
    BY DEF AfterCosts
  <2>2. sess[p].todo \in Seq(Items) /\ sess[p].todo # <<>>
    BY <1>0, <1>4 DEF CostCheck, At, Typed, Loops
  <2>3. Rest(p) \in Seq(Items)
    BY <2>2, Walks DEF Rest
  <2>4. CASE Continue(p, "cost", Rest(p), AfterCosts(p))
    BY <1>0, <1>4, <2>1, <2>3, <2>4, ContinueStep DEF CostCheck, Typed, Pcs, Loops
  <2>5. CASE Go(p, "costCreate", sess[p].todo, sess[p].arg)
    BY <1>0, <1>4, <2>2, <2>5, GoStep DEF CostCheck, Typed, Pcs, Loops
  <2> QED BY <1>4, <2>4, <2>5 DEF CostCheck
<1>5. CASE OrderRead(p)
  BY <1>0, <1>5, GoStep DEF OrderRead, Typed, Pcs, Loops
<1>6. CASE OrderList(p)
  BY <1>0, <1>6, ContinueStep DEF OrderList, Typed, Pcs, Loops
<1>7. CASE OrderLine(p)
  <2>1. CASE SyncRead(p, "ordered", "orderLine", "orderWrite", "idle")
    <3>1. sess[p].pc \in Loops /\ "ordered" \in Receiving
      BY <1>7 DEF OrderLine, At, Loops, Receiving
    <3> QED BY <1>7, <2>1, <3>1, SyncTypes DEF OrderLine
  <2>2. CASE Done(p)
    BY <1>0, <1>7, <2>2, DoneStep DEF OrderLine, Typed, Pcs, Loops
  <2> QED BY <1>7, <2>1, <2>2 DEF OrderLine
<1>8. CASE CancelRead(p)
  BY <1>0, <1>8, GoStep DEF CancelRead, Typed, Pcs, Loops
<1>9. CASE CancelList(p)
  <2> DEFINE marks == {[item |-> e.item, n |-> e.n] : e \in costs}
  <2>1. IsFiniteSet(marks) /\ marks \subseteq Marks
    <3>1. IsFiniteSet(costs) /\ costs \subseteq [item : Items, n : 1..MaxEntries, state : {"committed", "actual"}]
      BY TypesKnown DEF DataOK
    <3>2. [e \in costs |-> [item |-> e.item, n |-> e.n]] \in Surjection(costs, marks)
      BY DEF Surjection
    <3>3. IsFiniteSet(marks)
      <4> HIDE DEF marks
      <4> QED BY <3>1, <3>2, FS_Surjection
    <3>4. MaxEntries \in Nat
      BY ProcurementAssumption
    <3>5. \A e \in costs : e.item \in Items /\ e.n \in Nat
      BY <3>1, <3>4
    <3> QED BY <3>3, <3>5 DEF Marks
  <2> HIDE DEF marks
  <2>2. SetToSeq(marks) \in Seq(Marks)
    BY <2>1, ListedSet
  <2>3. Continue(p, "uncost", SetToSeq(marks), "idle")
    BY <1>9 DEF CancelList, marks
  <2> QED BY <1>0, <1>9, <2>2, <2>3, ContinueStep DEF CancelList, Typed, Pcs, Loops
<1>10. CASE DeriveRead(p)
  <2>1. Derived \in DOMAIN Allowed
    BY TypesKnown DEF Derived, DerivePoStatus, DataOK
  <2> QED BY <1>0, <1>10, <2>1, GoStep, DoneStep DEF DeriveRead, Typed, Pcs, Loops
<1>11. CASE Crash(p)
  BY <1>0, <1>11, DoneStep DEF Crash, Typed, Pcs, Loops
<1>12. ASSUME NEW d \in Deliveries, ReceiptRead(p, d)
       PROVE  Others(p) /\ Typed(p)' /\ UNCHANGED <<po, items, costs, made, received, req>>
  BY <1>0, <1>12, GoStep DEF ReceiptRead, Typed, Pcs, Loops
<1>13. ASSUME NEW r \in Requirements, AllocateRead(p, r)
       PROVE  Others(p) /\ Typed(p)' /\ UNCHANGED <<po, items, costs, made, received, req>>
  BY <1>0, <1>13, GoStep DEF AllocateRead, Typed, Pcs, Loops
<1> QED
  BY <1>1, <1>2, <1>3, <1>4, <1>5, <1>6, <1>7, <1>8, <1>9, <1>10, <1>11, <1>12, <1>13,
     <1>14 DEF Reads

Writes(p) ==
  \/ \E list \in ItemLists : CreateInsert(p, list)
  \/ CreateItems(p) \/ EditItems(p) \/ EditTotals(p) \/ EditFields(p)
  \/ ApproveCommit(p) \/ CostCreate(p) \/ Stamp(p) \/ OrderCommit(p) \/ OrderWrite(p)
  \/ CancelCommit(p) \/ CancelDelete(p)
  \/ ReceiptCommit(p) \/ ReceiptLine(p) \/ ReceiptWrite(p) \/ DeriveWrite(p) \/ AllocateWrite(p)

LEMMA ItemStatusIs ==
  ASSUME TypeInv, NEW i \in Items
  PROVE  /\ ItemStatus(i) \in Receiving
         /\ ItemStatus(i) = "received" => received[i] >= Quantity[i]
         /\ Full(i) => ItemStatus(i) = "received"
<1>1. Quantity[i] \in Nat /\ received[i] \in Nat
  BY TypesKnown, ProcurementAssumption DEF DataOK
<1> QED
  BY <1>1 DEF ItemStatus, DerivePoStatus, Receiving, Full

LEMMA DeliveriesAre ==
  ASSUME NEW d \in Deliveries
  PROVE  LET lines == [k \in DOMAIN d |-> d[k].item]
         IN  /\ d \in Seq([item : Items, quantity : Nat \ {0}])
             /\ lines \in Seq(Items) /\ lines # <<>>
             /\ ToSet(lines) = {d[k].item : k \in DOMAIN d}
             /\ \A k \in DOMAIN d : d[k].item \in Items /\ d[k].quantity \in Nat \ {0}
<1>1. d \in Seq([item : Items, quantity : Nat \ {0}]) /\ d # <<>>
  BY ProcurementAssumption
<1>2. Len(d) \in Nat /\ DOMAIN d = 1 .. Len(d) /\ Len(d) # 0
  BY <1>1
<1>3. \A k \in DOMAIN d : d[k].item \in Items /\ d[k].quantity \in Nat \ {0}
  <2> DEFINE Entry == [item : Items, quantity : Nat \ {0}]
  <2>1. \A k \in DOMAIN d : d[k] \in Entry
    <3> HIDE DEF Entry
    <3>1. d \in Seq(Entry)
      BY <1>1 DEF Entry
    <3> QED BY <1>2, <3>1
  <2> QED BY <2>1
<1> DEFINE lines == [k \in DOMAIN d |-> d[k].item]
<1>4. lines \in Seq(Items) /\ Len(lines) = Len(d)
  BY <1>2, <1>3
<1>5. lines # <<>>
  BY <1>2, <1>4
<1>6. ToSet(lines) = {d[k].item : k \in DOMAIN d}
  BY DEF ToSet
<1> QED
  BY <1>1, <1>3, <1>4, <1>5, <1>6

LEMMA DeliveredIsNat ==
  ASSUME NEW d \in Deliveries, NEW i
  PROVE  DeliveredOf(d, i) \in Nat
<1> DEFINE w == [k \in DOMAIN d |-> IF d[k].item = i THEN d[k].quantity ELSE 0]
<1>1. Len(d) \in Nat /\ DOMAIN d = 1 .. Len(d) /\ \A k \in DOMAIN d : d[k].quantity \in Nat
  <2>1. /\ d \in Seq([item : Items, quantity : Nat \ {0}])
        /\ \A k \in DOMAIN d : d[k].quantity \in Nat \ {0}
    BY DeliveriesAre
  <2> QED BY <2>1
<1>2. w \in Seq(Nat)
  BY <1>1
<1> QED
  BY <1>2, TotalIsNat DEF DeliveredOf

LEMMA WritesKeepTypes ==
  ASSUME TypeInv, NEW p \in Procs, Writes(p), calm' = calm
  PROVE  Others(p) /\ Typed(p)' /\ DataOK'
<1>0. /\ Shape /\ Typed(p) /\ DataOK /\ items \in Seq(Items)
      /\ {"none", "again"} \subseteq Args /\ DOMAIN Allowed \subseteq Args
      /\ DOMAIN Allowed = {"none", "draft", "approved", "ordered", "partially_received",
                           "received", "cancelled"}
  BY TypesKnown DEF TypeInv, Args
<1>s. ASSUME NEW s \in DOMAIN Allowed, SetStatus(s), UNCHANGED <<items, costs, made, received, req>>
      PROVE  DataOK'
  <2>1. po' \in [status : DOMAIN Allowed, priced : ItemLists \cup {<<>>},
            stamped : BOOLEAN, taxed : BOOLEAN]
    BY <1>0, <1>s DEF SetStatus, DataOK
  <2> QED BY <1>0, <1>s, <2>1, Zenon DEF DataOK
<1> USE DEF Typed, Pcs, Loops
<1>1. ASSUME NEW list \in ItemLists, CreateInsert(p, list)
      PROVE  Others(p) /\ Typed(p)' /\ DataOK'
  <2>1. Others(p) /\ Typed(p)'
    BY <1>0, <1>1, GoStep DEF CreateInsert
  <2>2. po' \in [status : DOMAIN Allowed, priced : ItemLists \cup {<<>>},
            stamped : BOOLEAN, taxed : BOOLEAN]
    BY <1>0, <1>1 DEF CreateInsert, DataOK
  <2> QED BY <1>0, <1>1, <2>1, <2>2 DEF CreateInsert, DataOK
<1>2. CASE CreateItems(p)
  <2>1. sess[p].todo \in ItemLists
    BY <1>0, <1>2 DEF CreateItems, At
  <2>2. Done(p)
    BY <1>2 DEF CreateItems, ReplaceItems
  <2> QED BY <1>0, <1>2, <2>1, <2>2, DoneStep DEF CreateItems, ReplaceItems, DataOK
<1>3. CASE EditItems(p)
  <2>1. sess[p].todo \in ItemLists
    BY <1>0, <1>3 DEF EditItems, At
  <2>2. CASE Done(p)
    BY <1>0, <1>3, <2>1, <2>2, DoneStep DEF EditItems, ReplaceItems, DataOK
  <2>3. CASE Go(p, "reprice", sess[p].todo, "none")
    BY <1>0, <1>3, <2>1, <2>3, GoStep DEF EditItems, ReplaceItems, DataOK
  <2> QED BY <1>3, <2>2, <2>3 DEF EditItems, ReplaceItems
<1>4. CASE EditTotals(p)
  <2>1. sess[p].todo \in ItemLists
    BY <1>0, <1>4 DEF EditTotals, SetPriced, At
  <2>2. PICK t \in BOOLEAN : po' = [po EXCEPT !.priced = sess[p].todo, !.taxed = t]
    BY <1>0, <1>4 DEF EditTotals, SetPriced, DataOK
  <2>3. po' \in [status : DOMAIN Allowed, priced : ItemLists \cup {<<>>},
                stamped : BOOLEAN, taxed : BOOLEAN]
    BY <1>0, <2>1, <2>2 DEF DataOK
  <2>4. Done(p) /\ UNCHANGED <<items, costs, made, received, req>>
    BY <1>4 DEF EditTotals, SetPriced
  <2> QED BY <1>0, <2>3, <2>4, DoneStep DEF DataOK
<1>17. CASE EditFields(p)
  <2>1. Done(p) /\ UNCHANGED <<items, costs, made, received, req>>
    BY <1>17 DEF EditFields
  <2>2. PICK t \in BOOLEAN : po' = [po EXCEPT !.taxed = t]
    BY <1>0, <1>17 DEF EditFields, DataOK
  <2>3. po' \in [status : DOMAIN Allowed, priced : ItemLists \cup {<<>>},
                stamped : BOOLEAN, taxed : BOOLEAN]
    BY <1>0, <2>2 DEF DataOK
  <2> QED BY <1>0, <2>1, <2>3, DoneStep DEF DataOK
<1>5. CASE ApproveCommit(p)
  <2>1. Others(p) /\ Typed(p)'
    BY <1>0, <1>5, GoStep DEF ApproveCommit
  <2> QED BY <1>0, <1>5, <1>s, <2>1 DEF ApproveCommit
<1>6. CASE CostCreate(p)
  <2>1. AfterCosts(p) \in {"idle", "stamp"}
    BY DEF AfterCosts
  <2>2. /\ sess[p].todo \in Seq(Items) /\ sess[p].todo # <<>>
        /\ This(p) \in Items /\ Rest(p) \in Seq(Items)
    BY <1>0, <1>6, Walks DEF CostCreate, At, This, Rest
  <2>3. CASE This(p) \in ToSet(items)
    <3>1. Continue(p, "cost", Rest(p), AfterCosts(p)) /\ UNCHANGED <<po, items, received, req>>
      BY <1>6, <2>3 DEF CostCreate
    <3>2. Others(p) /\ Typed(p)'
      BY <1>0, <2>1, <2>2, <3>1, ContinueStep
    <3>3. /\ made[This(p)] < MaxEntries /\ made' = [made EXCEPT ![This(p)] = @ + 1]
          /\ costs' = costs \cup {[item |-> This(p), n |-> made'[This(p)], state |-> "committed"]}
      BY <1>6, <2>3 DEF CostCreate
    <3>4. made' \in [Items -> 0..MaxEntries] /\ made'[This(p)] \in 1..MaxEntries
      <4>1. made \in [Items -> 0..MaxEntries] /\ MaxEntries \in Nat /\ made[This(p)] \in 0..MaxEntries
        BY <1>0, <2>2, ProcurementAssumption DEF DataOK
      <4>2. made[This(p)] + 1 \in 1..MaxEntries /\ made[This(p)] + 1 \in 0..MaxEntries
        BY <3>3, <4>1
      <4> QED BY <2>2, <3>3, <4>1, <4>2
    <3>5. [item |-> This(p), n |-> made'[This(p)], state |-> "committed"]
            \in [item : Items, n : 1..MaxEntries, state : {"committed", "actual"}]
      BY <2>2, <3>4
    <3>6. costs' \subseteq [item : Items, n : 1..MaxEntries, state : {"committed", "actual"}]
      BY <1>0, <3>3, <3>5, Zenon DEF DataOK
    <3>7. IsFiniteSet(costs')
      BY <1>0, <3>3, FS_AddElement DEF DataOK
    <3> QED BY <1>0, <3>1, <3>2, <3>4, <3>6, <3>7 DEF DataOK
  <2>4. CASE This(p) \notin ToSet(items)
    BY <1>0, <1>6, <2>4, DoneStep DEF CostCreate, DataOK
  <2> QED BY <2>3, <2>4
<1>7. CASE Stamp(p)
  BY <1>0, <1>7, DoneStep DEF Stamp, DataOK
<1>8. CASE OrderCommit(p)
  <2>1. Others(p) /\ Typed(p)'
    BY <1>0, <1>8, GoStep DEF OrderCommit
  <2> QED BY <1>0, <1>8, <1>s, <2>1 DEF OrderCommit
<1>9. ASSUME NEW line \in {"orderLine", "receiptLine"}, NEW write \in {"orderWrite", "receiptWrite"},
             NEW after \in {"idle", "derive"}, SyncWrite(p, line, write, after)
      PROVE  Others(p) /\ Typed(p)' /\ DataOK'
  <2>1. /\ sess[p].todo \in Seq(Items) /\ sess[p].todo # <<>>
        /\ Rest(p) \in Seq(Items) /\ sess[p].arg \in ReqStatuses
        /\ This(p) \in DOMAIN ReqOf
    BY <1>0, <1>9, Walks DEF SyncWrite, At, Rest
  <2>2. Others(p) /\ Typed(p)'
    BY <1>0, <1>9, <2>1, ContinueStep DEF SyncWrite
  <2>3. ReqOf[This(p)] \in Requirements
    BY <2>1, ProcurementAssumption
  <2> QED BY <1>0, <1>9, <2>1, <2>2, <2>3 DEF SyncWrite, DataOK
<1>10. CASE CancelCommit(p)
  <2>1. Others(p) /\ Typed(p)'
    BY <1>0, <1>10, GoStep DEF CancelCommit
  <2> QED BY <1>0, <1>10, <1>s, <2>1 DEF CancelCommit
<1>11. CASE CancelDelete(p)
  <2>1. /\ sess[p].todo \in Seq(Marks) /\ sess[p].todo # <<>> /\ Rest(p) \in Seq(Marks)
    BY <1>0, <1>11, Walks DEF CancelDelete, DeleteEntry, At, Rest
  <2>2. Others(p) /\ Typed(p)'
    BY <1>0, <1>11, <2>1, ContinueStep DEF CancelDelete, DeleteEntry
  <2>3. costs' \subseteq costs
    BY <1>11 DEF CancelDelete, DeleteEntry
  <2>4. IsFiniteSet(costs')
    BY <1>0, <2>3, FS_Subset DEF DataOK
  <2>5. UNCHANGED <<po, items, made, received, req>>
    BY <1>11 DEF CancelDelete, DeleteEntry
  <2> QED BY <1>0, <2>2, <2>3, <2>4, <2>5 DEF DataOK
<1>12. CASE ReceiptCommit(p)
  <2> DEFINE d == sess[p].todo
             lines == [k \in DOMAIN d |-> d[k].item]
  <2>1. d \in Deliveries
    BY <1>0, <1>12 DEF ReceiptCommit, At
  <2>2. lines \in Seq(Items) \ {<<>>}
    BY <2>1, DeliveriesAre
  <2>3. UNCHANGED <<po, items, costs, made, req>>
    BY <1>12 DEF ReceiptCommit
  <2>4. CASE ToSet(lines) \subseteq ToSet(items)
    <3>1. /\ received' = [i \in Items |-> received[i] + DeliveredOf(d, i)]
          /\ Go(p, "receiptLine", lines, "none")
      BY <1>12, <2>4 DEF ReceiptCommit
    <3>2. received' \in [Items -> Nat]
      BY <1>0, <2>1, <3>1, DeliveredIsNat DEF DataOK
    <3> HIDE DEF lines
    <3>3. Others(p) /\ Typed(p)'
      BY <1>0, <2>2, <3>1, GoStep
    <3> QED BY <1>0, <2>3, <3>2, <3>3 DEF DataOK
  <2>5. CASE ~ (ToSet(lines) \subseteq ToSet(items))
    BY <1>0, <1>12, <2>5, DoneStep DEF ReceiptCommit, DataOK
  <2> QED BY <2>4, <2>5
<1>13. CASE ReceiptLine(p)
  <2>1. sess[p].todo \in Seq(Items) /\ sess[p].todo # <<>> /\ This(p) \in Items
    BY <1>0, <1>13, Walks DEF ReceiptLine, At, This
  <2>2. Others(p) /\ Typed(p)'
    <3>1. ItemStatus(This(p)) \in Receiving /\ sess[p].pc \in Loops
      BY <1>13, <2>1, ItemStatusIs DEF ReceiptLine, At
    <3> QED BY <1>13, <3>1, SyncTypes DEF ReceiptLine
  <2>3. CASE costs' = costs
    BY <1>0, <1>13, <2>2, <2>3 DEF ReceiptLine, DataOK
  <2>4. CASE \E e \in Entries(This(p)) : costs' = (costs \ {e}) \cup {[e EXCEPT !.state = "actual"]}
    <3>1. PICK e \in Entries(This(p)) : costs' = (costs \ {e}) \cup {[e EXCEPT !.state = "actual"]}
      BY <2>4
    <3>2. e \in costs /\ e \in [item : Items, n : 1..MaxEntries, state : {"committed", "actual"}]
      BY <1>0, <3>1 DEF Entries, DataOK
    <3>3. [e EXCEPT !.state = "actual"] \in [item : Items, n : 1..MaxEntries, state : {"committed", "actual"}]
      BY <3>2
    <3>4. costs' \subseteq [item : Items, n : 1..MaxEntries, state : {"committed", "actual"}]
      BY <1>0, <3>1, <3>3, Zenon DEF DataOK
    <3>5. IsFiniteSet(costs \ {e})
      BY <1>0, FS_RemoveElement, Zenon DEF DataOK
    <3>6. IsFiniteSet(costs')
      BY <3>1, <3>5, FS_AddElement, Zenon
    <3>7. UNCHANGED <<po, items, made, received, req>>
      BY <1>13 DEF ReceiptLine
    <3> QED BY <1>0, <2>2, <3>4, <3>6, <3>7 DEF DataOK
  <2> QED BY <1>13, <2>3, <2>4 DEF ReceiptLine, MarkActual
<1>14. CASE DeriveWrite(p)
  <2>1. sess[p].arg \in DOMAIN Allowed
    BY <1>0, <1>14 DEF DeriveWrite, At
  <2> QED BY <1>0, <1>14, <2>1, DoneStep DEF DeriveWrite, SetStatus, DataOK
<1>15. CASE AllocateWrite(p)
  <2>1. "allocated" \in ReqStatuses
    BY StatusesAre
  <2> QED BY <1>0, <1>15, <2>1, DoneStep DEF AllocateWrite, DataOK
<1>16. OrderWrite(p) \/ ReceiptWrite(p) => Others(p) /\ Typed(p)' /\ DataOK'
  BY <1>9 DEF OrderWrite, ReceiptWrite
<1> QED
  BY <1>1, <1>2, <1>3, <1>4, <1>5, <1>6, <1>7, <1>8, <1>10, <1>11, <1>12, <1>13, <1>14, <1>15, <1>16,
     <1>17
  DEF Writes

Touches(p) == \E r \in Requirements : CancelRequirement(p, r) \/ UpdateRequirement(p, r)

LEMMA SessionIs ==
  ASSUME NEW p \in Procs, Session(p)
  PROVE  Reads(p) \/ Writes(p) \/ Touches(p)
  BY Zenon DEF Session, Reads, Writes, Touches

LEMMA TouchesKeepTypes ==
  ASSUME TypeInv, NEW p \in Procs, Touches(p)
  PROVE  /\ UNCHANGED <<po, items, costs, made, received, sess>>
         /\ req' \in [Requirements -> ReqStatuses]
         /\ At(p, "idle") /\ (calm => AtRest)
         /\ \A r \in Requirements : req'[r] = req[r] \/ req'[r] = "cancelled" \/ req'[r] \in UserStatuses
<1>1. "cancelled" \in ReqStatuses /\ UserStatuses \subseteq ReqStatuses
  BY StatusesAre, ProcurementAssumption
<1>2. req \in [Requirements -> ReqStatuses]
  BY TypesKnown DEF DataOK
<1>3. PICK r \in Requirements : CancelRequirement(p, r) \/ UpdateRequirement(p, r)
  BY DEF Touches
<1>4. CASE CancelRequirement(p, r)
  BY <1>1, <1>2, <1>4 DEF CancelRequirement, Starts
<1>5. CASE UpdateRequirement(p, r)
  <2>1. PICK s \in UserStatuses : req' = [req EXCEPT ![r] = s]
    BY <1>5 DEF UpdateRequirement
  <2>2. s \in ReqStatuses
    BY <1>1, <2>1
  <2>3. req' \in [Requirements -> ReqStatuses]
    BY <1>2, <2>1, <2>2
  <2>4. \A q \in Requirements : req'[q] = req[q] \/ req'[q] = s
    BY <1>2, <2>1
  <2> QED BY <1>5, <2>1, <2>3, <2>4 DEF UpdateRequirement, Starts
<1> QED
  BY <1>3, <1>4, <1>5

LEMMA TypeInit ==
  ASSUME Init
  PROVE  TypeInv
<1>0. "required" \in ReqStatuses
  BY StatusesAre
<1>1. /\ po \in [status : DOMAIN Allowed, priced : ItemLists \cup {<<>>},
            stamped : BOOLEAN, taxed : BOOLEAN]
      /\ items \in ItemLists \cup {<<>>}
      /\ costs \subseteq [item : Items, n : 1..MaxEntries, state : {"committed", "actual"}]
      /\ made \in [Items -> 0..MaxEntries]
      /\ received \in [Items -> Nat]
      /\ req \in [Requirements -> ReqStatuses]
      /\ calm \in BOOLEAN
  BY <1>0, ProcurementAssumption DEF Init, Allowed
<1>2. IsFiniteSet(costs)
  BY FS_EmptySet DEF Init
<1>3. sess = [p \in Procs |-> Idle]
  BY DEF Init
<1>4. \A p \in Procs : sess[p].pc = "idle" /\ sess[p].arg = "none" /\ DOMAIN sess[p] = {"pc", "todo", "arg"}
  BY <1>3 DEF Idle
<1>5. DOMAIN sess = Procs /\ sess = [p \in Procs |-> sess[p]]
  BY <1>3
<1>6. "none" \in DOMAIN Allowed
  BY DEF Allowed
<1>7. \A p \in Procs : Typed(p)
  BY <1>4, <1>6 DEF Typed, Pcs, Loops, Args
<1> QED
  BY <1>1, <1>2, <1>4, <1>5, <1>6, <1>7 DEF TypeInv, TypeOK, Pcs

LEMMA TypeStep ==
  ASSUME TypeInv, [Next]_vars
  PROVE  TypeInv'
<1>1. CASE UNCHANGED vars
  BY <1>1 DEF vars, TypeInv, TypeOK, Typed, This
<1>2. ASSUME NEW p \in Procs, Session(p), calm' = calm
      PROVE  TypeInv'
  <2>1. CASE Reads(p)
    <3>1. Others(p) /\ Typed(p)' /\ UNCHANGED <<po, items, costs, made, received, req>>
      BY <2>1, ReadsKeepTypes
    <3>2. DataOK'
      BY <1>2, <3>1, TypesKnown DEF DataOK
    <3> QED BY <3>1, <3>2, OthersKeepTypes
  <2>2. CASE Writes(p)
    BY <1>2, <2>2, WritesKeepTypes, OthersKeepTypes
  <2>3. CASE Touches(p)
    <3>1. /\ UNCHANGED <<po, items, costs, made, received, sess>>
          /\ req' \in [Requirements -> ReqStatuses]
      BY <2>3, TouchesKeepTypes
    <3>2. \A q \in Procs : Typed(q)'
      BY <3>1, Zenon DEF TypeInv, Typed, This
    <3> QED BY <1>2, <3>1, <3>2 DEF TypeInv, TypeOK
  <2> QED BY <1>2, <2>1, <2>2, <2>3, SessionIs
<1> QED
  BY <1>1, <1>2 DEF Next

(* However requests interleave and wherever they die, every part of the    *)
(* order keeps its type: service.py writes only the statuses its tables    *)
(* know, and a price, a line or a cost only of lines that may be ordered.  *)
THEOREM TypeCorrect == Spec => []TypeOK
<1>1. TypeInv => TypeOK
  BY DEF TypeInv
<1> QED
  BY <1>1, TypeInit, TypeStep, PTL DEF Spec

(***************************************************************************)
(* Whatever the interleaving                                               *)
(***************************************************************************)

\* Costs and receipts change only here.
LEMMA ChargesChange ==
  ASSUME TypeInv, NEW p \in Procs, Session(p)
  PROVE  \/ UNCHANGED <<costs, received>>
         \/ CostCreate(p) \/ CancelDelete(p) \/ ReceiptCommit(p) \/ ReceiptLine(p)
<1>1. CASE Reads(p)
  BY <1>1, ReadsKeepTypes
<1>2. CASE Touches(p)
  BY <1>2, TouchesKeepTypes
<1>3. CASE Writes(p)
  BY <1>3 DEF Writes, CreateInsert, CreateItems, EditItems, ReplaceItems, EditTotals, SetPriced, EditFields,
              ApproveCommit, Stamp, OrderCommit, OrderWrite, SyncWrite, CancelCommit, ReceiptWrite,
              DeriveWrite, AllocateWrite
<1> QED
  BY <1>1, <1>2, <1>3, SessionIs

LEMMA ReceivedGrows ==
  ASSUME TypeInv, NEW p \in Procs, Session(p)
  PROVE  \A i \in Items : received[i] \in Nat /\ received'[i] \in Nat /\ received'[i] >= received[i]
<1>1. \A i \in Items : received[i] \in Nat
  BY TypesKnown DEF DataOK
<1>2. CASE ReceiptCommit(p)
  <2>1. sess[p].todo \in Deliveries
    BY <1>2 DEF ReceiptCommit, At, TypeInv, Typed
  <2>2. CASE received' = received
    BY <1>1, <2>2
  <2>3. CASE received' = [i \in Items |-> received[i] + DeliveredOf(sess[p].todo, i)]
    BY <1>1, <2>1, <2>3, DeliveredIsNat
  <2> QED BY <1>2, <2>2, <2>3 DEF ReceiptCommit
<1>3. CASE UNCHANGED received
  BY <1>1, <1>3
<1> QED
  BY <1>2, <1>3, ChargesChange DEF CostCreate, CancelDelete, DeleteEntry, ReceiptLine

LEMMA ActualStep ==
  ASSUME TypeInv, ActualIsReceived, NEW p \in Procs, Session(p)
  PROVE  ActualIsReceived'
<1>0. \A e \in costs : e.item \in Items /\ Quantity[e.item] \in Nat
  BY TypesKnown, ProcurementAssumption DEF DataOK
<1>1. CASE UNCHANGED <<costs, received>>
  BY <1>1 DEF ActualIsReceived
<1>2. CASE CostCreate(p)
  <2>1. UNCHANGED received
    BY <1>2 DEF CostCreate
  <2>2. \A e \in costs' : e \in costs \/ e.state = "committed"
    BY <1>2 DEF CostCreate
  <2> QED BY <2>1, <2>2 DEF ActualIsReceived
<1>3. CASE CancelDelete(p)
  BY <1>3 DEF CancelDelete, DeleteEntry, ActualIsReceived
<1>4. CASE ReceiptCommit(p)
  <2>1. UNCHANGED costs
    BY <1>4 DEF ReceiptCommit
  <2> QED BY <1>0, <2>1, ReceivedGrows DEF ActualIsReceived
<1>5. CASE ReceiptLine(p)
  <2>1. UNCHANGED received
    BY <1>5 DEF ReceiptLine
  <2>2. CASE UNCHANGED costs
    BY <2>1, <2>2 DEF ActualIsReceived
  <2>3. CASE ItemStatus(This(p)) = "received" /\ ~ UNCHANGED costs
    <3>1. PICK e \in Entries(This(p)) : costs' = (costs \ {e}) \cup {[e EXCEPT !.state = "actual"]}
      BY <1>5, <2>3 DEF ReceiptLine, MarkActual
    <3>2. e \in costs /\ e.item = This(p) /\ This(p) \in Items
      BY <1>0, <3>1 DEF Entries
    <3>3. [e EXCEPT !.state = "actual"].item = e.item
      BY <3>2, TypesKnown DEF DataOK
    <3>4. received[This(p)] >= Quantity[This(p)]
      BY <2>3, <3>2, ItemStatusIs
    <3> QED BY <2>1, <3>1, <3>2, <3>3, <3>4 DEF ActualIsReceived
  <2> QED BY <1>5, <2>2, <2>3 DEF ReceiptLine
<1> QED
  BY <1>1, <1>2, <1>3, <1>4, <1>5, ChargesChange

LEMMA SumTyped ==
  ASSUME NEW f \in [Items -> Nat], NEW list \in Seq(Items)
  PROVE  LET w == [k \in DOMAIN list |-> f[list[k]]]
         IN  /\ w \in Seq(Nat) /\ Len(w) = Len(list) /\ DOMAIN list = 1 .. Len(list)
             /\ \A k \in 1 .. Len(list) : list[k] \in Items /\ w[k] = f[list[k]]
             /\ SumOver(f, list) = Total(w)
             /\ SumOver(f, list) \in Nat
<1> DEFINE w == [k \in DOMAIN list |-> f[list[k]]]
<1>1. /\ w \in Seq(Nat) /\ Len(w) = Len(list) /\ DOMAIN list = 1 .. Len(list)
      /\ \A k \in 1 .. Len(list) : list[k] \in Items /\ w[k] = f[list[k]]
  OBVIOUS
<1>2. SumOver(f, list) = Total(w)
  BY DEF SumOver
<1> HIDE DEF w
<1>3. Total(w) \in Nat
  BY <1>1, TotalIsNat
<1> QED
  BY <1>1, <1>2, <1>3 DEF w

LEMMA SumGrows ==
  ASSUME NEW f \in [Items -> Nat], NEW g \in [Items -> Nat], NEW list \in Seq(Items),
         \A i \in ToSet(list) : f[i] <= g[i]
  PROVE  /\ SumOver(f, list) <= SumOver(g, list)
         /\ SumOver(f, list) >= SumOver(g, list) => \A i \in ToSet(list) : f[i] = g[i]
<1> DEFINE v == [k \in DOMAIN list |-> f[list[k]]]
           w == [k \in DOMAIN list |-> g[list[k]]]
<1>1. /\ v \in Seq(Nat) /\ Len(v) = Len(list) /\ DOMAIN list = 1 .. Len(list)
      /\ \A k \in 1 .. Len(list) : list[k] \in Items /\ v[k] = f[list[k]]
      /\ SumOver(f, list) = Total(v)
  BY SumTyped
<1>2. /\ w \in Seq(Nat) /\ Len(w) = Len(list)
      /\ \A k \in 1 .. Len(list) : w[k] = g[list[k]]
      /\ SumOver(g, list) = Total(w)
  BY SumTyped
<1> HIDE DEF v, w
<1>3. \A k \in 1 .. Len(v) : v[k] <= w[k]
  BY <1>1, <1>2 DEF ToSet
<1>4. /\ Total(v) <= Total(w)
      /\ Total(v) >= Total(w) => \A k \in 1 .. Len(v) : v[k] = w[k]
  BY <1>1, <1>2, <1>3, TotalGrows
<1> QED
  BY <1>1, <1>2, <1>4 DEF ToSet

LEMMA SumOfSome ==
  ASSUME NEW f \in [Items -> Nat], NEW list \in Seq(Items), SumOver(f, list) # 0
  PROVE  \E i \in ToSet(list) : f[i] > 0
<1> DEFINE v == [k \in DOMAIN list |-> f[list[k]]]
<1>1. /\ v \in Seq(Nat) /\ Len(v) = Len(list) /\ DOMAIN list = 1 .. Len(list)
      /\ \A k \in 1 .. Len(list) : list[k] \in Items /\ v[k] = f[list[k]]
      /\ SumOver(f, list) = Total(v)
  BY SumTyped
<1> HIDE DEF v
<1>2. PICK k \in 1 .. Len(v) : v[k] > 0
  BY <1>1, TotalOfNone
<1> QED
  BY <1>1, <1>2 DEF ToSet

\* An order's lines change only while nothing refers to one of them.
LEMMA LinesChange ==
  ASSUME TypeInv, NEW p \in Procs, Session(p)
  PROVE  items' = items \/ \A i \in ToSet(items) : ~ Referenced(i)
<1>1. CASE Reads(p)
  BY <1>1, ReadsKeepTypes
<1>2. CASE Touches(p)
  BY <1>2, TouchesKeepTypes
<1>3. CASE Writes(p)
  BY <1>3 DEF Writes, CreateInsert, CreateItems, EditItems, ReplaceItems, EditTotals, SetPriced, EditFields,
              ApproveCommit, Stamp, OrderCommit, OrderWrite, SyncWrite, CancelCommit, ReceiptWrite,
              DeriveWrite, AllocateWrite, CostCreate, CancelDelete, DeleteEntry, ReceiptCommit,
              ReceiptLine
<1> QED
  BY <1>1, <1>2, <1>3, SessionIs

\* Only the status derived from the deliveries is "received".
LEMMA ReceivedIsDerived ==
  ASSUME TypeInv, NEW p \in Procs, Session(p), po'.status = "received"
  PROVE  po.status = "received" \/ (At(p, "deriveWrite") /\ sess[p].arg = "received")
<1>0. /\ po \in [status : DOMAIN Allowed, priced : ItemLists \cup {<<>>},
            stamped : BOOLEAN, taxed : BOOLEAN]
  BY TypesKnown DEF DataOK
<1>1. CASE Reads(p)
  BY <1>1, ReadsKeepTypes
<1>2. CASE Touches(p)
  BY <1>2, TouchesKeepTypes
<1>3. CASE Writes(p)
  <2>1. CASE \E list : po' = [po EXCEPT !.status = "draft", !.priced = list, !.taxed = calm]
    BY <1>0, <2>1
  <2>2. CASE \E list, t : po' = [po EXCEPT !.priced = list, !.taxed = t]
    BY <1>0, <2>2
  <2>7. CASE \E t : po' = [po EXCEPT !.taxed = t]
    BY <1>0, <2>7
  <2>3. CASE \E b : po' = [po EXCEPT !.stamped = b]
    BY <1>0, <2>3
  <2>4. CASE SetStatus("approved") \/ SetStatus("ordered") \/ SetStatus("cancelled")
    BY <1>0, <2>4 DEF SetStatus
  <2>5. CASE At(p, "deriveWrite") /\ SetStatus(sess[p].arg)
    BY <1>0, <2>5 DEF SetStatus
  <2>6. CASE po' = po
    BY <2>6
  <2> QED
    BY <1>3, <2>1, <2>2, <2>3, <2>4, <2>5, <2>6, <2>7, Zenon
    DEF Writes, CreateInsert, CreateItems, EditItems, ReplaceItems, EditTotals, SetPriced, EditFields,
        ApproveCommit, Stamp, OrderCommit, OrderWrite, SyncWrite, CancelCommit, ReceiptWrite,
        DeriveWrite, AllocateWrite, CostCreate, CancelDelete, DeleteEntry, ReceiptCommit,
        ReceiptLine
<1> QED
  BY <1>1, <1>2, <1>3, SessionIs

LEMMA Derives ==
  ASSUME TypeInv, Derived = "received", po.status # "received"
  PROVE  Delivered
<1>1. received \in [Items -> Nat] /\ Quantity \in [Items -> Nat] /\ items \in Seq(Items)
  BY TypesKnown, ProcurementAssumption DEF DataOK
<1>2. /\ SumOver(received, items) >= SumOver(Quantity, items)
      /\ SumOver(received, items) # 0
  BY DEF Derived, DerivePoStatus
<1> QED
  BY <1>1, <1>2, SumOfSome DEF Delivered

LEMMA DeliveredStays ==
  ASSUME TypeInv, TypeInv', Delivered, NEW p \in Procs, Session(p)
  PROVE  Delivered'
<1>1. /\ received \in [Items -> Nat] /\ Quantity \in [Items -> Nat] /\ items \in Seq(Items)
      /\ ToSet(items) \subseteq Items
  BY TypesKnown, ProcurementAssumption DEF DataOK
<1>2. received' \in [Items -> Nat]
  BY DEF TypeInv, TypeOK
<1>3. PICK i \in ToSet(items) : received[i] > 0
  BY DEF Delivered
<1>4. items' = items
  BY <1>3, LinesChange DEF Referenced
<1>5. \A j \in Items : received[j] <= received'[j]
  BY ReceivedGrows
<1>6. /\ SumOver(received, items) <= SumOver(received', items)
      /\ SumOver(received, items) \in Nat /\ SumOver(received', items) \in Nat
      /\ SumOver(Quantity, items) \in Nat
  BY <1>1, <1>2, <1>5, SumGrows, SumTyped
<1>7. SumOver(received', items) >= SumOver(Quantity, items)
  BY <1>6 DEF Delivered
<1>8. received'[i] > 0
  BY <1>1, <1>2, <1>3, <1>5
<1> QED
  BY <1>3, <1>4, <1>7, <1>8 DEF Delivered

\* A request is about to write a derived status only when it just derived it.
LEMMA DerivesFirst ==
  ASSUME TypeInv, NEW p \in Procs, Reads(p) \/ Writes(p), sess'[p].pc = "deriveWrite"
  PROVE  DeriveRead(p)
<1>0. Shape
  BY TypesKnown
<1>1. SUFFICES ASSUME ~ DeriveRead(p) PROVE FALSE
  OBVIOUS
<1>2. ASSUME NEW pc, NEW todo, NEW arg, Go(p, pc, todo, arg), pc # "deriveWrite" PROVE FALSE
  BY <1>0, <1>2, GoStep
<1>3. ~ Done(p)
  BY <1>0, DoneStep
<1>4. ASSUME NEW pc, NEW rest, NEW after, Continue(p, pc, rest, after),
             pc # "deriveWrite", after # "deriveWrite"
      PROVE  FALSE
  BY <1>0, <1>4, ContinueStep
<1>5. ASSUME NEW itemStatus, NEW line, NEW write, NEW after, SyncRead(p, itemStatus, line, write, after),
             line # "deriveWrite", write # "deriveWrite", after # "deriveWrite"
      PROVE  FALSE
  BY <1>2, <1>4, <1>5, Zenon DEF SyncRead
<1>6. AfterCosts(p) # "deriveWrite"
  BY DEF AfterCosts
<1>7. CASE Reads(p)
  <2>1. ASSUME NEW list \in ItemLists, EditRead(p, list) PROVE FALSE
    BY <1>2, <2>1 DEF EditRead
  <2>9. ~ FieldsRead(p)
    BY <1>2 DEF FieldsRead
  <2>2. ASSUME NEW d \in Deliveries, ReceiptRead(p, d) PROVE FALSE
    BY <1>2, <2>2 DEF ReceiptRead
  <2>3. ASSUME NEW r \in Requirements, AllocateRead(p, r) PROVE FALSE
    BY <1>2, <2>3 DEF AllocateRead
  <2>4. ~ ApproveRead(p) /\ ~ OrderRead(p) /\ ~ CancelRead(p)
    BY <1>2 DEF ApproveRead, OrderRead, CancelRead
  <2>5. ~ CostList(p) /\ ~ OrderList(p) /\ ~ CancelList(p)
    BY <1>4, <1>6 DEF CostList, OrderList, CancelList
  <2>6. ~ CostCheck(p)
    BY <1>2, <1>4, <1>6 DEF CostCheck
  <2>7. ~ OrderLine(p) /\ ~ Crash(p)
    BY <1>3, <1>5 DEF OrderLine, Crash
  <2> QED BY <1>1, <1>7, <2>1, <2>2, <2>3, <2>4, <2>5, <2>6, <2>7, <2>9, Zenon DEF Reads
<1>8. CASE Writes(p)
  <2>1. ASSUME NEW list \in ItemLists, CreateInsert(p, list) PROVE FALSE
    BY <1>2, <2>1 DEF CreateInsert
  <2>9. ~ EditFields(p)
    BY <1>3 DEF EditFields
  <2>2. ~ CreateItems(p) /\ ~ EditTotals(p) /\ ~ Stamp(p) /\ ~ DeriveWrite(p) /\ ~ AllocateWrite(p)
    BY <1>3 DEF CreateItems, ReplaceItems, EditTotals, SetPriced, EditFields, Stamp, DeriveWrite, AllocateWrite
  <2>3. ~ EditItems(p)
    BY <1>2, <1>3 DEF EditItems, ReplaceItems
  <2>4. ~ ApproveCommit(p) /\ ~ OrderCommit(p) /\ ~ CancelCommit(p)
    BY <1>2 DEF ApproveCommit, OrderCommit, CancelCommit
  <2>5. ~ CostCreate(p)
    BY <1>3, <1>4, <1>6 DEF CostCreate
  <2>6. ~ OrderWrite(p) /\ ~ ReceiptWrite(p) /\ ~ CancelDelete(p)
    BY <1>4 DEF OrderWrite, ReceiptWrite, SyncWrite, CancelDelete, DeleteEntry
  <2>7. ~ ReceiptCommit(p)
    BY <1>2, <1>3 DEF ReceiptCommit
  <2>8. ~ ReceiptLine(p)
    BY <1>5 DEF ReceiptLine
  <2> QED BY <1>8, <2>1, <2>2, <2>3, <2>4, <2>5, <2>6, <2>7, <2>8, <2>9, Zenon DEF Writes
<1> QED
  BY <1>7, <1>8

LEMMA EarnedStep ==
  ASSUME TypeInv, TypeInv', Earned, NEW p \in Procs, Session(p), calm' = calm
  PROVE  Earned'
<1>1. Delivered => Delivered'
  BY DeliveredStays
<1>2. po'.status = "received" => Delivered
  BY ReceivedIsDerived DEF Earned
<1>3. ASSUME NEW q \in Procs, sess'[q].pc = "deriveWrite", sess'[q].arg = "received"
      PROVE  Delivered'
  <2>1. CASE sess'[q] = sess[q]
    BY <1>1, <1>3, <2>1 DEF Earned, At
  <2>2. CASE sess'[q] # sess[q]
    <3>1. Reads(p) \/ Writes(p)
      BY <2>2, SessionIs, TouchesKeepTypes
    <3>2. p = q
      <4>1. CASE Reads(p)
        BY <2>2, <4>1, ReadsKeepTypes DEF Others
      <4>2. CASE Writes(p)
        BY <2>2, <4>2, WritesKeepTypes DEF Others
      <4> QED BY <3>1, <4>1, <4>2
    <3>3. DeriveRead(p)
      BY <1>3, <3>1, <3>2, DerivesFirst
    <3>4. Derived = "received" /\ po.status # "received"
      <4>1. Shape
        BY TypesKnown
      <4>2. ~ Done(p)
        BY <1>3, <3>2, <4>1, DoneStep
      <4>3. Derived # po.status /\ Go(p, "deriveWrite", <<>>, Derived)
        BY <3>3, <4>2 DEF DeriveRead
      <4>4. Derived = "received"
        BY <1>3, <3>2, <4>1, <4>3, GoStep
      <4> QED BY <4>3, <4>4
    <3> QED BY <1>1, <3>4, Derives
  <2> QED BY <2>1, <2>2
<1> QED
  BY <1>1, <1>2, <1>3 DEF Earned, At

LEMMA AnyInit ==
  ASSUME Init
  PROVE  AnyInv
<1>1. po.status = "none" /\ costs = {} /\ sess = [p \in Procs |-> Idle]
  BY DEF Init
<1>2. \A p \in Procs : ~ At(p, "deriveWrite")
  BY <1>1 DEF At, Idle
<1> QED
  BY <1>1, <1>2, TypeInit DEF AnyInv, ActualIsReceived, Earned

LEMMA AnyStep ==
  ASSUME AnyInv, [Next]_vars
  PROVE  AnyInv'
<1>1. TypeInv'
  BY TypeStep DEF AnyInv
<1>2. CASE UNCHANGED vars
  BY <1>1, <1>2 DEF vars, AnyInv, ActualIsReceived, Earned, Delivered, At, SumOver
<1>3. ASSUME NEW p \in Procs, Session(p), calm' = calm
      PROVE  AnyInv'
  BY <1>1, <1>3, ActualStep, EarnedStep DEF AnyInv
<1> QED
  BY <1>2, <1>3 DEF Next

(* However requests interleave and wherever they die, a cost is actual     *)
(* only for a line delivered in full, and the order is received only when  *)
(* as much was delivered as its lines order.                               *)
THEOREM DeliveriesAreEarned == Spec => [](ActualIsReceived /\ ReceivedIsEarned)
<1>1. AnyInv => ActualIsReceived /\ ReceivedIsEarned
  BY DEF AnyInv, Earned, Delivered, ReceivedIsEarned
<1> QED
  BY <1>1, AnyInit, AnyStep, PTL DEF Spec

(* And an edit that still believed the order a draft replaces no line the  *)
(* project is charged for or that was delivered.                           *)
THEOREM ChargesKeepLines == Spec => ChargedLinesStay
<1>1. TypeInv /\ [Next]_vars =>
        [\A i \in ToSet(items) : Entries(i) # {} \/ received[i] > 0 => i \in ToSet(items')]_vars
  <2>1. ASSUME TypeInv, NEW p \in Procs, Session(p)
        PROVE  \A i \in ToSet(items) : Entries(i) # {} \/ received[i] > 0 => i \in ToSet(items')
    BY <2>1, LinesChange DEF Referenced
  <2> QED BY <2>1 DEF Next
<1> QED
  BY <1>1, TypeInit, TypeStep, PTL DEF Spec, ChargedLinesStay

(***************************************************************************)
(* When requests do not overlap: the reads                                 *)
(***************************************************************************)

Unmoved == UNCHANGED <<po, items, costs, made, received, req>>

LEMMA UnmovedSame ==
  ASSUME Unmoved
  PROVE  /\ Started' = Started /\ Counted' = Counted /\ Within' = Within /\ Derived' = Derived
         /\ AllCharged' = AllCharged /\ NoneTwice' = NoneTwice
         /\ \A i : Full(i)' = Full(i) /\ Entries(i)' = Entries(i) /\ Single(i)' = Single(i)
         /\ \A line : Fits(line)' = Fits(line)
<1>1. Started' = Started /\ Counted' = Counted /\ Within' = Within /\ Derived' = Derived
  BY DEF Unmoved, Started, Counted, Within, Derived, SumOver
<1>2. \A i : Full(i)' = Full(i) /\ Entries(i)' = Entries(i) /\ Single(i)' = Single(i)
  BY DEF Unmoved, Full, Entries, Single
<1>3. AllCharged' = AllCharged /\ NoneTwice' = NoneTwice
  BY DEF Unmoved, AllCharged, NoneTwice, Single, Entries
<1>4. \A line : Fits(line)' = Fits(line)
  BY DEF Unmoved, Fits
<1> QED
  BY <1>1, <1>2, <1>3, <1>4

\* A read leaves the order as it was; what matters is where its request goes.
LEMMA ReadSound ==
  ASSUME NEW p \in Procs, Sound(p), Unmoved, Held(p)',
         sess[p].pc \notin {"createItems", "reprice", "receiptLine", "receiptWrite"},
         /\ po.status \notin Open /\ sess[p].pc \in Charging \cup {"stamp"}
              /\ sess'[p].pc \notin Charging \cup {"stamp"} => po.stamped,
         po.status \in Open /\ sess[p].pc \in {"uncostList", "uncost"}
           /\ sess'[p].pc \notin {"uncostList", "uncost"} => costs = {},
         po.status \notin Open /\ sess[p].pc \in Charging /\ sess'[p].pc \notin Charging => AllCharged
  PROVE  Sound(p)'
<1>1. /\ po' = po /\ items' = items /\ costs' = costs /\ req' = req
      /\ Started' /\ Counted' /\ Within' /\ AllCharged' = AllCharged
      /\ \A i : Full(i)' = Full(i)
  BY UnmovedSame DEF Unmoved, Sound
<1>2. Priced(p)'
  BY <1>1 DEF Sound, Priced
<1>3. Stamped(p)'
  BY <1>1 DEF Sound, Stamped
<1>4. Uncharged(p)'
  BY <1>1 DEF Sound, Uncharged
<1>5. Charged(p)'
  BY <1>1 DEF Sound, Charged
<1>6. Unblocked(p)'
  BY <1>1 DEF Sound, Unblocked
<1> QED
  BY <1>1, <1>2, <1>3, <1>4, <1>5, <1>6 DEF Sound

\* The first read of a request.
LEMMA StartSound ==
  ASSUME NEW p \in Procs, Sound(p), Unmoved, Held(p)', At(p, "idle")
  PROVE  Sound(p)'
  BY ReadSound DEF At, Charging

LEMMA StartsSound ==
  ASSUME TypeInv, NEW p \in Procs, Sound(p),
         \/ \E list \in ItemLists : EditRead(p, list)
         \/ FieldsRead(p) \/ ApproveRead(p) \/ OrderRead(p) \/ CancelRead(p)
         \/ \E d \in Deliveries : ReceiptRead(p, d)
         \/ \E r \in Requirements : AllocateRead(p, r)
  PROVE  Sound(p)'
<1>0. Shape
  BY TypesKnown
<1>a. /\ Unmoved /\ At(p, "idle")
  BY DEF Unmoved, EditRead, FieldsRead, ApproveRead, OrderRead, CancelRead, ReceiptRead,
         AllocateRead, Starts
<1>b. po' = po /\ items' = items /\ req' = req
  BY <1>a DEF Unmoved
<1>1. ASSUME NEW list \in ItemLists, EditRead(p, list) PROVE Held(p)'
  <2>1. sess'[p].pc = "editItems" /\ po.status = "draft"
    BY <1>0, <1>1, GoStep DEF EditRead
  <2> QED BY <1>b, <2>1 DEF Held, Charging
<1>f. ASSUME FieldsRead(p) PROVE Held(p)'
  <2>1. sess'[p].pc = "fields" /\ po.status = "draft"
    BY <1>0, <1>f, GoStep DEF FieldsRead
  <2> QED BY <1>b, <2>1 DEF Held, Charging
<1>2. ASSUME ApproveRead(p) PROVE Held(p)'
  <2>1. CASE po.status = "approved"
    <3>1. sess'[p].pc = "costList" /\ sess'[p].arg = "again"
      BY <1>0, <1>2, <2>1, GoStep DEF ApproveRead
    <3>2. po.stamped /\ AllCharged
      BY <1>a, <2>1 DEF Sound, Stamped, Charged, At, Open, Charging
    <3>3. NoneTwice'
      BY <1>a, <3>2, UnmovedSame DEF AllCharged, NoneTwice
    <3> QED BY <1>b, <2>1, <3>1, <3>2, <3>3 DEF Held, Charging
  <2>2. CASE po.status # "approved"
    <3>1. sess'[p].pc = "approve" /\ po.status = "draft"
      BY <1>0, <1>2, <2>2, GoStep DEF ApproveRead
    <3> QED BY <1>b, <3>1 DEF Held, Charging
  <2> QED BY <2>1, <2>2
<1>3. ASSUME OrderRead(p) PROVE Held(p)'
  <2>1. sess'[p].pc = "order" /\ po.status = "approved"
    BY <1>0, <1>3, GoStep DEF OrderRead
  <2> QED BY <1>b, <2>1 DEF Held, Charging
<1>4. ASSUME CancelRead(p) PROVE Held(p)'
  <2>1. sess'[p].pc = "cancel" /\ "cancelled" \in Allowed[po.status]
    BY <1>0, <1>4, GoStep DEF CancelRead
  <2> QED BY <1>b, <2>1 DEF Held, Charging
<1>5. ASSUME NEW d \in Deliveries, ReceiptRead(p, d) PROVE Held(p)'
  <2>1. sess'[p].pc = "receive" /\ sess'[p].todo = d /\ \A k \in DOMAIN d : Fits(d[k])
    BY <1>0, <1>5, GoStep DEF ReceiptRead
  <2>2. \A k \in DOMAIN d : Fits(d[k])'
    BY <1>a, <2>1, UnmovedSame
  <2>3. \A k \in DOMAIN sess'[p].todo : Fits(sess[p].todo[k])'
    <3>1. \A k \in DOMAIN d : received'[d[k].item] + d[k].quantity <= Quantity[d[k].item]
      BY <2>2 DEF Fits
    <3> QED BY <2>1, <3>1 DEF Fits
  <2> QED BY <1>b, <2>1, <2>3 DEF Held, Charging
<1>6. ASSUME NEW r \in Requirements, AllocateRead(p, r) PROVE Held(p)'
  <2>1. /\ sess'[p].pc = "allocate" /\ sess'[p].todo = <<r>>
        /\ req[r] \notin {"allocated", "consumed", "cancelled"}
    BY <1>0, <1>6, GoStep DEF AllocateRead
  <2> QED BY <1>b, <2>1 DEF Held, Charging, This
<1> QED
  BY <1>a, <1>f, <1>1, <1>2, <1>3, <1>4, <1>5, <1>6, StartSound

LEMMA CostReadsSound ==
  ASSUME TypeInv, NEW p \in Procs, Sound(p), CostList(p) \/ CostCheck(p)
  PROVE  Sound(p)'
<1>0. /\ Shape /\ items \in Seq(Items)
  BY TypesKnown
<1>a. /\ Unmoved /\ sess[p].pc \in {"costList", "cost"}
      /\ po' = po /\ items' = items
  BY DEF Unmoved, CostList, CostCheck, At
<1>b. /\ po.status = "approved" /\ NoneTwice /\ NoneTwice' = NoneTwice
      /\ sess[p].arg = "again" => po.stamped
      /\ sess[p].pc = "cost" => /\ ToSet(sess[p].todo) \subseteq ToSet(items)
                                /\ \A i \in ToSet(items) : Entries(i) # {} \/ i \in ToSet(sess[p].todo)
      /\ \A i : Entries(i)' = Entries(i)
  BY <1>a, UnmovedSame DEF Sound, Held, Charging
<1>c. \A i : Entries(i) # {} => ~ (Entries(i) = {})
  OBVIOUS
\* Where the loop goes on, and what is left of it.
<1>1. ASSUME NEW rest \in Seq(Items), Continue(p, "cost", rest, AfterCosts(p)),
             ToSet(rest) \subseteq ToSet(items),
             \A i \in ToSet(items) : Entries(i) # {} \/ i \in ToSet(rest)
      PROVE  Sound(p)'
  <2>1. /\ sess'[p].pc = (IF rest = <<>> THEN AfterCosts(p) ELSE "cost") /\ sess'[p].todo = rest
        /\ sess'[p].arg = sess[p].arg \/ sess'[p].arg = "none"
    BY <1>0, <1>1, ContinueStep
  <2>2. AfterCosts(p) = (IF sess[p].arg = "again" THEN "idle" ELSE "stamp")
    BY DEF AfterCosts
  <2>3. rest = <<>> => AllCharged
    BY <1>b, <1>1, EmptyList DEF AllCharged, NoneTwice
  <2>4. sess'[p].pc \in {"cost", "stamp", "idle"}
    BY <2>1, <2>2
  <2>5. sess'[p].arg = "again" => po.stamped
    BY <1>b, <2>1
  <2>6. /\ ToSet(sess'[p].todo) \subseteq ToSet(items)
        /\ \A i \in ToSet(items) : Entries(i)' # {} \/ i \in ToSet(sess'[p].todo)
    BY <1>b, <1>1, <2>1
  <2>7. Held(p)'
    BY <1>a, <1>b, <2>4, <2>5, <2>6 DEF Held, Charging
  <2>8. sess'[p].pc = "idle" => po.stamped
    BY <1>b, <2>1, <2>2
  <2>9. sess'[p].pc \notin Charging => AllCharged
    BY <2>1, <2>3 DEF Charging
  <2> QED BY <1>a, <1>b, <2>4, <2>7, <2>8, <2>9, ReadSound DEF Charging, Open
<1>2. CASE CostList(p)
  <2>1. Continue(p, "cost", items, AfterCosts(p))
    BY <1>2 DEF CostList
  <2> QED BY <1>0, <1>1, <2>1
<1>3. CASE CostCheck(p)
  <2>1. /\ sess[p].pc = "cost" /\ sess[p].todo \in Seq(Items) /\ sess[p].todo # <<>>
    BY <1>3 DEF CostCheck, At, TypeInv, Typed, Loops
  <2>2. /\ Rest(p) \in Seq(Items)
        /\ ToSet(sess[p].todo) = {This(p)} \cup ToSet(Rest(p))
    BY <2>1, Walks DEF Rest, This
  <2>3. CASE Entries(This(p)) # {}
    <3>1. Continue(p, "cost", Rest(p), AfterCosts(p))
      BY <1>3, <2>3 DEF CostCheck
    <3> QED BY <1>b, <1>1, <2>1, <2>2, <2>3, <3>1
  <2>4. CASE Entries(This(p)) = {}
    <3>1. sess'[p].pc = "costCreate" /\ sess'[p].todo = sess[p].todo /\ sess'[p].arg = sess[p].arg
      BY <1>0, <1>3, <2>4, GoStep DEF CostCheck
    <3>2. Entries(This(p))' = {}
      <4>1. This(p)' = This(p)
        BY <3>1 DEF This
      <4>2. costs' = costs
        BY <1>a DEF Unmoved
      <4> QED BY <2>4, <4>1, <4>2 DEF Entries
    <3>3. /\ ToSet(sess'[p].todo) \subseteq ToSet(items)
          /\ \A i \in ToSet(items) : Entries(i)' # {} \/ i \in ToSet(sess'[p].todo)
      BY <1>b, <2>1, <3>1
    <3>4. Held(p)'
      BY <1>a, <1>b, <3>1, <3>2, <3>3 DEF Held, Charging
    <3> QED BY <1>a, <1>b, <3>1, <3>4, ReadSound DEF Charging, Open
  <2> QED BY <2>3, <2>4
<1> QED
  BY <1>2, <1>3

\* A requirement read is either left as it is, or about to be moved on.
LEMMA SyncGoes ==
  ASSUME TypeInv, NEW p \in Procs, NEW itemStatus \in Receiving, NEW line, NEW write, NEW after,
         SyncRead(p, itemStatus, line, write, after)
  PROVE  \/ /\ sess'[p].pc = write /\ sess'[p].todo = sess[p].todo /\ sess'[p].arg = itemStatus
            /\ This(p) \in DOMAIN ReqOf /\ req[ReqOf[This(p)]] \notin Freed
            /\ ~ Regress(req[ReqOf[This(p)]], itemStatus)
         \/ /\ sess'[p].pc = (IF Rest(p) = <<>> THEN after ELSE line) /\ sess'[p].todo = Rest(p)
            /\ itemStatus = "received" /\ This(p) \in DOMAIN ReqOf => req[ReqOf[This(p)]] \in Freed
<1> DEFINE i == This(p)
           next == NextRequirementStatus(req[ReqOf[i]], itemStatus)
<1>0. Shape
  BY TypesKnown
<1>1. ASSUME i \in DOMAIN ReqOf
      PROVE  req[ReqOf[i]] \in ReqStatuses
  BY <1>1, TypesKnown, ProcurementAssumption DEF DataOK
<1>2. i \in DOMAIN ReqOf =>
        /\ next # req[ReqOf[i]] =>
             next = itemStatus /\ req[ReqOf[i]] \notin Freed /\ ~ Regress(req[ReqOf[i]], next)
        /\ itemStatus = "received" => next \in Freed
  BY <1>1, NextMoves
<1>3. CASE i \in DOMAIN ReqOf /\ next # req[ReqOf[i]]
  <2>1. Go(p, write, sess[p].todo, next)
    BY <1>3, Zenon DEF SyncRead
  <2> HIDE DEF next
  <2> QED BY <1>0, <1>2, <1>3, <2>1, GoStep
<1>4. CASE ~ (i \in DOMAIN ReqOf /\ next # req[ReqOf[i]])
  <2>1. Continue(p, line, Rest(p), after)
    BY <1>4, Zenon DEF SyncRead
  <2> HIDE DEF next
  <2> QED BY <1>0, <1>2, <1>4, <2>1, ContinueStep
<1> QED
  BY <1>3, <1>4

LEMMA OrderReadsSound ==
  ASSUME TypeInv, NEW p \in Procs, Sound(p), OrderList(p) \/ OrderLine(p)
  PROVE  Sound(p)'
<1>0. Shape
  BY TypesKnown
<1>a. /\ Unmoved /\ sess[p].pc \in {"orderList", "orderLine"} /\ req' = req
  BY DEF Unmoved, OrderList, OrderLine, At
<1>1. Held(p)'
  <2>1. CASE sess'[p].pc \in {"idle", "orderLine"}
    BY <2>1 DEF Held, Charging
  <2>2. CASE OrderList(p)
    <3>1. sess'[p].pc \in {"idle", "orderLine"}
      BY <1>0, <2>2, ContinueStep DEF OrderList
    <3> QED BY <2>1, <3>1
  <2>3. CASE OrderLine(p)
    <3>1. CASE Done(p)
      BY <1>0, <2>1, <3>1, DoneStep
    <3>2. CASE SyncRead(p, "ordered", "orderLine", "orderWrite", "idle")
      <4>1. "ordered" \in Receiving
        BY DEF Receiving
      <4>2. \/ sess'[p].pc \in {"idle", "orderLine"}
            \/ /\ sess'[p].pc = "orderWrite" /\ sess'[p].todo = sess[p].todo
               /\ sess'[p].arg = "ordered"
               /\ req[ReqOf[This(p)]] \notin Freed /\ ~ Regress(req[ReqOf[This(p)]], "ordered")
        BY <3>2, <4>1, SyncGoes
      <4>3. CASE sess'[p].pc = "orderWrite"
        <5>1. This(p)' = This(p)
          BY <4>2, <4>3 DEF This
        <5> QED BY <1>a, <4>2, <4>3, <5>1 DEF Held, Charging
      <4> QED BY <2>1, <4>2, <4>3
    <3> QED BY <2>3, <3>1, <3>2 DEF OrderLine
  <2> QED BY <2>2, <2>3
<1> QED
  BY <1>a, <1>1, ReadSound DEF Charging

LEMMA CancelListSound ==
  ASSUME TypeInv, NEW p \in Procs, Sound(p), CancelList(p)
  PROVE  Sound(p)'
<1> DEFINE marks == {[item |-> e.item, n |-> e.n] : e \in costs}
<1>0. Shape /\ IsFiniteSet(costs)
  BY TypesKnown DEF DataOK
<1>a. /\ Unmoved /\ sess[p].pc = "uncostList" /\ po' = po /\ costs' = costs
      /\ Continue(p, "uncost", SetToSeq(marks), "idle")
  BY DEF Unmoved, CancelList, At
<1>b. po.status = "cancelled"
  BY <1>a DEF Sound, Held
<1>1. ToSet(SetToSeq(marks)) = marks
  <2>1. [e \in costs |-> [item |-> e.item, n |-> e.n]] \in Surjection(costs, marks)
    BY DEF Surjection
  <2> HIDE DEF marks
  <2> QED BY <1>0, <2>1, FS_Surjection, ListedSet
<1>2. \A e \in costs : [item |-> e.item, n |-> e.n] \in marks
  OBVIOUS
<1> HIDE DEF marks
<1>3. /\ sess'[p].pc = (IF SetToSeq(marks) = <<>> THEN "idle" ELSE "uncost")
      /\ sess'[p].todo = SetToSeq(marks)
  BY <1>0, <1>a, ContinueStep
<1>4. SetToSeq(marks) = <<>> => costs = {}
  BY <1>1, <1>2, EmptyList
<1>5. Held(p)'
  BY <1>a, <1>b, <1>1, <1>2, <1>3 DEF Held, Charging
<1> QED
  BY <1>a, <1>b, <1>3, <1>4, <1>5, ReadSound DEF Charging, Open

LEMMA DeriveReadSound ==
  ASSUME TypeInv, NEW p \in Procs, Sound(p), DeriveRead(p)
  PROVE  Sound(p)'
<1>0. Shape
  BY TypesKnown
<1>a. /\ Unmoved /\ sess[p].pc = "derive" /\ po' = po
  BY DEF Unmoved, DeriveRead, At
<1>b. Derived' = Derived
  BY <1>a, UnmovedSame
<1>1. CASE Derived = po.status
  <2>1. sess'[p].pc = "idle"
    BY <1>0, <1>1, DoneStep DEF DeriveRead
  <2>2. Held(p)'
    BY <2>1 DEF Held, Charging
  <2> QED BY <1>a, <2>1, <2>2, ReadSound DEF Charging
<1>2. CASE Derived # po.status
  <2>1. sess'[p].pc = "deriveWrite" /\ sess'[p].arg = Derived
    BY <1>0, <1>2, GoStep DEF DeriveRead
  <2>2. Held(p)'
    BY <1>a, <1>b, <1>2, <2>1 DEF Held, Charging
  <2> QED BY <1>a, <2>1, <2>2, ReadSound DEF Charging
<1> QED
  BY <1>1, <1>2

LEMMA ReadsSound ==
  ASSUME TypeInv, calm, NEW p \in Procs, Sound(p), Reads(p)
  PROVE  Sound(p)'
  BY StartsSound, CostReadsSound, OrderReadsSound, CancelListSound, DeriveReadSound, Zenon
  DEF Reads, Crash

(***************************************************************************)
(* When requests do not overlap: the writes                                *)
(***************************************************************************)

\* Deliveries and requirements are as they were, and the order's lines too.
LEMMA StillUnblocked ==
  ASSUME NEW p \in Procs, Unblocked(p), UNCHANGED <<received, req>>,
         sess[p].pc \notin {"receiptLine", "receiptWrite"}
  PROVE  Unblocked(p)'
<1>1. \A i : Full(i)' = Full(i)
  BY DEF Full
<1> QED
  BY <1>1 DEF Unblocked

LEMMA CreateSound ==
  ASSUME TypeInv, NEW p \in Procs, Sound(p), NEW list \in ItemLists, CreateInsert(p, list)
  PROVE  Sound(p)'
<1>0. Shape /\ po \in [status : DOMAIN Allowed, priced : ItemLists \cup {<<>>},
            stamped : BOOLEAN, taxed : BOOLEAN]
  BY TypesKnown DEF DataOK
<1>1. /\ UNCHANGED <<items, costs, made, received, req>> /\ po.status = "none"
      /\ po'.status = "draft" /\ po'.priced = list
      /\ sess[p].pc = "idle"
  BY <1>0 DEF CreateInsert, Starts, At
<1>2. sess'[p].pc = "createItems" /\ sess'[p].todo = list
  BY <1>0, GoStep DEF CreateInsert
<1>3. items = <<>> /\ costs = {}
  BY <1>1 DEF Sound, Started, Uncharged, Open
<1>4. Started' /\ Priced(p)' /\ Stamped(p)' /\ Uncharged(p)' /\ Charged(p)' /\ Counted'
  BY <1>1, <1>2, <1>3 DEF Started, Priced, Stamped, Uncharged, Charged, Counted, Open
<1>5. Within' /\ Unblocked(p)'
  BY <1>1, StillUnblocked DEF Sound, Within
<1>6. Held(p)'
  BY <1>1, <1>2, <1>3 DEF Held, Charging
<1> QED
  BY <1>4, <1>5, <1>6 DEF Sound

\* The first lines are always accepted: the order had none to protect.
LEMMA CreateItemsSound ==
  ASSUME TypeInv, NEW p \in Procs, Sound(p), CreateItems(p)
  PROVE  Sound(p)'
<1>0. Shape
  BY TypesKnown
<1>1. /\ UNCHANGED <<po, costs, made, received, req>> /\ sess[p].pc = "createItems" /\ Done(p)
  BY DEF CreateItems, ReplaceItems, At
<1>2. items = <<>> /\ po.status = "draft" /\ po.priced = sess[p].todo /\ costs = {}
  BY <1>1 DEF Sound, Held, Uncharged, Open
<1>3. items' = sess[p].todo
  BY <1>2, EmptyList DEF CreateItems, ReplaceItems
<1>4. sess'[p].pc = "idle"
  BY <1>0, <1>1, DoneStep
<1>5. Started' /\ Priced(p)' /\ Stamped(p)' /\ Uncharged(p)' /\ Charged(p)' /\ Counted'
  BY <1>1, <1>2, <1>3, <1>4 DEF Started, Priced, Stamped, Uncharged, Charged, Counted, Open
<1>6. Within' /\ Unblocked(p)'
  BY <1>1, StillUnblocked DEF Sound, Within
<1>7. Held(p)'
  BY <1>4 DEF Held, Charging
<1> QED
  BY <1>5, <1>6, <1>7 DEF Sound

LEMMA EditItemsSound ==
  ASSUME TypeInv, NEW p \in Procs, Sound(p), EditItems(p)
  PROVE  Sound(p)'
<1>0. Shape
  BY TypesKnown
<1>1. /\ UNCHANGED <<po, costs, made, received, req>> /\ sess[p].pc = "editItems"
  BY DEF EditItems, ReplaceItems, At
<1>2. po.status = "draft" /\ po.priced = items /\ costs = {}
  BY <1>1 DEF Sound, Held, Priced, Uncharged, Open
<1>3. \/ sess'[p].pc = "idle" /\ items' = items
      \/ sess'[p].pc = "reprice" /\ items' = sess[p].todo /\ sess'[p].todo = sess[p].todo
  BY <1>0, DoneStep, GoStep DEF EditItems, ReplaceItems
<1>4. Started' /\ Priced(p)' /\ Stamped(p)' /\ Uncharged(p)' /\ Charged(p)' /\ Counted'
  BY <1>1, <1>2, <1>3 DEF Started, Priced, Stamped, Uncharged, Charged, Counted, Open
<1>5. Within' /\ Unblocked(p)'
  BY <1>1, StillUnblocked DEF Sound, Within
<1>6. Held(p)'
  BY <1>1, <1>2, <1>3 DEF Held, Charging
<1> QED
  BY <1>4, <1>5, <1>6 DEF Sound

LEMMA EditTotalsSound ==
  ASSUME TypeInv, NEW p \in Procs, Sound(p), EditTotals(p)
  PROVE  Sound(p)'
<1>0. Shape /\ po \in [status : DOMAIN Allowed, priced : ItemLists \cup {<<>>},
            stamped : BOOLEAN, taxed : BOOLEAN]
  BY TypesKnown DEF DataOK
<1>1. /\ UNCHANGED <<items, costs, made, received, req>> /\ sess[p].pc = "reprice" /\ Done(p)
      /\ po'.status = po.status /\ po'.priced = sess[p].todo
  BY <1>0 DEF EditTotals, SetPriced, At
<1>2. po.status = "draft" /\ items = sess[p].todo /\ costs = {}
  BY <1>1 DEF Sound, Held, Uncharged, Open
<1>3. sess'[p].pc = "idle"
  BY <1>0, <1>1, DoneStep
<1>4. Started' /\ Priced(p)' /\ Stamped(p)' /\ Uncharged(p)' /\ Charged(p)' /\ Counted'
  BY <1>1, <1>2, <1>3 DEF Started, Priced, Stamped, Uncharged, Charged, Counted, Open
<1>5. Within' /\ Unblocked(p)'
  BY <1>1, StillUnblocked DEF Sound, Within
<1>6. Held(p)'
  BY <1>3 DEF Held, Charging
<1> QED
  BY <1>4, <1>5, <1>6 DEF Sound

LEMMA EditFieldsSound ==
  ASSUME TypeInv, NEW p \in Procs, Sound(p), EditFields(p)
  PROVE  Sound(p)'
<1>0. Shape /\ po \in [status : DOMAIN Allowed, priced : ItemLists \cup {<<>>},
                       stamped : BOOLEAN, taxed : BOOLEAN]
  BY TypesKnown DEF DataOK
<1>1. /\ UNCHANGED <<items, costs, made, received, req>> /\ sess[p].pc = "fields" /\ Done(p)
      /\ po'.status = po.status /\ po'.priced = po.priced
  BY <1>0 DEF EditFields, At
<1>2. po.status = "draft" /\ po.priced = items /\ costs = {}
  BY <1>1 DEF Sound, Held, Priced, Uncharged, Open
<1>3. sess'[p].pc = "idle"
  BY <1>0, <1>1, DoneStep
<1>4. Started' /\ Priced(p)' /\ Stamped(p)' /\ Uncharged(p)' /\ Charged(p)' /\ Counted'
  BY <1>1, <1>2, <1>3 DEF Started, Priced, Stamped, Uncharged, Charged, Counted, Open
<1>5. Within' /\ Unblocked(p)'
  BY <1>1, StillUnblocked DEF Sound, Within
<1>6. Held(p)'
  BY <1>3 DEF Held, Charging
<1> QED
  BY <1>4, <1>5, <1>6 DEF Sound

\* The three statuses a user asks for.
LEMMA AskedStatusSound ==
  ASSUME TypeInv, NEW p \in Procs, Sound(p), ApproveCommit(p) \/ OrderCommit(p) \/ CancelCommit(p)
  PROVE  Sound(p)'
<1>0. Shape /\ po \in [status : DOMAIN Allowed, priced : ItemLists \cup {<<>>},
            stamped : BOOLEAN, taxed : BOOLEAN]
  BY TypesKnown DEF DataOK
<1>1. /\ UNCHANGED <<items, costs, made, received, req>>
      /\ po'.priced = po.priced /\ po'.stamped = po.stamped
      /\ sess[p].pc \in {"approve", "order", "cancel"}
  BY <1>0 DEF ApproveCommit, OrderCommit, CancelCommit, SetStatus, At
<1>2. /\ po.status # "none" /\ po.priced = items
  <2>1. po.status \in DOMAIN Allowed /\ "cancelled" \notin Allowed["none"]
    BY <1>0 DEF Allowed
  <2>2. po.status # "none"
    BY <1>1, <2>1 DEF Sound, Held
  <2> QED BY <1>1, <2>2 DEF Sound, Priced
<1>3. Within' /\ Unblocked(p)'
  BY <1>1, StillUnblocked DEF Sound, Within
<1>4. CASE ApproveCommit(p)
  <2>1. /\ sess[p].pc = "approve" /\ po'.status = "approved"
        /\ sess'[p].pc = "costList" /\ sess'[p].arg = "none"
    BY <1>0, <1>4, GoStep DEF ApproveCommit, SetStatus, At
  <2>2. costs = {}
    BY <2>1 DEF Sound, Held, Uncharged, Open
  <2>3. NoneTwice'
    BY <1>1, <2>2 DEF NoneTwice, Entries
  <2>4. Started' /\ Priced(p)' /\ Stamped(p)' /\ Uncharged(p)' /\ Charged(p)' /\ Counted'
    BY <1>1, <1>2, <2>1 DEF Started, Priced, Stamped, Uncharged, Charged, Counted, Open, Charging
  <2>5. Held(p)'
    BY <2>1, <2>3 DEF Held, Charging
  <2> QED BY <1>3, <2>4, <2>5 DEF Sound
<1>5. CASE OrderCommit(p)
  <2>1. sess[p].pc = "order" /\ po'.status = "ordered" /\ sess'[p].pc = "orderList"
    BY <1>0, <1>5, GoStep DEF OrderCommit, SetStatus, At
  <2>2. po.stamped /\ AllCharged
    BY <2>1 DEF Sound, Held, Stamped, Charged, Open, Charging
  <2>3. AllCharged'
    BY <1>1, <2>2 DEF AllCharged, Single, Entries
  <2>4. Started' /\ Priced(p)' /\ Stamped(p)' /\ Uncharged(p)' /\ Charged(p)' /\ Counted'
    BY <1>1, <1>2, <2>1, <2>2, <2>3 DEF Started, Priced, Stamped, Uncharged, Charged, Counted, Open
  <2>5. Held(p)'
    BY <2>1 DEF Held, Charging
  <2> QED BY <1>3, <2>4, <2>5 DEF Sound
<1>6. CASE CancelCommit(p)
  <2>1. sess[p].pc = "cancel" /\ po'.status = "cancelled" /\ sess'[p].pc = "uncostList"
    BY <1>0, <1>6, GoStep DEF CancelCommit, SetStatus, At
  <2>2. Started' /\ Priced(p)' /\ Stamped(p)' /\ Uncharged(p)' /\ Charged(p)' /\ Counted'
    BY <1>1, <1>2, <2>1 DEF Started, Priced, Stamped, Uncharged, Charged, Counted, Open
  <2>3. Held(p)'
    BY <2>1 DEF Held, Charging
  <2> QED BY <1>3, <2>2, <2>3 DEF Sound
<1> QED
  BY <1>4, <1>5, <1>6

LEMMA StampSound ==
  ASSUME TypeInv, NEW p \in Procs, Sound(p), Stamp(p)
  PROVE  Sound(p)'
<1>0. Shape /\ po \in [status : DOMAIN Allowed, priced : ItemLists \cup {<<>>},
            stamped : BOOLEAN, taxed : BOOLEAN]
  BY TypesKnown DEF DataOK
<1>1. /\ UNCHANGED <<items, costs, made, received, req>> /\ sess[p].pc = "stamp" /\ Done(p)
      /\ po'.status = po.status /\ po'.priced = po.priced /\ po'.stamped = TRUE
  BY <1>0 DEF Stamp, At
<1>2. po.status = "approved" /\ po.priced = items /\ AllCharged
  BY <1>1 DEF Sound, Held, Priced, Charged, Open, Charging
<1>3. sess'[p].pc = "idle" /\ AllCharged'
  BY <1>0, <1>1, <1>2, DoneStep DEF AllCharged, Single, Entries
<1>4. Started' /\ Priced(p)' /\ Stamped(p)' /\ Uncharged(p)' /\ Charged(p)' /\ Counted'
  BY <1>1, <1>2, <1>3 DEF Started, Priced, Stamped, Uncharged, Charged, Counted, Open
<1>5. Within' /\ Unblocked(p)'
  BY <1>1, StillUnblocked DEF Sound, Within
<1>6. Held(p)'
  BY <1>3 DEF Held, Charging
<1> QED
  BY <1>4, <1>5, <1>6 DEF Sound

LEMMA CostCreateSound ==
  ASSUME TypeInv, NEW p \in Procs, Sound(p), CostCreate(p)
  PROVE  Sound(p)'
<1>i. PICK i : i = This(p)
  OBVIOUS
<1> DEFINE new == [item |-> i, n |-> made'[i], state |-> "committed"]
<1>0. Shape /\ items \in Seq(Items)
  BY TypesKnown
<1>1. /\ sess[p].pc = "costCreate" /\ UNCHANGED <<po, items, received, req>>
      /\ sess[p].todo \in Seq(Items) /\ sess[p].todo # <<>>
  BY DEF CostCreate, At, TypeInv, Typed, Loops
<1>2. /\ po.status = "approved" /\ po.priced = items /\ NoneTwice /\ Entries(i) = {}
      /\ sess[p].arg = "again" => po.stamped
      /\ ToSet(sess[p].todo) \subseteq ToSet(items)
      /\ \A j \in ToSet(items) : Entries(j) # {} \/ j \in ToSet(sess[p].todo)
  BY <1>1, <1>i DEF Sound, Held, Priced, Charging
<1>3. /\ Rest(p) \in Seq(Items) /\ i \in ToSet(items)
      /\ ToSet(sess[p].todo) = {i} \cup ToSet(Rest(p))
  BY <1>1, <1>2, <1>i, Walks DEF Rest, This
<1>4. costs' = costs \cup {new} /\ Continue(p, "cost", Rest(p), AfterCosts(p))
  BY <1>3, <1>i DEF CostCreate
<1>5. /\ Entries(i)' = {new}
      /\ \A j : j # i => Entries(j)' = Entries(j)
  <2>1. new.item = i
    OBVIOUS
  <2> HIDE DEF new
  <2>2. {e \in costs' : e.item = i} = {new}
    BY <1>2, <1>4, <2>1 DEF Entries
  <2>3. ASSUME NEW j, j # i PROVE {e \in costs' : e.item = j} = {e \in costs : e.item = j}
    BY <1>4, <2>1, <2>3
  <2> QED BY <2>2, <2>3 DEF Entries
<1>6. NoneTwice'
  <2>1. new \in costs'
    BY <1>4
  <2> HIDE DEF new
  <2>2. ASSUME NEW j \in ToSet(items)
        PROVE  {e \in costs' : e.item = j} = {} \/ \E e \in costs' : {ee \in costs' : ee.item = j} = {e}
    <3>1. CASE j = i
      BY <1>5, <2>1, <3>1 DEF Entries
    <3>2. CASE j # i
      <4>1. Entries(j)' = Entries(j)
        BY <1>5, <3>2
      <4>2. Entries(j) = {} \/ \E e \in costs : Entries(j) = {e}
        BY <1>2, <2>2 DEF NoneTwice, Single
      <4>3. costs \subseteq costs'
        BY <1>4
      <4> QED BY <4>1, <4>2, <4>3 DEF Entries
    <3> QED BY <3>1, <3>2
  <2> QED BY <1>1, <2>2 DEF NoneTwice, Single, Entries
<1>7. \A j \in ToSet(items) : Entries(j)' # {} \/ j \in ToSet(Rest(p))
  <2> HIDE DEF new
  <2> QED BY <1>2, <1>3, <1>5
<1>8. /\ sess'[p].pc = (IF Rest(p) = <<>> THEN AfterCosts(p) ELSE "cost") /\ sess'[p].todo = Rest(p)
      /\ sess'[p].arg = sess[p].arg \/ sess'[p].arg = "none"
  BY <1>0, <1>4, ContinueStep
<1>9. AfterCosts(p) = (IF sess[p].arg = "again" THEN "idle" ELSE "stamp")
  BY DEF AfterCosts
<1>10. Rest(p) = <<>> => AllCharged'
  <2>1. ASSUME Rest(p) = <<>>, NEW j \in ToSet(items)
        PROVE  \E e \in costs' : {ee \in costs' : ee.item = j} = {e}
    <3>1. {e \in costs' : e.item = j} # {}
      BY <1>7, <2>1, EmptyList DEF Entries
    <3> QED BY <1>1, <1>6, <2>1, <3>1 DEF NoneTwice, Single, Entries
  <2> QED BY <1>1, <2>1 DEF AllCharged, Single, Entries
<1>11. sess'[p].pc \in {"cost", "stamp", "idle"}
  BY <1>8, <1>9
<1>12. Started' /\ Priced(p)' /\ Stamped(p)' /\ Uncharged(p)' /\ Charged(p)' /\ Counted'
  <2>1. Started' /\ Priced(p)' /\ Uncharged(p)' /\ Counted'
    BY <1>1, <1>2 DEF Started, Priced, Uncharged, Counted, Open
  <2>2. Stamped(p)'
    BY <1>1, <1>2, <1>8, <1>9 DEF Stamped, Charging
  <2>3. Charged(p)'
    BY <1>8, <1>10 DEF Charged, Charging
  <2> QED BY <2>1, <2>2, <2>3
<1>13. Within' /\ Unblocked(p)'
  BY <1>1, StillUnblocked DEF Sound, Within
<1>14. Held(p)'
  <2>1. sess'[p].arg = "again" => po.stamped
    BY <1>2, <1>8
  <2>2. /\ ToSet(sess'[p].todo) \subseteq ToSet(items)
        /\ \A j \in ToSet(items) : Entries(j)' # {} \/ j \in ToSet(sess'[p].todo)
    BY <1>2, <1>3, <1>7, <1>8
  <2> QED BY <1>1, <1>2, <1>6, <1>11, <2>1, <2>2 DEF Held, Charging
<1> QED
  BY <1>12, <1>13, <1>14 DEF Sound

\* Writes of requirements alone leave the order, its costs and its deliveries.
LEMMA RequirementSound ==
  ASSUME NEW p \in Procs, Sound(p), UNCHANGED <<po, items, costs, made, received>>,
         sess[p].pc \notin Charging \cup {"createItems", "reprice", "stamp", "uncostList", "uncost"},
         Unblocked(p)', Held(p)'
  PROVE  Sound(p)'
<1>1. AllCharged' = AllCharged
  BY DEF AllCharged, Single, Entries
<1>2. /\ po.status # "none" => po.priced = items
      /\ po.status \notin Open => po.stamped /\ AllCharged
      /\ po.status \in Open => costs = {}
      /\ Started /\ Counted /\ Within
  BY DEF Sound, Priced, Stamped, Uncharged, Charged, Charging
<1>3. Started' /\ Priced(p)' /\ Stamped(p)' /\ Uncharged(p)' /\ Charged(p)' /\ Counted'
  BY <1>1, <1>2 DEF Started, Priced, Stamped, Uncharged, Charged, Counted
<1>4. Within'
  BY <1>2 DEF Within
<1> QED
  BY <1>3, <1>4 DEF Sound

LEMMA OrderWriteSound ==
  ASSUME TypeInv, NEW p \in Procs, Sound(p), OrderWrite(p)
  PROVE  Sound(p)'
<1> DEFINE r == ReqOf[This(p)]
<1>0. Shape /\ req \in [Requirements -> ReqStatuses]
  BY TypesKnown DEF DataOK
<1>1. /\ sess[p].pc = "orderWrite" /\ UNCHANGED <<po, items, costs, made, received>>
      /\ req' = [req EXCEPT ![r] = sess[p].arg] /\ Continue(p, "orderLine", Rest(p), "idle")
  BY DEF OrderWrite, SyncWrite, At
<1>2. req[r] \notin Freed
  BY <1>1 DEF Sound, Held
<1>3. sess'[p].pc \in {"orderLine", "idle"}
  BY <1>0, <1>1, ContinueStep
<1>4. Held(p)'
  BY <1>3 DEF Held, Charging
<1>5. Unblocked(p)'
  <2>1. \A i : Full(i)' = Full(i)
    BY <1>1 DEF Full
  <2>2. \A i \in DOMAIN ReqOf : ReqOf[i] \in Requirements
    BY ProcurementAssumption
  <2>3. \A i \in DOMAIN ReqOf : ReqOf[i] # r => req'[ReqOf[i]] = req[ReqOf[i]]
    BY <1>0, <1>1, <2>2
  <2>4. UsersFree => \A i \in DOMAIN ReqOf : ~ Full(i) \/ req[ReqOf[i]] \in Freed
    BY <1>1 DEF Sound, Unblocked
  <2> HIDE DEF r
  <2>5. UsersFree => \A i \in DOMAIN ReqOf : ~ Full(i) \/ req'[ReqOf[i]] \in Freed
    BY <1>2, <2>3, <2>4
  <2> QED BY <2>1, <2>5 DEF Unblocked
<1> QED
  BY <1>1, <1>4, <1>5, RequirementSound DEF Charging

LEMMA AllocateWriteSound ==
  ASSUME TypeInv, NEW p \in Procs, Sound(p), AllocateWrite(p)
  PROVE  Sound(p)'
<1>0. Shape /\ req \in [Requirements -> ReqStatuses]
  BY TypesKnown DEF DataOK
<1>1. /\ sess[p].pc = "allocate" /\ UNCHANGED <<po, items, costs, made, received>>
      /\ req' = [req EXCEPT ![This(p)] = "allocated"] /\ Done(p)
  BY DEF AllocateWrite, At
<1>2. sess'[p].pc = "idle"
  BY <1>0, <1>1, DoneStep
<1>3. Held(p)'
  BY <1>2 DEF Held, Charging
<1>4. Unblocked(p)'
  <2>1. \A i : Full(i)' = Full(i)
    BY <1>1 DEF Full
  <2>2. \A q \in Requirements : req'[q] = req[q] \/ req'[q] \in Freed
    BY <1>0, <1>1 DEF Freed
  <2>3. UsersFree => \A i \in DOMAIN ReqOf : ~ Full(i) \/ req[ReqOf[i]] \in Freed
    BY <1>1 DEF Sound, Unblocked
  <2>4. \A i \in DOMAIN ReqOf : ReqOf[i] \in Requirements
    BY ProcurementAssumption
  <2> QED BY <2>1, <2>2, <2>3, <2>4 DEF Unblocked
<1> QED
  BY <1>1, <1>3, <1>4, RequirementSound DEF Charging

LEMMA TouchSound ==
  ASSUME TypeInv, NEW p \in Procs, Sound(p), Touches(p)
  PROVE  Sound(p)'
<1>1. /\ UNCHANGED <<po, items, costs, made, received, sess>> /\ sess[p].pc = "idle"
      /\ \A r \in Requirements : req'[r] = req[r] \/ req'[r] = "cancelled" \/ req'[r] \in UserStatuses
  BY TouchesKeepTypes DEF At
<1>2. Held(p)'
  BY <1>1 DEF Held, Charging
<1>3. Unblocked(p)'
  <2>1. \A i : Full(i)' = Full(i)
    BY <1>1 DEF Full
  <2>2. UsersFree => \A q \in Requirements : req'[q] = req[q] \/ req'[q] \in Freed
    BY <1>1 DEF Freed, UsersFree
  <2>3. UsersFree => \A i \in DOMAIN ReqOf : ~ Full(i) \/ req[ReqOf[i]] \in Freed
    BY <1>1 DEF Sound, Unblocked
  <2>4. \A i \in DOMAIN ReqOf : ReqOf[i] \in Requirements
    BY ProcurementAssumption
  <2> QED BY <2>1, <2>2, <2>3, <2>4 DEF Unblocked
<1> QED
  BY <1>1, <1>2, <1>3, RequirementSound DEF Charging

LEMMA CancelDeleteSound ==
  ASSUME TypeInv, NEW p \in Procs, Sound(p), CancelDelete(p)
  PROVE  Sound(p)'
<1>0. /\ Shape
      /\ costs \subseteq [item : Items, n : 1..MaxEntries, state : {"committed", "actual"}]
  BY TypesKnown DEF DataOK
<1>1. /\ sess[p].pc = "uncost" /\ UNCHANGED <<po, items, made, received, req>>
      /\ costs' = {e \in costs : <<e.item, e.n>> # <<This(p).item, This(p).n>>}
      /\ Continue(p, "uncost", Rest(p), "idle")
      /\ sess[p].todo \in Seq(Marks) /\ sess[p].todo # <<>>
  BY DEF CancelDelete, DeleteEntry, At, TypeInv, Typed
<1>2. /\ po.status = "cancelled" /\ po.priced = items
      /\ \A e \in costs : [item |-> e.item, n |-> e.n] \in ToSet(sess[p].todo)
  BY <1>1 DEF Sound, Held, Priced
<1>3. ToSet(sess[p].todo) = {This(p)} \cup ToSet(Rest(p))
  BY <1>1, Walks DEF Rest, This
<1>4. /\ sess'[p].pc = (IF Rest(p) = <<>> THEN "idle" ELSE "uncost") /\ sess'[p].todo = Rest(p)
  BY <1>0, <1>1, ContinueStep
<1>5. \A e \in costs' : [item |-> e.item, n |-> e.n] \in ToSet(Rest(p))
  <2>1. ASSUME NEW e \in costs' PROVE [item |-> e.item, n |-> e.n] \in ToSet(Rest(p))
    <3>1. e \in costs /\ <<e.item, e.n>> # <<This(p).item, This(p).n>>
      BY <1>1, <2>1
    <3>2. [item |-> e.item, n |-> e.n] # This(p)
      BY <3>1
    <3> QED BY <1>2, <1>3, <3>1, <3>2
  <2> QED BY <2>1
<1>6. Rest(p) = <<>> => costs' = {}
  BY <1>5, EmptyList
<1>7. Started' /\ Priced(p)' /\ Stamped(p)' /\ Uncharged(p)' /\ Charged(p)' /\ Counted'
  BY <1>1, <1>2, <1>4, <1>6 DEF Started, Priced, Stamped, Uncharged, Charged, Counted, Open
<1>8. Within' /\ Unblocked(p)'
  BY <1>1, StillUnblocked DEF Sound, Within
<1>9. Held(p)'
  BY <1>1, <1>2, <1>4, <1>5 DEF Held, Charging
<1> QED
  BY <1>7, <1>8, <1>9 DEF Sound

\* What a delivery adds to a line.
LEMMA DeliveredTo ==
  ASSUME NEW d \in Deliveries, NEW i
  PROVE  /\ DeliveredOf(d, i) # 0 => \E k \in DOMAIN d : d[k].item = i
         /\ OneLineEach => \A k \in DOMAIN d : d[k].item = i => DeliveredOf(d, i) <= d[k].quantity
<1> DEFINE w == [k \in DOMAIN d |-> IF d[k].item = i THEN d[k].quantity ELSE 0]
<1>1. /\ d \in Seq([item : Items, quantity : Nat \ {0}])
      /\ \A k \in DOMAIN d : d[k].quantity \in Nat \ {0}
  BY DeliveriesAre
<1>2. Len(d) \in Nat /\ DOMAIN d = 1 .. Len(d)
  BY <1>1
<1>3. w \in Seq(Nat) /\ Len(w) = Len(d)
  BY <1>1, <1>2
<1>4. \A k \in 1 .. Len(w) : w[k] = IF d[k].item = i THEN d[k].quantity ELSE 0
  BY <1>2, <1>3
<1>5. DeliveredOf(d, i) = Total(w)
  BY DEF DeliveredOf
<1> HIDE DEF w
<1>6. ASSUME Total(w) # 0
      PROVE  \E k \in DOMAIN d : d[k].item = i
  <2>1. PICK k \in 1 .. Len(w) : w[k] > 0
    BY <1>3, <1>6, TotalOfNone
  <2> QED BY <1>2, <1>3, <1>4, <2>1
<1>7. ASSUME OneLineEach, NEW j \in DOMAIN d, d[j].item = i
      PROVE  Total(w) <= d[j].quantity
  <2>1. \A k \in DOMAIN d : d[k].item = i => k = j
    BY <1>7 DEF OneLineEach
  <2>2. d[j].quantity \in Nat
    BY <1>1, <1>7
  <2>3. \A k \in 1 .. Len(w) : (k = j => w[k] <= d[j].quantity) /\ (k # j => w[k] = 0)
    BY <1>2, <1>3, <1>4, <1>7, <2>1, <2>2
  <2> QED BY <1>3, <2>2, <2>3, TotalOfOne
<1> QED
  BY <1>5, <1>6, <1>7

LEMMA ReceiptCommitSound ==
  ASSUME TypeInv, TypeInv', NEW p \in Procs, Sound(p), ReceiptCommit(p)
  PROVE  Sound(p)'
<1>d. PICK d : d = sess[p].todo
  OBVIOUS
<1> DEFINE lines == [k \in DOMAIN d |-> d[k].item]
<1>0. /\ Shape /\ items \in Seq(Items) /\ ToSet(items) \subseteq Items
      /\ received \in [Items -> Nat] /\ Quantity \in [Items -> Nat]
  BY TypesKnown, ProcurementAssumption DEF DataOK
<1>1. /\ sess[p].pc = "receive" /\ UNCHANGED <<po, items, costs, made, req>> /\ d \in Deliveries
  BY <1>d DEF ReceiptCommit, At, TypeInv, Typed
<1>2. \A k \in DOMAIN d : received[d[k].item] + d[k].quantity <= Quantity[d[k].item]
  BY <1>1, <1>d DEF Sound, Held, Fits
<1>3. /\ lines \in Seq(Items)
      /\ ToSet(lines) = {d[k].item : k \in DOMAIN d}
      /\ \A k \in DOMAIN d : d[k].item \in Items /\ d[k].quantity \in Nat \ {0}
  BY <1>1, DeliveriesAre
<1> HIDE DEF lines
<1>4. AllCharged' = AllCharged
  BY <1>1 DEF AllCharged, Single, Entries
<1>5. /\ sess'[p].pc \in {"idle", "receiptLine"} => Held(p)'
  BY DEF Held, Charging
<1>6. CASE UNCHANGED received /\ Done(p)
  <2>1. sess'[p].pc = "idle"
    BY <1>0, <1>6, DoneStep
  <2>2. Started' /\ Priced(p)' /\ Stamped(p)' /\ Uncharged(p)' /\ Charged(p)' /\ Counted'
    BY <1>1, <1>4, <1>6, <2>1
    DEF Sound, Started, Priced, Stamped, Uncharged, Charged, Counted, Charging, SumOver
  <2>3. Within' /\ Unblocked(p)'
    BY <1>1, <1>6, StillUnblocked DEF Sound, Within
  <2> QED BY <1>5, <2>1, <2>2, <2>3 DEF Sound
<1>7. CASE /\ received' = [i \in Items |-> received[i] + DeliveredOf(d, i)]
           /\ Go(p, "receiptLine", lines, "none")
  <2>1. sess'[p].pc = "receiptLine" /\ sess'[p].todo = lines
    BY <1>0, <1>7, GoStep
  <2>2. received' \in [Items -> Nat]
    BY DEF TypeInv, TypeOK
  <2>3. \A i \in Items : DeliveredOf(d, i) \in Nat /\ received'[i] = received[i] + DeliveredOf(d, i)
    BY <1>1, <1>7, DeliveredIsNat
  <2>4. SumOver(received, items) <= SumOver(received', items)
    <3>1. \A i \in Items : received[i] <= received'[i]
      BY <1>0, <2>3
    <3> QED BY <1>0, <2>2, <3>1, SumGrows
  <2>5. /\ SumOver(received, items) \in Nat /\ SumOver(received', items) \in Nat
    BY <1>0, <2>2, SumTyped
  <2>6. Counted'
    BY <1>1, <2>4, <2>5 DEF Sound, Counted
  <2>7. Started' /\ Priced(p)' /\ Stamped(p)' /\ Uncharged(p)' /\ Charged(p)'
    BY <1>1, <1>4, <2>1 DEF Sound, Started, Priced, Stamped, Uncharged, Charged, Charging
  <2>8. Within'
    <3>1. ASSUME OneLineEach, NEW i \in Items PROVE received'[i] <= Quantity[i]
      <4>1. received[i] <= Quantity[i] /\ received[i] \in Nat /\ Quantity[i] \in Nat
        BY <1>0, <3>1 DEF Sound, Within
      <4>2. CASE DeliveredOf(d, i) = 0
        BY <2>3, <4>1, <4>2
      <4>3. CASE DeliveredOf(d, i) # 0
        <5>1. PICK k \in DOMAIN d : d[k].item = i
          BY <1>1, <4>3, DeliveredTo
        <5>2. DeliveredOf(d, i) <= d[k].quantity
          BY <1>1, <3>1, <5>1, DeliveredTo
        <5>3. received[i] + d[k].quantity <= Quantity[i] /\ d[k].quantity \in Nat
          BY <1>2, <1>3, <5>1
        <5> QED BY <2>3, <4>1, <5>2, <5>3
      <4> QED BY <4>2, <4>3
    <3> QED BY <3>1 DEF Within
  <2>9. Unblocked(p)'
    <3>1. ASSUME UsersFree, NEW i \in DOMAIN ReqOf,
                 Quantity[i] > 0 /\ received'[i] >= Quantity[i], i \notin ToSet(lines)
          PROVE  req[ReqOf[i]] \in Freed
      <4>1. i \in Items
        BY ProcurementAssumption
      <4>2. DeliveredOf(d, i) = 0
        BY <1>1, <1>3, <3>1, DeliveredTo
      <4>3. received'[i] = received[i]
        BY <1>0, <2>3, <4>1, <4>2
      <4> QED BY <1>1, <3>1, <4>3 DEF Sound, Unblocked, Full
    <3> QED BY <1>1, <2>1, <3>1 DEF Unblocked, Full
  <2> QED BY <1>5, <2>1, <2>6, <2>7, <2>8, <2>9 DEF Sound
<1> QED
  BY <1>d, <1>6, <1>7 DEF ReceiptCommit, lines

LEMMA ReceiptLineSound ==
  ASSUME TypeInv, NEW p \in Procs, Sound(p), ReceiptLine(p)
  PROVE  Sound(p)'
<1>i. PICK i : i = This(p)
  OBVIOUS
<1>0. Shape /\ costs \subseteq [item : Items, n : 1..MaxEntries, state : {"committed", "actual"}]
  BY TypesKnown DEF DataOK
<1>1. /\ sess[p].pc = "receiptLine" /\ UNCHANGED <<po, items, made, received, req>>
      /\ sess[p].todo \in Seq(Items) /\ sess[p].todo # <<>>
  BY DEF ReceiptLine, At, TypeInv, Typed, Loops
<1>2. /\ i \in Items /\ ToSet(sess[p].todo) = {i} \cup ToSet(Rest(p))
  BY <1>1, <1>i, Walks DEF Rest, This
<1>3. /\ ItemStatus(i) \in Receiving
      /\ Full(i) => ItemStatus(i) = "received"
  BY <1>2, ItemStatusIs
<1>4. \/ /\ sess'[p].pc = "receiptWrite" /\ sess'[p].todo = sess[p].todo
         /\ sess'[p].arg = ItemStatus(i) /\ i \in DOMAIN ReqOf
         /\ req[ReqOf[i]] \notin Freed /\ ~ Regress(req[ReqOf[i]], ItemStatus(i))
      \/ /\ sess'[p].pc = (IF Rest(p) = <<>> THEN "derive" ELSE "receiptLine")
         /\ sess'[p].todo = Rest(p)
         /\ ItemStatus(i) = "received" /\ i \in DOMAIN ReqOf => req[ReqOf[i]] \in Freed
  BY <1>i, <1>3, SyncGoes DEF ReceiptLine
<1>5. \A j : Full(j)' = Full(j)
  BY <1>1 DEF Full
<1>6. Unblocked(p)'
  <2>1. ASSUME UsersFree, NEW j \in DOMAIN ReqOf, Full(j), req[ReqOf[j]] \notin Freed
        PROVE  sess'[p].pc \in {"receiptLine", "receiptWrite"} /\ j \in ToSet(sess'[p].todo)
    <3>1. j \in {i} \cup ToSet(Rest(p))
      BY <1>1, <1>2, <2>1 DEF Sound, Unblocked
    <3>2. CASE sess'[p].pc = "receiptWrite" /\ sess'[p].todo = sess[p].todo
      BY <1>2, <3>1, <3>2
    <3>3. CASE /\ sess'[p].pc = (IF Rest(p) = <<>> THEN "derive" ELSE "receiptLine")
               /\ sess'[p].todo = Rest(p)
               /\ ItemStatus(i) = "received" /\ i \in DOMAIN ReqOf => req[ReqOf[i]] \in Freed
      <4>1. j # i
        BY <1>3, <2>1, <3>3
      <4>2. Rest(p) # <<>>
        BY <3>1, <4>1, EmptyList
      <4> QED BY <3>1, <3>3, <4>1, <4>2
    <3> QED BY <1>4, <3>2, <3>3
  <2> QED BY <1>1, <1>5, <2>1 DEF Unblocked
<1>7. Held(p)'
  <2>1. CASE sess'[p].pc \in {"derive", "receiptLine"}
    BY <2>1 DEF Held, Charging
  <2>2. CASE /\ sess'[p].pc = "receiptWrite" /\ sess'[p].todo = sess[p].todo
             /\ sess'[p].arg = ItemStatus(i) /\ i \in DOMAIN ReqOf
             /\ req[ReqOf[i]] \notin Freed /\ ~ Regress(req[ReqOf[i]], ItemStatus(i))
    <3>1. This(p)' = i
      BY <1>i, <2>2 DEF This
    <3>2. Full(i)' => sess'[p].arg \in Freed
      BY <1>3, <1>5, <2>2 DEF Freed
    <3>3. (Full(This(p)))' => sess'[p].arg \in Freed
      BY <3>1, <3>2 DEF Full
    <3> QED BY <1>1, <2>2, <3>1, <3>3 DEF Held, Charging
  <2> QED BY <1>4, <2>1, <2>2
<1>8. AllCharged => AllCharged'
  <2>1. CASE costs' = costs
    BY <1>1, <2>1 DEF AllCharged, Single, Entries
  <2>2. CASE costs' # costs
    <3>1. PICK e \in Entries(i) : costs' = (costs \ {e}) \cup {[e EXCEPT !.state = "actual"]}
      BY <1>i, <2>2 DEF ReceiptLine, MarkActual
    <3>2. PICK ee : ee = [e EXCEPT !.state = "actual"]
      OBVIOUS
    <3>3. e \in costs /\ e.item = i /\ ee.item = i
      BY <1>0, <3>1, <3>2 DEF Entries
    <3>4. ASSUME NEW j \in ToSet(items), Single(j)
          PROVE  \E u \in costs' : {v \in costs' : v.item = j} = {u}
      <4>1. PICK u \in costs : {v \in costs : v.item = j} = {u}
        BY <3>4 DEF Single, Entries
      <4>2. CASE j = i
        <5>1. e = u
          BY <3>3, <4>1, <4>2
        <5>2. {v \in costs' : v.item = j} = {ee}
          BY <3>1, <3>2, <3>3, <4>1, <4>2, <5>1
        <5> QED BY <3>1, <3>2, <5>2
      <4>3. CASE j # i
        <5>1. {v \in costs' : v.item = j} = {u}
          BY <3>1, <3>2, <3>3, <4>1, <4>3
        <5> QED BY <5>1
      <4> QED BY <4>2, <4>3
    <3> QED BY <1>1, <3>4 DEF AllCharged, Single, Entries
  <2> QED BY <2>1, <2>2
<1>9. costs = {} => costs' = {}
  BY DEF ReceiptLine, MarkActual, Entries
<1>10. sess'[p].pc \in {"receiptWrite", "receiptLine", "derive"}
  BY <1>4
<1>11. Started' /\ Priced(p)' /\ Stamped(p)' /\ Uncharged(p)' /\ Charged(p)' /\ Counted' /\ Within'
  BY <1>1, <1>8, <1>9, <1>10
  DEF Sound, Started, Priced, Stamped, Uncharged, Charged, Counted, Within, Charging
<1> QED
  BY <1>6, <1>7, <1>11 DEF Sound

LEMMA ReceiptWriteSound ==
  ASSUME TypeInv, NEW p \in Procs, Sound(p), ReceiptWrite(p)
  PROVE  Sound(p)'
<1>i. PICK i, r : i = This(p) /\ r = ReqOf[i]
  OBVIOUS
<1>0. Shape /\ req \in [Requirements -> ReqStatuses]
  BY TypesKnown DEF DataOK
<1>1. /\ sess[p].pc = "receiptWrite" /\ UNCHANGED <<po, items, costs, made, received>>
      /\ req' = [req EXCEPT ![r] = sess[p].arg] /\ Continue(p, "receiptLine", Rest(p), "derive")
      /\ sess[p].todo \in Seq(Items) /\ sess[p].todo # <<>> /\ i \in DOMAIN ReqOf
  BY <1>i DEF ReceiptWrite, SyncWrite, At, TypeInv, Typed, Loops
<1>2. req[r] \notin Freed /\ (Full(i) => sess[p].arg \in Freed)
  BY <1>i, <1>1 DEF Sound, Held
<1>3. ToSet(sess[p].todo) = {i} \cup ToSet(Rest(p))
  BY <1>i, <1>1, Walks DEF Rest, This
<1>4. /\ sess'[p].pc = (IF Rest(p) = <<>> THEN "derive" ELSE "receiptLine") /\ sess'[p].todo = Rest(p)
  BY <1>0, <1>1, ContinueStep
<1>5. Held(p)'
  BY <1>4 DEF Held, Charging
<1>6. Unblocked(p)'
  <2>1. \A j : Full(j)' = Full(j)
    BY <1>1 DEF Full
  <2>2. \A j \in DOMAIN ReqOf : ReqOf[j] \in Requirements
    BY ProcurementAssumption
  <2>3. ASSUME UsersFree, NEW j \in DOMAIN ReqOf, Full(j), req'[ReqOf[j]] \notin Freed
        PROVE  sess'[p].pc = "receiptLine" /\ j \in ToSet(sess'[p].todo)
    <3>1. req[ReqOf[j]] \notin Freed
      BY <1>0, <1>1, <1>2, <2>2, <2>3
    <3>2. j \in {i} \cup ToSet(Rest(p))
      BY <1>1, <1>3, <2>3, <3>1 DEF Sound, Unblocked
    <3>3. j # i
      <4>1. ASSUME j = i PROVE FALSE
        <5>1. req'[r] = sess[p].arg
          BY <1>0, <1>1, <1>i, <2>2
        <5> QED BY <1>2, <1>i, <2>3, <4>1, <5>1
      <4> QED BY <4>1
    <3>4. Rest(p) # <<>>
      BY <3>2, <3>3, EmptyList
    <3> QED BY <1>4, <3>2, <3>3, <3>4
  <2> QED BY <2>1, <2>3 DEF Unblocked
<1> QED
  BY <1>1, <1>5, <1>6, RequirementSound DEF Charging

LEMMA DeriveWriteSound ==
  ASSUME TypeInv, NEW p \in Procs, Sound(p), DeriveWrite(p)
  PROVE  Sound(p)'
<1>0. /\ Shape /\ po \in [status : DOMAIN Allowed, priced : ItemLists \cup {<<>>},
            stamped : BOOLEAN, taxed : BOOLEAN]
      /\ received \in [Items -> Nat] /\ Quantity \in [Items -> Nat] /\ items \in Seq(Items)
      /\ SumOver(received, items) \in Nat /\ SumOver(Quantity, items) \in Nat
  BY TypesKnown, ProcurementAssumption, SumTyped DEF DataOK
<1>1. /\ sess[p].pc = "deriveWrite" /\ UNCHANGED <<items, costs, made, received, req>> /\ Done(p)
      /\ po'.priced = po.priced /\ po'.stamped = po.stamped /\ po'.status = sess[p].arg
  BY <1>0 DEF DeriveWrite, SetStatus, At
<1>2. po'.status = Derived /\ Derived # po.status
  BY <1>1 DEF Sound, Held
<1>3. /\ po.status \in Receiving /\ Derived \in Receiving
      /\ Derived \in {"partially_received", "received"} =>
           SumOver(Quantity, items) > 0 /\ SumOver(received, items) > 0
  BY <1>0, <1>2 DEF Derived, DerivePoStatus, Receiving
<1>4. po.stamped /\ AllCharged /\ po.priced = items
  BY <1>1, <1>3 DEF Sound, Stamped, Charged, Priced, Charging, Open, Receiving
<1>5. sess'[p].pc = "idle" /\ AllCharged'
  BY <1>0, <1>1, <1>4, DoneStep DEF AllCharged, Single, Entries
<1>6. Started' /\ Priced(p)' /\ Stamped(p)' /\ Uncharged(p)' /\ Charged(p)'
  BY <1>1, <1>2, <1>3, <1>4, <1>5 DEF Started, Priced, Stamped, Uncharged, Charged, Open, Receiving
<1>7. Counted'
  BY <1>1, <1>2, <1>3 DEF Counted
<1>8. Within' /\ Unblocked(p)'
  BY <1>1, StillUnblocked DEF Sound, Within
<1>9. Held(p)'
  BY <1>5 DEF Held, Charging
<1> QED
  BY <1>6, <1>7, <1>8, <1>9 DEF Sound

(***************************************************************************)
(* When requests do not overlap: the order                                 *)
(***************************************************************************)

LEMMA WritesSound ==
  ASSUME TypeInv, TypeInv', NEW p \in Procs, Sound(p), Writes(p)
  PROVE  Sound(p)'
  BY CreateSound, CreateItemsSound, EditItemsSound, EditTotalsSound, EditFieldsSound,
     AskedStatusSound,
     CostCreateSound, StampSound, OrderWriteSound, CancelDeleteSound, ReceiptCommitSound,
     ReceiptLineSound, ReceiptWriteSound, DeriveWriteSound, AllocateWriteSound, Zenon
  DEF Writes

LEMMA SessionSound ==
  ASSUME TypeInv, TypeInv', calm, NEW p \in Procs, Sound(p), Session(p)
  PROVE  Sound(p)'
  BY SessionIs, ReadsSound, WritesSound, TouchSound

\* Without overlap a request starts only when none is in progress.
LEMMA StartsAtRest ==
  ASSUME calm, NEW p \in Procs, Session(p), At(p, "idle")
  PROVE  AtRest
<1>1. ASSUME NEW list \in ItemLists, CreateInsert(p, list) \/ EditRead(p, list) PROVE AtRest
  BY <1>1 DEF CreateInsert, EditRead, Starts
<1>2. ASSUME NEW d \in Deliveries, ReceiptRead(p, d) PROVE AtRest
  BY <1>2 DEF ReceiptRead, Starts
<1>3. ASSUME NEW r \in Requirements,
             AllocateRead(p, r) \/ CancelRequirement(p, r) \/ UpdateRequirement(p, r)
      PROVE  AtRest
  BY <1>3 DEF AllocateRead, CancelRequirement, UpdateRequirement, Starts
<1>4. FieldsRead(p) \/ ApproveRead(p) \/ OrderRead(p) \/ CancelRead(p) => AtRest
  BY DEF FieldsRead, ApproveRead, OrderRead, CancelRead, Starts
<1>5. /\ ~ CreateItems(p) /\ ~ EditItems(p) /\ ~ EditTotals(p) /\ ~ EditFields(p)
      /\ ~ ApproveCommit(p)
      /\ ~ CostList(p) /\ ~ CostCheck(p) /\ ~ CostCreate(p) /\ ~ Stamp(p)
  BY DEF CreateItems, EditItems, EditTotals, SetPriced, EditFields, ApproveCommit, CostList, CostCheck,
         CostCreate, Stamp, At
<1>6. /\ ~ OrderCommit(p) /\ ~ OrderList(p) /\ ~ OrderLine(p) /\ ~ OrderWrite(p)
      /\ ~ CancelCommit(p) /\ ~ CancelList(p) /\ ~ CancelDelete(p)
  BY DEF OrderCommit, OrderList, OrderLine, OrderWrite, SyncWrite, CancelCommit, CancelList,
         CancelDelete, DeleteEntry, At
<1>7. /\ ~ ReceiptCommit(p) /\ ~ ReceiptLine(p) /\ ~ ReceiptWrite(p) /\ ~ DeriveRead(p)
      /\ ~ DeriveWrite(p) /\ ~ AllocateWrite(p) /\ ~ Crash(p)
  BY DEF ReceiptCommit, ReceiptLine, ReceiptWrite, SyncWrite, DeriveRead, DeriveWrite,
         AllocateWrite, Crash, At
<1> QED
  BY <1>1, <1>2, <1>3, <1>4, <1>5, <1>6, <1>7, Zenon DEF Session

LEMMA IdleSound ==
  ASSUME NEW p \in Procs, NEW q \in Procs, Sound(p), At(p, "idle"), At(q, "idle")
  PROVE  Sound(q)
<1>1. sess[p].pc = "idle" /\ sess[q].pc = "idle"
  BY DEF At
<1>2. Held(q)
  BY <1>1 DEF Held, Charging
<1>3. Priced(q) /\ Stamped(q) /\ Uncharged(q) /\ Charged(q) /\ Unblocked(q)
  BY <1>1 DEF Sound, Priced, Stamped, Uncharged, Charged, Unblocked, Charging
<1> QED
  BY <1>2, <1>3 DEF Sound

LEMMA SoloSound ==
  ASSUME CalmInv, calm, NEW p \in Procs, Session(p)
  PROVE  Solo(p) /\ Sound(p)
<1>1. PICK w \in Procs : Solo(w) /\ Sound(w)
  BY DEF CalmInv
<1>2. CASE p = w
  BY <1>1, <1>2
<1>3. CASE p # w
  <2>1. At(p, "idle")
    BY <1>1, <1>3 DEF Solo
  <2>2. AtRest
    BY <2>1, StartsAtRest
  <2> QED BY <1>1, <2>1, <2>2, IdleSound DEF AtRest, Solo
<1> QED
  BY <1>2, <1>3

LEMMA CalmInit ==
  ASSUME Init
  PROVE  CalmInv
<1>1. PICK p \in Procs : TRUE
  BY ProcurementAssumption
<1>2. \A q \in Procs : sess[q].pc = "idle"
  BY DEF Init, Idle
<1>3. po.status = "none" /\ items = <<>> /\ costs = {} /\ received = [i \in Items |-> 0]
  BY DEF Init
<1>4. \A i \in Items : Quantity[i] \in Nat /\ received[i] = 0
  BY <1>3, ProcurementAssumption
<1>5. Started /\ Priced(p) /\ Stamped(p) /\ Uncharged(p) /\ Charged(p) /\ Counted
  BY <1>3 DEF Started, Priced, Stamped, Uncharged, Charged, Counted, Open
<1>6. Within
  BY <1>4 DEF Within
<1>7. Unblocked(p)
  BY <1>4, ProcurementAssumption DEF Unblocked, Full
<1>8. Held(p)
  BY <1>1, <1>2 DEF Held, Charging
<1>9. Solo(p)
  BY <1>2 DEF Solo, At
<1> QED
  BY <1>1, <1>5, <1>6, <1>7, <1>8, <1>9 DEF CalmInv, Sound

LEMMA StutterSound ==
  ASSUME NEW p \in Procs, Sound(p), UNCHANGED vars
  PROVE  Sound(p)'
<1>1. Unmoved /\ sess' = sess /\ po' = po /\ items' = items /\ costs' = costs /\ req' = req
  BY DEF vars, Unmoved
<1>2. /\ Started' /\ Counted' /\ Within' /\ AllCharged' = AllCharged /\ NoneTwice' = NoneTwice
      /\ Derived' = Derived
      /\ \A i : Full(i)' = Full(i) /\ Entries(i)' = Entries(i)
      /\ \A line : Fits(line)' = Fits(line)
  BY <1>1, UnmovedSame DEF Sound
<1>3. Priced(p)' /\ Stamped(p)' /\ Uncharged(p)' /\ Charged(p)' /\ Unblocked(p)'
  BY <1>1, <1>2 DEF Sound, Priced, Stamped, Uncharged, Charged, Unblocked
<1>4. This(p)' = This(p) /\ (Full(This(p)))' = Full(This(p)) /\ (Entries(This(p)))' = Entries(This(p))
  BY DEF vars, This, Full, Entries
<1>5. \A k : (Fits(sess[p].todo[k]))' = Fits(sess[p].todo[k])
  BY DEF vars, Fits
<1>6. Held(p)'
  <2>1. Held(p)
    BY DEF Sound
  <2> QED BY <1>1, <1>2, <1>4, <1>5, <2>1 DEF Held
<1> QED
  BY <1>2, <1>3, <1>6 DEF Sound

LEMMA CalmStep ==
  ASSUME TypeInv, TypeInv', CalmInv, [Next]_vars
  PROVE  CalmInv'
<1>1. CASE UNCHANGED vars
  <2>1. ASSUME calm, NEW p \in Procs, Solo(p), Sound(p) PROVE Solo(p)' /\ Sound(p)'
    BY <1>1, <2>1, StutterSound DEF vars, Solo, At
  <2> QED BY <1>1, <2>1 DEF vars, CalmInv
<1>2. ASSUME calm, NEW p \in Procs, Session(p), calm' = calm
      PROVE  CalmInv'
  <2>1. Solo(p) /\ Sound(p)
    BY <1>2, SoloSound
  <2>2. Sound(p)'
    BY <1>2, <2>1, SessionSound
  <2>3. \A q \in Procs \ {p} : sess'[q] = sess[q]
    <3>1. CASE Reads(p)
      BY <3>1, ReadsKeepTypes DEF Others
    <3>2. CASE Writes(p)
      BY <1>2, <3>2, WritesKeepTypes DEF Others
    <3>3. CASE Touches(p)
      BY <3>3, TouchesKeepTypes
    <3> QED BY <1>2, <3>1, <3>2, <3>3, SessionIs
  <2>4. Solo(p)'
    BY <2>1, <2>3 DEF Solo, At
  <2> QED BY <2>2, <2>4 DEF CalmInv
<1> QED
  BY <1>1, <1>2 DEF Next, CalmInv

OrderInv == AnyInv /\ CalmInv

LEMMA OrderInit == Init => OrderInv
  BY AnyInit, CalmInit DEF OrderInv

LEMMA OrderStep == OrderInv /\ [Next]_vars => OrderInv'
<1> SUFFICES ASSUME OrderInv, [Next]_vars PROVE OrderInv'
  OBVIOUS
<1>1. AnyInv'
  BY AnyStep DEF OrderInv
<1> QED
  BY <1>1, CalmStep DEF OrderInv, AnyInv

LEMMA SoundAtRest ==
  ASSUME OrderInv, calm, AtRest
  PROVE  \E p \in Procs : sess[p].pc = "idle" /\ Sound(p)
  BY DEF OrderInv, CalmInv, AtRest, At

(* A received order was delivered line by line, and so freed what its      *)
(* lines were for.                                                         *)
LEMMA ReceivedLines ==
  ASSUME TypeInv, Within, OneLineEach, Delivered
  PROVE  \A i \in ToSet(items) : received[i] = Quantity[i]
<1>1. /\ received \in [Items -> Nat] /\ Quantity \in [Items -> Nat] /\ items \in Seq(Items)
      /\ ToSet(items) \subseteq Items
  BY TypesKnown, ProcurementAssumption DEF DataOK
<1>2. \A i \in ToSet(items) : received[i] <= Quantity[i]
  BY <1>1 DEF Within
<1> QED
  BY <1>1, <1>2, SumGrows DEF Delivered

(* When requests neither overlap nor die, an order's total is the price of *)
(* its lines, each line is charged to the project once from approval on    *)
(* and not at all before it or once cancelled, and no line receives more   *)
(* than it orders - provided a delivery names a line once, which           *)
(* record_receipt() does not check.  With ActualIsReceived and             *)
(* ReceivedIsEarned, which hold however requests interleave.               *)
THEOREM OrderIsKept ==
  ASSUME OneLineEach
  PROVE  Spec => []OrderIsSound
<1>1. OrderInv => OrderIsSound
  <2> SUFFICES ASSUME OrderInv PROVE OrderIsSound
    OBVIOUS
  <2>0. TypeInv
    BY DEF OrderInv, AnyInv
  <2>1. ActualIsReceived /\ ReceivedIsEarned
    BY DEF OrderInv, AnyInv, Earned, Delivered, ReceivedIsEarned
  <2>2. CostsMatchOrder
    <3> SUFFICES ASSUME calm, AtRest, NEW i \in ToSet(items)
                 PROVE  Cardinality(Entries(i)) = IF po.status \in {"draft", "cancelled"} THEN 0 ELSE 1
      BY DEF CostsMatchOrder
    <3>1. PICK p \in Procs : sess[p].pc = "idle" /\ Sound(p)
      BY SoundAtRest
    <3>2. po.status # "none"
      BY <3>1, EmptyList DEF Sound, Started
    <3>3. CASE po.status \in Open
      <4>1. Entries(i) = {} /\ po.status \in {"draft", "cancelled"}
        BY <3>1, <3>2, <3>3 DEF Sound, Uncharged, Entries, Open
      <4> QED BY <4>1, FS_EmptySet
    <3>4. CASE po.status \notin Open
      <4>1. \E e \in costs : Entries(i) = {e}
        BY <3>1, <3>4 DEF Sound, Charged, AllCharged, Single, Charging
      <4>2. po.status \notin {"draft", "cancelled"}
        BY <3>4 DEF Open
      <4> QED BY <4>1, <4>2, FS_Singleton
    <3> QED BY <3>3, <3>4
  <2>3. NoOverReceipt
    BY DEF OrderInv, CalmInv, Sound, Within, NoOverReceipt
  <2>4. OrderIsWhole
    <3> SUFFICES ASSUME calm, AtRest, po.status # "none"
                 PROVE  /\ po.priced = items
                        /\ po.status \in {"approved"} \cup Receiving => po.stamped
      BY DEF OrderIsWhole
    <3>1. PICK p \in Procs : sess[p].pc = "idle" /\ Sound(p)
      BY SoundAtRest
    <3> QED BY <3>1 DEF Sound, Priced, Stamped, Open, Receiving, Charging
  <2> QED BY <2>1, <2>2, <2>3, <2>4 DEF OrderIsSound
<1> QED
  BY <1>1, OrderInit, OrderStep, PTL DEF Spec

(* When requests neither overlap nor die, an order received in full leaves *)
(* none of its lines' requirements blocking the materials_ready gate -     *)
(* provided users set no requirement back by hand, and no line with a      *)
(* requirement orders nothing (models.py lets a quantity be 0: such a line *)
(* is never delivered, and its requirement stays "ordered").               *)
THEOREM DeliveryFrees ==
  ASSUME OneLineEach, UsersFree, \A i \in DOMAIN ReqOf : Quantity[i] > 0
  PROVE  Spec => []DeliveryUnblocks
<1>1. OrderInv => DeliveryUnblocks
  <2> SUFFICES ASSUME OrderInv, calm, AtRest, po.status = "received",
                      NEW i \in ToSet(items) \cap DOMAIN ReqOf
               PROVE  req[ReqOf[i]] \notin {"planned", "required", "ordered", "partially_received"}
    BY DEF DeliveryUnblocks
  <2>1. PICK p \in Procs : sess[p].pc = "idle" /\ Sound(p)
    BY SoundAtRest
  <2>2. TypeInv /\ Delivered
    BY DEF OrderInv, AnyInv, Earned
  <2>3. received[i] = Quantity[i] /\ Quantity[i] \in Nat
    BY <2>1, <2>2, ReceivedLines, ProcurementAssumption DEF Sound
  <2>4. Full(i)
    BY <2>3 DEF Full
  <2>5. req[ReqOf[i]] \in Freed
    BY <2>1, <2>4 DEF Sound, Unblocked
  <2> QED BY <2>5 DEF Freed
<1> QED
  BY <1>1, OrderInit, OrderStep, PTL DEF Spec

LEMMA StatusMoves ==
  ASSUME OrderInv, calm, NEW p \in Procs, Session(p)
  PROVE  po'.status \in {po.status} \cup Allowed[po.status] \/ po.status = "none"
<1>0. TypeInv
  BY DEF OrderInv, AnyInv
<1>1. /\ po \in [status : DOMAIN Allowed, priced : ItemLists \cup {<<>>},
            stamped : BOOLEAN, taxed : BOOLEAN]
      /\ SumOver(received, items) \in Nat /\ SumOver(Quantity, items) \in Nat
  BY <1>0, TypesKnown, ProcurementAssumption, SumTyped DEF DataOK
<1>2. Sound(p)
  BY SoloSound DEF OrderInv
<1>3. /\ "approved" \in Allowed["draft"] /\ "ordered" \in Allowed["approved"]
      /\ Allowed["ordered"] = {"partially_received", "received", "cancelled"}
      /\ Allowed["partially_received"] = {"received", "cancelled"}
  BY DEF Allowed
<1>4. CASE po'.status = po.status
  BY <1>4
<1>5. CASE \E list \in ItemLists : CreateInsert(p, list)
  BY <1>5 DEF CreateInsert
<1>6. CASE ApproveCommit(p)
  <2>1. po'.status = "approved" /\ po.status = "draft"
    BY <1>1, <1>2, <1>6 DEF ApproveCommit, SetStatus, At, Sound, Held
  <2> QED BY <1>3, <2>1
<1>7. CASE OrderCommit(p)
  <2>1. po'.status = "ordered" /\ po.status = "approved"
    BY <1>1, <1>2, <1>7 DEF OrderCommit, SetStatus, At, Sound, Held
  <2> QED BY <1>3, <2>1
<1>8. CASE CancelCommit(p)
  BY <1>1, <1>2, <1>8 DEF CancelCommit, SetStatus, At, Sound, Held
<1>9. CASE DeriveWrite(p)
  <2>1. po'.status = Derived /\ Derived # po.status
    BY <1>1, <1>2, <1>9 DEF DeriveWrite, SetStatus, At, Sound, Held
  <2>2. /\ po.status \in Receiving /\ Derived \in Receiving
        /\ Derived = "ordered" => SumOver(Quantity, items) = 0 \/ SumOver(received, items) = 0
        /\ Derived = "partially_received" => ~ (SumOver(received, items) >= SumOver(Quantity, items))
    BY <2>1 DEF Derived, DerivePoStatus, Receiving
  <2>3. po.status \in {"partially_received", "received"} => Derived # "ordered"
    BY <1>1, <1>2, <2>2 DEF Sound, Counted
  <2>4. po.status = "received" => Derived # "partially_received"
    BY <2>2 DEF OrderInv, AnyInv, Earned, Delivered
  <2> QED BY <1>3, <2>1, <2>2, <2>3, <2>4 DEF Receiving
<1>10. \/ po'.status = po.status
       \/ \E list \in ItemLists : CreateInsert(p, list)
       \/ ApproveCommit(p) \/ OrderCommit(p) \/ CancelCommit(p) \/ DeriveWrite(p)
  <2>1. CASE Reads(p)
    BY <1>0, <2>1, ReadsKeepTypes
  <2>2. CASE Touches(p)
    BY <1>0, <2>2, TouchesKeepTypes
  <2>3. CASE Writes(p)
    <3>1. CASE \E list, t : po' = [po EXCEPT !.priced = list, !.taxed = t]
      BY <1>1, <3>1
    <3>4. CASE \E t : po' = [po EXCEPT !.taxed = t]
      BY <1>1, <3>4
    <3>2. CASE po' = [po EXCEPT !.stamped = TRUE]
      BY <1>1, <3>2
    <3>3. CASE po' = po
      BY <3>3
    <3> QED
      BY <2>3, <3>1, <3>2, <3>3, <3>4, Zenon
      DEF Writes, CreateItems, EditItems, ReplaceItems, EditTotals, SetPriced, EditFields, Stamp, OrderWrite,
          SyncWrite, ReceiptWrite, AllocateWrite, CostCreate, CancelDelete, DeleteEntry,
          ReceiptCommit, ReceiptLine
  <2> QED BY <2>1, <2>2, <2>3, SessionIs
<1> QED
  BY <1>4, <1>5, <1>6, <1>7, <1>8, <1>9, <1>10

LEMMA RequirementsMove ==
  ASSUME OrderInv, calm, NEW p \in Procs, OrderWrite(p) \/ ReceiptWrite(p) \/ AllocateWrite(p),
         NEW r \in Requirements
  PROVE  ~ Regress(req[r], req'[r])
<1>0. /\ TypeInv
      /\ req \in [Requirements -> ReqStatuses]
  BY TypesKnown DEF OrderInv, AnyInv, DataOK
<1>1. Sound(p)
  <2>1. PICK w \in Procs : Solo(w) /\ Sound(w)
    BY DEF OrderInv, CalmInv
  <2>2. ~ At(p, "idle")
    BY DEF OrderWrite, ReceiptWrite, SyncWrite, AllocateWrite, At
  <2> QED BY <2>1, <2>2 DEF Solo
<1>2. ASSUME req'[r] = req[r] PROVE ~ Regress(req[r], req'[r])
  BY <1>2 DEF Regress
<1>3. CASE OrderWrite(p) \/ ReceiptWrite(p)
  <2>1. /\ sess[p].pc \in {"orderWrite", "receiptWrite"}
        /\ req' = [req EXCEPT ![ReqOf[This(p)]] = sess[p].arg]
    BY <1>3 DEF OrderWrite, ReceiptWrite, SyncWrite, At
  <2>2. ~ Regress(req[ReqOf[This(p)]], sess[p].arg)
    BY <1>1, <2>1 DEF Sound, Held
  <2>3. CASE r = ReqOf[This(p)]
    <3>1. req'[r] = sess[p].arg
      BY <1>0, <2>1, <2>3
    <3> QED BY <2>2, <2>3, <3>1
  <2>4. CASE r # ReqOf[This(p)]
    BY <1>0, <1>2, <2>1, <2>4
  <2> QED BY <2>3, <2>4
<1>4. CASE AllocateWrite(p)
  <2>1. /\ sess[p].pc = "allocate" /\ req' = [req EXCEPT ![This(p)] = "allocated"]
    BY <1>4 DEF AllocateWrite, At
  <2>2. req[This(p)] \notin {"allocated", "consumed", "cancelled"}
    BY <1>1, <2>1 DEF Sound, Held
  <2>3. CASE r = This(p)
    <3>1. req'[r] = "allocated"
      BY <1>0, <2>1, <2>3
    <3>2. req[r] \in {"planned", "required", "ordered", "partially_received", "received"}
      BY <1>0, <2>2, <2>3, StatusesAre
    <3> QED BY <3>1, <3>2, RankOf DEF Regress
  <2>4. CASE r # This(p)
    BY <1>0, <1>2, <2>1, <2>4
  <2> QED BY <2>3, <2>4
<1> QED
  BY <1>3, <1>4

(* However requests interleave, an edit that still believed the order a    *)
(* draft replaces no line the project is charged for or that was           *)
(* delivered; when they neither overlap nor die, the status moves only     *)
(* along PO_ALLOWED_TRANSITIONS and procurement itself never moves a       *)
(* requirement back.                                                       *)
THEOREM OrderOnlyMovesOn == Spec => OrderMovesOn
<1>1. OrderInv /\ [Next]_vars =>
        [calm => po'.status \in {po.status} \cup Allowed[po.status] \/ po.status = "none"]_vars
  <2> SUFFICES ASSUME OrderInv, calm, [Next]_vars, ~ UNCHANGED vars
               PROVE  po'.status \in {po.status} \cup Allowed[po.status] \/ po.status = "none"
    OBVIOUS
  <2> QED BY StatusMoves DEF Next
<1>2. OrderInv /\ [Next]_vars =>
        [\A p \in Procs : calm /\ (OrderWrite(p) \/ ReceiptWrite(p) \/ AllocateWrite(p)) =>
           \A r \in Requirements : ~Regress(req[r], req'[r])]_vars
  BY RequirementsMove
<1>3. Spec => TransitionsAllowed
  BY <1>1, OrderInit, OrderStep, PTL DEF Spec, TransitionsAllowed
<1>4. Spec => RequirementsNeverRegress
  BY <1>2, OrderInit, OrderStep, PTL DEF Spec, RequirementsNeverRegress
<1> QED
  BY <1>3, <1>4, ChargesKeepLines DEF OrderMovesOn

(***************************************************************************)
(* The order as a book of entries                                          *)
(***************************************************************************)

\* A request about to write a status derived it from deliveries, which stay.
Justified(p) ==
  /\ At(p, "orderWrite") => sess[p].arg = "ordered"
  /\ At(p, "receiptWrite") =>
       /\ sess[p].arg \in Receiving
       /\ sess[p].arg = "received" => received[This(p)] >= Quantity[This(p)]
  /\ At(p, "deriveWrite") => sess[p].arg \in Receiving

Synced == \A p \in Procs : Justified(p)

\* Only the two loops over the lines lead to a write of a requirement.
LEMMA SyncsFirst ==
  ASSUME TypeInv, NEW p \in Procs, Reads(p) \/ Writes(p),
         sess'[p].pc \in {"orderWrite", "receiptWrite"}
  PROVE  OrderLine(p) \/ ReceiptLine(p)
<1>0. Shape
  BY TypesKnown
<1>1. SUFFICES ASSUME ~ OrderLine(p), ~ ReceiptLine(p) PROVE FALSE
  OBVIOUS
<1>2. ASSUME NEW pc, NEW todo, NEW arg, Go(p, pc, todo, arg), pc \notin {"orderWrite", "receiptWrite"}
      PROVE  FALSE
  BY <1>0, <1>2, GoStep
<1>3. ~ Done(p)
  BY <1>0, DoneStep
<1>4. ASSUME NEW pc, NEW rest, NEW after, Continue(p, pc, rest, after),
             pc \notin {"orderWrite", "receiptWrite"}, after \notin {"orderWrite", "receiptWrite"}
      PROVE  FALSE
  BY <1>0, <1>4, ContinueStep
<1>6. AfterCosts(p) \in {"idle", "stamp"}
  BY DEF AfterCosts
<1>7. CASE Reads(p)
  <2>1. ASSUME NEW list \in ItemLists, EditRead(p, list) PROVE FALSE
    BY <1>2, <2>1 DEF EditRead
  <2>9. ~ FieldsRead(p)
    BY <1>2 DEF FieldsRead
  <2>2. ASSUME NEW d \in Deliveries, ReceiptRead(p, d) PROVE FALSE
    BY <1>2, <2>2 DEF ReceiptRead
  <2>3. ASSUME NEW r \in Requirements, AllocateRead(p, r) PROVE FALSE
    BY <1>2, <2>3 DEF AllocateRead
  <2>4. ~ ApproveRead(p) /\ ~ OrderRead(p) /\ ~ CancelRead(p)
    BY <1>2 DEF ApproveRead, OrderRead, CancelRead
  <2>5. ~ CostList(p) /\ ~ OrderList(p) /\ ~ CancelList(p)
    BY <1>4, <1>6 DEF CostList, OrderList, CancelList
  <2>6. ~ CostCheck(p)
    BY <1>2, <1>4, <1>6 DEF CostCheck
  <2>7. ~ Crash(p) /\ ~ DeriveRead(p)
    BY <1>2, <1>3 DEF Crash, DeriveRead
  <2> QED BY <1>1, <1>7, <2>1, <2>2, <2>3, <2>4, <2>5, <2>6, <2>7, <2>9, Zenon DEF Reads
<1>8. CASE Writes(p)
  <2>1. ASSUME NEW list \in ItemLists, CreateInsert(p, list) PROVE FALSE
    BY <1>2, <2>1 DEF CreateInsert
  <2>9. ~ EditFields(p)
    BY <1>3 DEF EditFields
  <2>2. ~ CreateItems(p) /\ ~ EditTotals(p) /\ ~ Stamp(p) /\ ~ DeriveWrite(p) /\ ~ AllocateWrite(p)
    BY <1>3 DEF CreateItems, ReplaceItems, EditTotals, SetPriced, EditFields, Stamp, DeriveWrite, AllocateWrite
  <2>3. ~ EditItems(p)
    BY <1>2, <1>3 DEF EditItems, ReplaceItems
  <2>4. ~ ApproveCommit(p) /\ ~ OrderCommit(p) /\ ~ CancelCommit(p)
    BY <1>2 DEF ApproveCommit, OrderCommit, CancelCommit
  <2>5. ~ CostCreate(p)
    BY <1>3, <1>4, <1>6 DEF CostCreate
  <2>6. ~ OrderWrite(p) /\ ~ ReceiptWrite(p) /\ ~ CancelDelete(p)
    BY <1>4 DEF OrderWrite, ReceiptWrite, SyncWrite, CancelDelete, DeleteEntry
  <2>7. ~ ReceiptCommit(p)
    BY <1>2, <1>3 DEF ReceiptCommit
  <2> QED BY <1>1, <1>8, <2>1, <2>2, <2>3, <2>4, <2>5, <2>6, <2>7, <2>9, Zenon DEF Writes
<1> QED
  BY <1>7, <1>8

LEMMA JustifiedRead ==
  ASSUME TypeInv, NEW p \in Procs, OrderLine(p) \/ ReceiptLine(p) \/ DeriveRead(p)
  PROVE  Justified(p)'
<1>0. Shape
  BY TypesKnown
<1>1. CASE OrderLine(p)
  <2>1. CASE Done(p)
    BY <1>0, <2>1, DoneStep DEF Justified, At
  <2>2. CASE SyncRead(p, "ordered", "orderLine", "orderWrite", "idle")
    <3>1. "ordered" \in Receiving
      BY DEF Receiving
    <3> QED BY <2>2, <3>1, SyncGoes DEF Justified, At
  <2> QED BY <1>1, <2>1, <2>2 DEF OrderLine
<1>2. CASE ReceiptLine(p)
  <2>1. PICK i : i = This(p)
    OBVIOUS
  <2>2. /\ SyncRead(p, ItemStatus(i), "receiptLine", "receiptWrite", "derive")
        /\ UNCHANGED received
    BY <1>2, <2>1 DEF ReceiptLine
  <2>3. i \in Items
    BY <1>2, <2>1, Walks DEF ReceiptLine, At, This, TypeInv, Typed, Loops
  <2>4. /\ ItemStatus(i) \in Receiving
        /\ ItemStatus(i) = "received" => received[i] >= Quantity[i]
    BY <2>3, ItemStatusIs
  <2>5. \/ sess'[p].pc = "receiptWrite" /\ sess'[p].todo = sess[p].todo /\ sess'[p].arg = ItemStatus(i)
        \/ sess'[p].pc \in {"receiptLine", "derive"}
    BY <2>2, <2>4, SyncGoes
  <2>6. sess'[p].todo = sess[p].todo => This(p)' = i
    BY <2>1 DEF This
  <2> QED BY <2>2, <2>4, <2>5, <2>6 DEF Justified, At
<1>3. CASE DeriveRead(p)
  <2>1. CASE Done(p)
    BY <1>0, <2>1, DoneStep DEF Justified, At
  <2>2. CASE ~ Done(p)
    <3>1. Derived # po.status /\ Go(p, "deriveWrite", <<>>, Derived)
      BY <1>3, <2>2 DEF DeriveRead
    <3>2. Derived \in Receiving
      BY <3>1 DEF Derived, DerivePoStatus, Receiving
    <3> HIDE DEF Derived
    <3> QED BY <1>0, <3>1, <3>2, GoStep DEF Justified, At
  <2> QED BY <2>1, <2>2
<1> QED
  BY <1>1, <1>2, <1>3

LEMMA SyncedInit == ASSUME Init PROVE Synced
  BY DEF Init, Idle, Synced, Justified, At

LEMMA SyncedStep ==
  ASSUME TypeInv, TypeInv', Synced, [Next]_vars
  PROVE  Synced'
<1>1. CASE UNCHANGED vars
  BY <1>1 DEF vars, Synced, Justified, At, This
<1>2. ASSUME NEW p \in Procs, Session(p), calm' = calm, NEW q \in Procs
      PROVE  Justified(q)'
  <2>1. CASE sess'[q] = sess[q]
    <3>1. Justified(q)
      BY DEF Synced
    <3>2. At(q, "receiptWrite") => This(q) \in Items
      BY Walks DEF At, This, TypeInv, Typed, Loops
    <3>3. \A i \in Items : Quantity[i] \in Nat
      BY ProcurementAssumption
    <3>4. PICK i : i = This(q)
      OBVIOUS
    <3>5. This(q)' = i
      BY <2>1, <3>4 DEF This
    <3>6. At(q, "receiptWrite") => received[i] \in Nat /\ received'[i] \in Nat /\ received'[i] >= received[i]
      BY <1>2, <3>2, <3>4, ReceivedGrows
    <3> QED BY <2>1, <3>1, <3>2, <3>3, <3>4, <3>5, <3>6 DEF Justified, At
  <2>2. CASE sess'[q] # sess[q]
    <3>1. Reads(p) \/ Writes(p)
      BY <1>2, <2>2, SessionIs, TouchesKeepTypes
    <3>2. p = q
      <4>1. CASE Reads(p)
        BY <2>2, <4>1, ReadsKeepTypes DEF Others
      <4>2. CASE Writes(p)
        BY <1>2, <2>2, <4>2, WritesKeepTypes DEF Others
      <4> QED BY <3>1, <4>1, <4>2
    <3>3. CASE sess'[q].pc \in {"orderWrite", "receiptWrite"}
      BY <3>1, <3>2, <3>3, SyncsFirst, JustifiedRead
    <3>4. CASE sess'[q].pc = "deriveWrite"
      BY <3>1, <3>2, <3>4, DerivesFirst, JustifiedRead
    <3>5. CASE sess'[q].pc \notin {"orderWrite", "receiptWrite", "deriveWrite"}
      BY <3>5 DEF Justified, At
    <3> QED BY <3>3, <3>4, <3>5
  <2> QED BY <2>1, <2>2
<1> QED
  BY <1>1, <1>2 DEF Next, Synced

LEMMA BookLines == Book!Lines = ToSet(items)
  BY DEF Book!Lines, ToSet

LEMMA BookSums == \A f, list : Book!SumOver(f, list) = SumOver(f, list)
  BY DEF Book!SumOver, SumOver, Book!Total, Total

LEMMA BookShares == \A d, i : Book!Share(d, i) = DeliveredOf(d, i)
  BY DEF Book!Share, DeliveredOf, Book!Total, Total

LEMMA BookAllows ==
  /\ Book!Onward = Allowed
  /\ DOMAIN Book!Below = Receiving
  /\ \A s \in Receiving, a \in ReqStatuses : a \notin Freed /\ ~ Regress(a, s) => a \in Book!Below[s] \/ a = s
<1>1. Book!Onward = Allowed
  BY DEF Book!Onward, Allowed
<1>2. DOMAIN Book!Below = Receiving
  BY DEF Book!Below, Receiving
<1>3. /\ Book!Below["ordered"] = {"planned", "required"}
      /\ Book!Below["partially_received"] = {"planned", "required", "ordered"}
      /\ Book!Below["received"] = {"planned", "required", "ordered", "partially_received"}
  BY DEF Book!Below
<1>4. ASSUME NEW s \in Receiving, NEW a \in ReqStatuses, a \notin Freed, ~ Regress(a, s), a # s
      PROVE  a \in Book!Below[s]
  <2>1. a \in {"planned", "required", "ordered", "partially_received"}
    BY <1>4, StatusesAre DEF Freed
  <2>2. s \in {"ordered", "partially_received", "received"}
    BY DEF Receiving
  <2> QED BY <1>3, <1>4, <2>1, <2>2, RankOf DEF Regress
<1> QED
  BY <1>1, <1>2, <1>4

\* What the lemmas below know of a request that writes.
Writing(p) == TypeInv /\ Earned /\ Justified(p) /\ (calm => Sound(p))

LEMMA EnterPlace ==
  ASSUME NEW p \in Procs, Writing(p), calm' = calm, NEW list \in ItemLists, CreateInsert(p, list)
  PROVE  Book!Entry
<1>1. po \in [status : DOMAIN Allowed, priced : ItemLists \cup {<<>>},
            stamped : BOOLEAN, taxed : BOOLEAN]
  BY TypesKnown DEF Writing, DataOK
<1>2. Book!Place
  BY <1>1 DEF CreateInsert, Book!Place
<1> QED BY <1>2 DEF Book!Entry

LEMMA EnterReplace ==
  ASSUME NEW p \in Procs, Writing(p), calm' = calm, CreateItems(p) \/ EditItems(p)
  PROVE  Book!Entry \/ UNCHANGED Book!vars
<1>1. /\ sess[p].pc \in {"createItems", "editItems"} /\ sess[p].todo \in ItemLists
      /\ UNCHANGED <<po, costs, received, req>>
      /\ \/ items' = items
         \/ items' = sess[p].todo /\ \A i \in ToSet(items) : ~ Referenced(i)
  BY DEF CreateItems, EditItems, ReplaceItems, At, Writing, TypeInv, Typed
<1>2. calm => po.status = "draft"
  BY <1>1 DEF Writing, Sound, Held
<1>3. CASE items' = items
  BY <1>1, <1>3 DEF Book!vars
<1>4. CASE items' = sess[p].todo /\ \A i \in ToSet(items) : ~ Referenced(i)
  <2>1. ASSUME NEW i \in ToSet(items)
        PROVE  received[i] = 0 /\ \A e \in costs : e.item # i
    <3>1. received[i] \in Nat
      BY TypesKnown DEF Writing, DataOK
    <3>2. Entries(i) = {} /\ ~ (received[i] > 0)
      BY <1>4 DEF Referenced
    <3>3. received[i] = 0
      BY <3>1, <3>2
    <3>4. \A e \in costs : e.item # i
      BY <3>2 DEF Entries
    <3> QED BY <3>3, <3>4
  <2>2. Book!Replace(sess[p].todo)
    BY <1>1, <1>2, <1>4, <2>1, BookLines DEF Book!Replace
  <2> QED BY <1>1, <2>2 DEF Book!Entry
<1> QED BY <1>1, <1>3, <1>4

LEMMA EnterRetax ==
  ASSUME NEW p \in Procs, Writing(p), calm' = calm, EditTotals(p) \/ EditFields(p)
  PROVE  Book!Entry
<1>1. po \in [status : DOMAIN Allowed, priced : ItemLists \cup {<<>>},
            stamped : BOOLEAN, taxed : BOOLEAN]
  BY TypesKnown DEF Writing, DataOK
<1>0. calm \in BOOLEAN
  BY TypesKnown DEF Writing, DataOK
<1>2. UNCHANGED <<items, costs, received, req>> /\ sess[p].pc \in {"reprice", "fields"}
  BY DEF EditTotals, SetPriced, EditFields, At
<1>3. PICK t \in BOOLEAN : \/ \E list : po' = [po EXCEPT !.priced = list, !.taxed = t]
                           \/ po' = [po EXCEPT !.taxed = t]
  BY <1>0 DEF EditTotals, SetPriced, EditFields
<1>4. po'.status = po.status /\ po'.taxed = t
  BY <1>1, <1>3
<1>5. calm => po.status = "draft"
  BY <1>2 DEF Writing, Sound, Held
<1>6. Book!Retax
  BY <1>2, <1>4, <1>5 DEF Book!Retax
<1> QED BY <1>6 DEF Book!Entry

LEMMA EnterNothing ==
  ASSUME NEW p \in Procs, Writing(p), calm' = calm, Stamp(p)
  PROVE  UNCHANGED Book!vars
<1>1. po \in [status : DOMAIN Allowed, priced : ItemLists \cup {<<>>},
            stamped : BOOLEAN, taxed : BOOLEAN]
  BY TypesKnown DEF Writing, DataOK
<1>2. UNCHANGED <<items, costs, received, req>> /\ po' = [po EXCEPT !.stamped = TRUE]
  BY DEF Stamp
<1>3. po'.status = po.status /\ po'.taxed = po.taxed
  BY <1>1, <1>2
<1> QED BY <1>2, <1>3 DEF Book!vars

LEMMA EnterAdvance ==
  ASSUME NEW p \in Procs, OrderInv, Writing(p), calm' = calm, Session(p),
         ApproveCommit(p) \/ OrderCommit(p) \/ CancelCommit(p) \/ DeriveWrite(p)
  PROVE  Book!Entry \/ UNCHANGED Book!vars
<1>1. po \in [status : DOMAIN Allowed, priced : ItemLists \cup {<<>>},
            stamped : BOOLEAN, taxed : BOOLEAN]
  BY TypesKnown DEF Writing, DataOK
<1>2. /\ UNCHANGED <<items, costs, received, req>>
      /\ po'.taxed = po.taxed
      /\ po'.status \in {"approved", "ordered", "cancelled"} \/ (At(p, "deriveWrite") /\ po'.status = sess[p].arg)
  BY <1>1 DEF ApproveCommit, OrderCommit, CancelCommit, DeriveWrite, SetStatus
<1>3. po'.status \in {"approved", "ordered", "partially_received", "received", "cancelled"}
  BY <1>2 DEF Writing, Justified, Receiving
<1>4. po'.status = "received" => SumOver(received, items) >= SumOver(Quantity, items)
  BY <1>2 DEF Writing, Earned, Delivered
<1>5. calm => po'.status \in {po.status} \cup Allowed[po.status]
  <2>1. calm => po'.status \in {po.status} \cup Allowed[po.status] \/ po.status = "none"
    BY StatusMoves
  <2>2. calm => po.status # "none"
    <3>1. "cancelled" \notin Allowed["none"]
      BY DEF Allowed
    <3>2. Derived # po.status => po.status \in Receiving
      BY DEF Derived, DerivePoStatus
    <3>3. "none" \notin Receiving
      BY DEF Receiving
    <3> HIDE DEF Derived
    <3> QED BY <3>1, <3>2, <3>3
         DEF Writing, Sound, Held, ApproveCommit, OrderCommit, CancelCommit, DeriveWrite, At
  <2> QED BY <2>1, <2>2
<1>6. CASE po'.status = po.status
  BY <1>2, <1>6 DEF Book!vars
<1>7. CASE po'.status # po.status
  <2>1. Book!SumOver(received, items) = SumOver(received, items)
        /\ Book!SumOver(Quantity, items) = SumOver(Quantity, items)
    BY BookSums
  <2>2. Book!Advance(po'.status)
    BY <1>2, <1>4, <1>5, <1>7, <2>1, BookAllows DEF Book!Advance
  <2> QED BY <1>3, <2>2 DEF Book!Entry
<1> QED BY <1>6, <1>7

LEMMA EnterCharge ==
  ASSUME NEW p \in Procs, Writing(p), calm' = calm, CostCreate(p)
  PROVE  Book!Entry \/ UNCHANGED Book!vars
<1>0. PICK i : i = This(p)
  OBVIOUS
<1>1. UNCHANGED <<po, items, received, req>> /\ sess[p].pc = "costCreate"
  BY DEF CostCreate, At
<1>2. CASE i \notin ToSet(items)
  BY <1>0, <1>1, <1>2 DEF CostCreate, Book!vars
<1>3. CASE i \in ToSet(items)
  <2>1. PICK n : n = made[i] + 1
    OBVIOUS
  <2>2. i \in Items /\ made \in [Items -> 0 .. MaxEntries] /\ MaxEntries \in Nat
    BY <1>3, TypesKnown, ProcurementAssumption DEF Writing, DataOK
  <2>3. made[i] < MaxEntries /\ made' = [made EXCEPT ![i] = @ + 1]
        /\ costs' = costs \cup {[item |-> i, n |-> made'[i], state |-> "committed"]}
    BY <1>0, <1>3 DEF CostCreate
  <2>4. n \in 1 .. MaxEntries
    BY <2>1, <2>2, <2>3
  <2>5. made'[i] = n
    BY <2>1, <2>2, <2>3
  <2>6. calm => po.status = "approved" /\ \A e \in costs : e.item # i
    BY <1>0, <1>1 DEF Writing, Sound, Held, Charging, Entries
  <2>7. Book!Charge(i, n)
    BY <1>1, <1>3, <2>3, <2>5, <2>6, BookLines DEF Book!Charge
  <2> QED BY <2>2, <2>4, <2>7 DEF Book!Entry
<1> QED BY <1>2, <1>3

LEMMA EnterVoid ==
  ASSUME NEW p \in Procs, Writing(p), calm' = calm, CancelDelete(p)
  PROVE  Book!Entry \/ UNCHANGED Book!vars
<1>1. PICK m : m = This(p)
  OBVIOUS
<1>2. /\ sess[p].pc = "uncost" /\ UNCHANGED <<po, items, received, req>>
      /\ costs' = {e \in costs : <<e.item, e.n>> # <<m.item, m.n>>}
  BY <1>1 DEF CancelDelete, DeleteEntry, At
<1>3. calm => po.status = "cancelled"
  BY <1>2 DEF Writing, Sound, Held
<1>4. CASE \A e \in costs : <<e.item, e.n>> # <<m.item, m.n>>
  BY <1>2, <1>4 DEF Book!vars
<1>5. ASSUME NEW e \in costs, <<e.item, e.n>> = <<m.item, m.n>>
      PROVE  Book!Entry
  <2>1. m.item \in Items /\ m.n \in 1 .. MaxEntries
    BY <1>5, TypesKnown DEF Writing, DataOK
  <2>2. Book!Void(m.item, m.n)
    BY <1>2, <1>3 DEF Book!Void
  <2> QED BY <2>1, <2>2 DEF Book!Entry
<1> QED BY <1>4, <1>5

LEMMA EnterDeliver ==
  ASSUME NEW p \in Procs, Writing(p), calm' = calm, ReceiptCommit(p)
  PROVE  Book!Entry \/ UNCHANGED Book!vars
<1>1. PICK d : d = sess[p].todo
  OBVIOUS
<1> DEFINE lines == [k \in DOMAIN d |-> d[k].item]
<1>2. /\ sess[p].pc = "receive" /\ d \in Deliveries /\ UNCHANGED <<po, items, costs, req>>
      /\ \/ UNCHANGED received
         \/ /\ ToSet(lines) \subseteq ToSet(items)
            /\ received' = [i \in Items |-> received[i] + DeliveredOf(d, i)]
  BY <1>1 DEF ReceiptCommit, At, Writing, TypeInv, Typed
<1>3. CASE UNCHANGED received
  BY <1>2, <1>3 DEF Book!vars
<1>4. CASE /\ ToSet(lines) \subseteq ToSet(items)
           /\ received' = [i \in Items |-> received[i] + DeliveredOf(d, i)]
  <2>1. \A k \in DOMAIN d : d[k].item \in ToSet(items)
    BY <1>4 DEF ToSet
  <2>2. calm => \A k \in DOMAIN d : received[d[k].item] + d[k].quantity <= Quantity[d[k].item]
    BY <1>1, <1>2 DEF Writing, Sound, Held, Fits
  <2>3. received' = [i \in Items |-> received[i] + Book!Share(d, i)]
    BY <1>4, BookShares
  <2> HIDE DEF lines
  <2>4. Book!Deliver(d)
    BY <1>2, <2>1, <2>2, <2>3, BookLines DEF Book!Deliver
  <2> QED BY <1>2, <2>4 DEF Book!Entry
<1> QED BY <1>2, <1>3, <1>4

LEMMA EnterSettle ==
  ASSUME NEW p \in Procs, Writing(p), calm' = calm, ReceiptLine(p)
  PROVE  Book!Entry \/ UNCHANGED Book!vars
<1>0. PICK i : i = This(p)
  OBVIOUS
<1>1. UNCHANGED <<po, items, received, req>> /\ i \in Items
  BY <1>0, Walks DEF ReceiptLine, At, This, Writing, TypeInv, Typed, Loops
<1>2. CASE UNCHANGED costs
  BY <1>1, <1>2 DEF Book!vars
<1>3. CASE ~ UNCHANGED costs
  <2>1. ItemStatus(i) = "received" /\ MarkActual(i) /\ Entries(i) # {}
    BY <1>0, <1>3 DEF ReceiptLine, MarkActual
  <2>2. PICK e \in Entries(i) : costs' = (costs \ {e}) \cup {[e EXCEPT !.state = "actual"]}
    BY <2>1 DEF MarkActual
  <2>3. /\ e \in costs /\ e.item = i
        /\ e \in [item : Items, n : 1..MaxEntries, state : {"committed", "actual"}]
    BY <2>2, TypesKnown DEF Entries, Writing, DataOK
  <2>4. received[i] >= Quantity[i]
    BY <1>1, <2>1, ItemStatusIs DEF Writing
  <2>5. e.state = "committed"
    <3>1. ASSUME e.state = "actual" PROVE FALSE
      <4>1. [e EXCEPT !.state = "actual"] = e
        BY <2>3, <3>1
      <4>2. costs' = costs
        BY <2>2, <2>3, <4>1
      <4> QED BY <1>3, <4>2
    <3> QED BY <2>3, <3>1
  <2>6. Book!Settle(e)
    BY <1>1, <2>2, <2>3, <2>4, <2>5 DEF Book!Settle
  <2> QED BY <2>3, <2>6 DEF Book!Entry
<1> QED BY <1>2, <1>3

LEMMA EnterLift ==
  ASSUME NEW p \in Procs, Writing(p), calm' = calm, OrderWrite(p) \/ ReceiptWrite(p)
  PROVE  Book!Entry \/ UNCHANGED Book!vars
<1>0. PICK i, s : i = This(p) /\ s = sess[p].arg
  OBVIOUS
<1>1. /\ sess[p].pc \in {"orderWrite", "receiptWrite"} /\ UNCHANGED <<po, items, costs, received>>
      /\ req' = [req EXCEPT ![ReqOf[i]] = s] /\ i \in DOMAIN ReqOf
  BY <1>0 DEF OrderWrite, ReceiptWrite, SyncWrite, At, Writing, TypeInv, Typed
<1>2. /\ req \in [Requirements -> ReqStatuses] /\ req[ReqOf[i]] \in ReqStatuses
  BY <1>1, TypesKnown, ProcurementAssumption DEF Writing, DataOK
<1>3. s \in Receiving /\ (s = "received" => received[i] >= Quantity[i])
  BY <1>0, <1>1 DEF Writing, Justified, At, Receiving
<1>4. calm => req[ReqOf[i]] \notin Freed /\ ~ Regress(req[ReqOf[i]], s)
  BY <1>0, <1>1 DEF Writing, Sound, Held
<1>5. CASE req[ReqOf[i]] = s
  BY <1>1, <1>2, <1>5 DEF Book!vars
<1>6. CASE req[ReqOf[i]] # s
  <2>1. calm => req[ReqOf[i]] \in Book!Below[s]
    BY <1>2, <1>3, <1>4, <1>6, BookAllows
  <2>2. Book!Lift(i, s)
    BY <1>1, <1>3, <2>1 DEF Book!Lift
  <2> QED BY <1>1, <1>3, <2>2, BookAllows DEF Book!Entry
<1> QED BY <1>5, <1>6

LEMMA EnterAllocate ==
  ASSUME NEW p \in Procs, Writing(p), calm' = calm, AllocateWrite(p)
  PROVE  Book!Entry
<1>1. PICK r \in Requirements : sess[p].todo = <<r>>
  BY DEF AllocateWrite, At, Writing, TypeInv, Typed
<1>2. This(p) = r
  BY <1>1 DEF This
<1>3. sess[p].pc = "allocate" /\ UNCHANGED <<po, items, costs, received>>
      /\ req' = [req EXCEPT ![r] = "allocated"]
  BY <1>2 DEF AllocateWrite, At
<1>4. calm => req[r] \notin {"allocated", "consumed", "cancelled"}
  BY <1>2, <1>3 DEF Writing, Sound, Held
<1>5. Book!Allocate(r)
  BY <1>3, <1>4 DEF Book!Allocate
<1> QED BY <1>5 DEF Book!Entry

LEMMA EnterByHand ==
  ASSUME NEW p \in Procs, Touches(p)
  PROVE  Book!Entry
<1>1. PICK r \in Requirements : CancelRequirement(p, r) \/ UpdateRequirement(p, r)
  BY DEF Touches
<1>2. PICK s \in UserStatuses \cup {"cancelled"} :
        req' = [req EXCEPT ![r] = s] /\ UNCHANGED <<po, items, costs, received>>
  BY <1>1 DEF CancelRequirement, UpdateRequirement
<1>3. Book!ByHand(r, s)
  BY <1>2 DEF Book!ByHand
<1> QED BY <1>3 DEF Book!Entry

BookInv == OrderInv /\ Synced

LEMMA BookInit == Init => BookInv /\ Book!Init
<1> SUFFICES ASSUME Init PROVE BookInv /\ Book!Init
  OBVIOUS
<1>1. BookInv
  BY OrderInit, SyncedInit DEF BookInv
<1>2. Book!Init
  BY DEF Init, Book!Init
<1> QED BY <1>1, <1>2

LEMMA BookKept == BookInv /\ [Next]_vars => BookInv'
<1> SUFFICES ASSUME BookInv, [Next]_vars PROVE BookInv'
  OBVIOUS
<1>1. OrderInv'
  BY OrderStep DEF BookInv
<1> QED BY <1>1, SyncedStep DEF BookInv, OrderInv, AnyInv

LEMMA BookStep == BookInv /\ [Next]_vars => [Book!Next]_(Book!vars)
<1> SUFFICES ASSUME BookInv, [Next]_vars PROVE [Book!Next]_(Book!vars)
  OBVIOUS
<1>1. CASE UNCHANGED vars
  BY <1>1 DEF vars, Book!vars
<1>2. ASSUME NEW p \in Procs, Session(p), calm' = calm
      PROVE  Book!Entry \/ UNCHANGED Book!vars
  <2>1. OrderInv /\ Writing(p) /\ TypeInv
    BY <1>2, SoloSound DEF BookInv, Synced, OrderInv, AnyInv, Writing
  <2>2. CASE Reads(p)
    BY <1>2, <2>1, <2>2, ReadsKeepTypes DEF Book!vars
  <2>3. CASE Touches(p)
    BY <2>3, EnterByHand
  <2>4. CASE Writes(p)
    BY <1>2, <2>1, <2>4, EnterPlace, EnterReplace, EnterRetax, EnterNothing,
       EnterAdvance, EnterCharge, EnterVoid,
       EnterDeliver, EnterSettle, EnterLift, EnterAllocate DEF Writes
  <2> QED BY <1>2, <2>2, <2>3, <2>4, SessionIs
<1> QED
  BY <1>1, <1>2 DEF Next, Book!Next

(* However requests interleave and die, what the project can read of the   *)
(* order is a book in which one entry at a time is made, under the         *)
(* conditions OrderBook states: a line leaves the order only while the     *)
(* project is neither charged for it nor has received it, a charge is      *)
(* settled and a requirement marked received only after the delivery, the  *)
(* order itself only after all of them; and when requests neither overlap  *)
(* nor die, every status moves on and a line is charged once.              *)
THEOREM OrderKeepsTheBook == Spec => OrderIsABook
  BY BookInit, BookKept, BookStep, PTL DEF Spec, OrderIsABook, Book!Spec
=============================================================================
