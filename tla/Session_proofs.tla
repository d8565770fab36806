-------------------------- MODULE Session_proofs --------------------------
(***************************************************************************)
(* Proofs about logging in: why clients and characters agree, for any      *)
(* clients and names, and why waiting is fair, for any players and size.   *)
(*                                                                         *)
(* The life of a client has an order: connection, login, perhaps a connect *)
(* event, close, releases until nobody refers to it, deletion.  Inv says   *)
(* of each client where in that order it stands (Fits), which only works   *)
(* because the queue and the timer never hold a task of it in the wrong    *)
(* place (InOrder).  The rest of Inv speaks of clients and characters      *)
(* only (Linked): a task that starts a client finds it without a player,   *)
(* so that joining the two keeps every other link.                         *)
(*                                                                         *)
(* The waiting list is tidy: a name is on it once, premium players first.  *)
(* A list that cleanUpList made is one with a function from its places to  *)
(* places of the list before, in order and never forward (Keeps), which is *)
(* found by counting what stays from the front (RanksAre).  An entry's     *)
(* place before and after is then known from the name alone.               *)
(***************************************************************************)
EXTENDS Session, WaitList, FiniteSetTheorems, SequenceTheorems, WellFoundedInduction, TLAPS

Starts(k) == k \in {"login", "connect"}
Ends(k) == k \in {"close", "release"}

\* Two tasks of one client: only one starts it, only one ends it.
Apart(x, y) ==
    x.by = y.by => /\ ~(Starts(x.kind) /\ Starts(y.kind))
                   /\ ~(Ends(x.kind) /\ Ends(y.kind))

\* x is due before y: behind a task that ends a client comes its connect event.
Before(x, y) == x.by = y.by /\ Ends(x.kind) => y.kind = "connect"

\* Whenever y will be due, nothing of its client but a connect event comes
\* after it.
LastOf(x, y) == x.by = y.by /\ Ends(y.kind) => x.kind = "connect"

InOrder(q, t) ==
    /\ \A i, j \in DOMAIN q : i # j => Apart(q[i], q[j])
    /\ \A i, j \in DOMAIN q : i < j => Before(q[i], q[j])
    /\ \A i, j \in DOMAIN t : i # j => Apart(t[i], t[j])
    /\ \A i \in DOMAIN q, j \in DOMAIN t : Apart(q[i], t[j]) /\ LastOf(q[i], t[j])
    /\ \A j \in DOMAIN t : t[j].kind \in {"connect", "release"}

Has(q, t, c, K) ==
    \/ \E i \in DOMAIN q : q[i].by = c /\ q[i].kind \in K
    \/ \E i \in DOMAIN t : t[i].by = c /\ t[i].kind \in K
AnyKind == {"login", "connect", "logout", "close", "release"}

-----------------------------------------------------------------------------
(* What the operations on the two sequences do.                            *)

\* Any k joins s at place i.
Joins(u, s, i, k) ==
    /\ u \in Seq(Task) /\ Len(u) = Len(s) + 1 /\ i \in 1 .. Len(u)
    /\ \A a \in 1 .. Len(u) :
          u[a] = IF a < i THEN s[a] ELSE IF a = i THEN k ELSE s[a - 1]

LEMMA AppendJoins ==
    ASSUME NEW s \in Seq(Task), NEW k \in Task
    PROVE  Joins(Append(s, k), s, Len(s) + 1, k)
BY DEF Joins

LEMMA InsertJoins ==
    ASSUME NEW s \in Seq(Task), NEW k \in Task, NEW i \in 1 .. Len(s) + 1
    PROVE  Joins(InsertAt(s, i, k), s, i, k)
<1> DEFINE u == SubSeq(s, 1, i - 1)
           v == u \o <<k>>
           w == SubSeq(s, i, Len(s))
<1>n. Len(s) \in Nat /\ i \in Nat /\ i >= 1 /\ i <= Len(s) + 1
  OBVIOUS
<1>1. /\ u \in Seq(Task) /\ Len(u) = i - 1
      /\ \A a \in 1 .. i - 1 : u[a] = s[a]
  BY <1>n, SubSeqProperties
<1>2. /\ w \in Seq(Task) /\ Len(w) = Len(s) - i + 1
      /\ \A a \in 1 .. Len(s) - i + 1 : w[a] = s[i + a - 1]
  BY <1>n, SubSeqProperties
<1> HIDE DEF u, w
<1>3. /\ v \in Seq(Task) /\ Len(v) = i
      /\ \A a \in 1 .. i : v[a] = IF a < i THEN s[a] ELSE k
  BY <1>n, <1>1
<1> HIDE DEF v
<1>4. /\ v \o w \in Seq(Task) /\ Len(v \o w) = Len(v) + Len(w)
      /\ \A a \in 1 .. Len(v) + Len(w) :
            (v \o w)[a] = IF a <= Len(v) THEN v[a] ELSE w[a - Len(v)]
  BY <1>2, <1>3, ConcatProperties
<1>5. Len(v \o w) = Len(s) + 1
  BY <1>n, <1>2, <1>3, <1>4
<1>6. ASSUME NEW a \in 1 .. Len(s) + 1
      PROVE  (v \o w)[a] = IF a < i THEN s[a] ELSE IF a = i THEN k ELSE s[a - 1]
  <2>1. CASE a <= i
    BY <1>n, <1>3, <1>4, <1>5, <2>1
  <2>2. CASE a > i
    <3>1. a - i \in 1 .. Len(s) - i + 1 /\ i + (a - i) - 1 = a - 1
      BY <1>n, <2>2
    <3>2. w[a - i] = s[a - 1]
      BY <1>2, <3>1
    <3> QED BY <1>n, <1>3, <1>4, <1>5, <2>2, <3>2
  <2>3. a <= i \/ a > i
    BY <1>n
  <2> QED BY <2>1, <2>2, <2>3
<1>7. InsertAt(s, i, k) = v \o w
  BY DEF InsertAt, u, v, w
<1> QED BY <1>n, <1>4, <1>5, <1>6, <1>7 DEF Joins

StartKinds == {"login", "connect"}
EndKinds == {"close", "release"}
OtherKinds == {"login", "logout", "close", "release"}

\* The first task is taken.
LEMMA TailTakes ==
    ASSUME NEW q \in Seq(Task), q # <<>>, NEW t \in Seq(Task), InOrder(q, t)
    PROVE  /\ Tail(q) \in Seq(Task) /\ Head(q) \in Task
           /\ InOrder(Tail(q), t)
           /\ \A c, K : Has(q, t, c, K) <=>
                 Has(Tail(q), t, c, K) \/ (Head(q).by = c /\ Head(q).kind \in K)
           /\ Starts(Head(q).kind) => ~Has(Tail(q), t, Head(q).by, StartKinds)
           /\ Ends(Head(q).kind) =>
                 ~Has(Tail(q), t, Head(q).by, OtherKinds)
<1>1. /\ Tail(q) \in Seq(Task) /\ Len(Tail(q)) = Len(q) - 1
      /\ \A a \in 1 .. Len(Tail(q)) : Tail(q)[a] = q[a + 1]
      /\ Len(q) \in Nat \ {0} /\ Head(q) = q[1]
  OBVIOUS
<1> DEFINE u == Tail(q)
<1> HIDE DEF u
<1>2. \A a \in DOMAIN u : a + 1 \in DOMAIN q /\ u[a] = q[a + 1]
  BY <1>1 DEF u
<1>3. \A a \in DOMAIN q : a # 1 => a - 1 \in DOMAIN u /\ u[a - 1] = q[a]
  BY <1>1 DEF u
<1>4. 1 \in DOMAIN q /\ Head(q) = q[1] /\ DOMAIN u \subseteq Nat /\ DOMAIN q \subseteq Nat
  BY <1>1 DEF u
<1>5. InOrder(u, t)
  <2>1. \A a, b \in DOMAIN u : /\ a # b => a + 1 # b + 1
                               /\ a < b => a + 1 < b + 1
    BY <1>4
  <2> QED BY <1>2, <2>1 DEF InOrder
<1>6. ASSUME NEW c, NEW K
      PROVE  Has(q, t, c, K) <=> Has(u, t, c, K) \/ (Head(q).by = c /\ Head(q).kind \in K)
  BY <1>2, <1>3, <1>4 DEF Has
<1>7. Starts(Head(q).kind) => ~Has(u, t, Head(q).by, StartKinds)
  <2>1. \A a \in DOMAIN u : a + 1 # 1
    BY <1>4
  <2> QED BY <1>2, <1>4, <2>1 DEF InOrder, Apart, Has, Starts, StartKinds
<1>8. Ends(Head(q).kind) => ~Has(u, t, Head(q).by, OtherKinds)
  <2>1. \A a \in DOMAIN u : 1 < a + 1
    BY <1>1 DEF u
  <2>2. \A a \in DOMAIN t : t[a].kind \in {"connect", "release"}
    BY DEF InOrder
  <2> QED
    BY <1>2, <1>4, <2>1, <2>2 DEF InOrder, Apart, Before, Has, Ends, AnyKind, OtherKinds
<1> QED BY <1>1, <1>5, <1>6, <1>7, <1>8 DEF u

\* A task is posted.
LEMMA AppendPosts ==
    ASSUME NEW q \in Seq(Task), NEW t \in Seq(Task), InOrder(q, t), NEW k \in Task,
           Starts(k.kind) => ~Has(q, t, k.by, StartKinds),
           k.kind # "connect" => ~Has(q, t, k.by, EndKinds)
    PROVE  /\ Append(q, k) \in Seq(Task)
           /\ InOrder(Append(q, k), t)
           /\ \A c, K : Has(Append(q, k), t, c, K) <=>
                 Has(q, t, c, K) \/ (k.by = c /\ k.kind \in K)
<1> DEFINE u == Append(q, k)
           n == Len(q) + 1
<1>1. /\ u \in Seq(Task) /\ n \in DOMAIN u /\ u[n] = k
      /\ \A a \in DOMAIN q : a \in DOMAIN u /\ u[a] = q[a] /\ a < n /\ a # n
      /\ \A a \in DOMAIN u : a = n \/ a \in DOMAIN q
      /\ \A a \in DOMAIN u : ~(n < a)
  OBVIOUS
<1> HIDE DEF u, n
<1>2. ASSUME NEW c, NEW K
      PROVE  Has(u, t, c, K) <=> Has(q, t, c, K) \/ (k.by = c /\ k.kind \in K)
  BY <1>1 DEF Has
<1>3. InOrder(u, t)
  <2>1. ASSUME NEW i \in DOMAIN u, NEW j \in DOMAIN u, i # j PROVE Apart(u[i], u[j])
    BY <1>1, <2>1 DEF InOrder, Apart, Has, Starts, Ends, StartKinds, EndKinds
  <2>2. ASSUME NEW i \in DOMAIN u, NEW j \in DOMAIN u, i < j PROVE Before(u[i], u[j])
    BY <1>1, <2>2 DEF InOrder, Before, Has, Ends, EndKinds
  <2>3. ASSUME NEW i \in DOMAIN u, NEW j \in DOMAIN t
        PROVE  Apart(u[i], t[j]) /\ LastOf(u[i], t[j])
    BY <1>1 DEF InOrder, Apart, LastOf, Has, Starts, Ends, StartKinds, EndKinds
  <2> QED BY <2>1, <2>2, <2>3 DEF InOrder
<1> QED BY <1>1, <1>2, <1>3 DEF u

\* The scheduler hands its first event over.
LEMMA ExpiryMoves ==
    ASSUME NEW q \in Seq(Task), NEW t \in Seq(Task), t # <<>>, InOrder(q, t)
    PROVE  /\ Append(q, Head(t)) \in Seq(Task) /\ Tail(t) \in Seq(Task)
           /\ InOrder(Append(q, Head(t)), Tail(t))
           /\ \A c, K : Has(Append(q, Head(t)), Tail(t), c, K) <=> Has(q, t, c, K)
<1> DEFINE u == Append(q, Head(t))
           n == Len(q) + 1
           v == Tail(t)
<1>1. /\ u \in Seq(Task) /\ n \in DOMAIN u /\ u[n] = t[1]
      /\ \A a \in DOMAIN q : a \in DOMAIN u /\ u[a] = q[a] /\ a < n /\ a # n
      /\ \A a \in DOMAIN u : a = n \/ a \in DOMAIN q
      /\ \A a \in DOMAIN u : ~(n < a)
  OBVIOUS
<1>2. /\ v \in Seq(Task) /\ 1 \in DOMAIN t
      /\ \A a \in DOMAIN v : a + 1 \in DOMAIN t /\ v[a] = t[a + 1] /\ a + 1 # 1
      /\ \A a \in DOMAIN t : a = 1 \/ (a - 1 \in DOMAIN v /\ v[a - 1] = t[a])
      /\ \A a, b \in DOMAIN v : a + 1 = b + 1 => a = b
  OBVIOUS
<1> HIDE DEF u, n, v
<1>3. ASSUME NEW c, NEW K PROVE Has(u, v, c, K) <=> Has(q, t, c, K)
  <2>1. Has(u, v, c, K) => Has(q, t, c, K)
    BY <1>1, <1>2 DEF Has
  <2>2. ASSUME NEW i \in DOMAIN q, q[i].by = c, q[i].kind \in K PROVE Has(u, v, c, K)
    BY <1>1, <2>2 DEF Has
  <2>3. ASSUME NEW i \in DOMAIN t, t[i].by = c, t[i].kind \in K PROVE Has(u, v, c, K)
    BY <1>1, <1>2, <2>3 DEF Has
  <2> QED BY <2>1, <2>2, <2>3 DEF Has
<1>4. InOrder(u, v)
  <2>1. ASSUME NEW i \in DOMAIN u, NEW j \in DOMAIN u, i # j PROVE Apart(u[i], u[j])
    <3>1. CASE i # n /\ j # n
      BY <1>1, <2>1, <3>1 DEF InOrder
    <3>2. CASE i = n /\ j # n
      <4>1. j \in DOMAIN q /\ u[j] = q[j] /\ u[i] = t[1]
        BY <1>1, <3>2
      <4>2. Apart(q[j], t[1])
        BY <1>2, <4>1 DEF InOrder
      <4> QED BY <4>1, <4>2 DEF Apart
    <3>3. CASE i # n /\ j = n
      <4>1. i \in DOMAIN q /\ u[i] = q[i] /\ u[j] = t[1]
        BY <1>1, <3>3
      <4>2. Apart(q[i], t[1])
        BY <1>2, <4>1 DEF InOrder
      <4> QED BY <4>1, <4>2
    <3> QED BY <2>1, <3>1, <3>2, <3>3
  <2>2. ASSUME NEW i \in DOMAIN u, NEW j \in DOMAIN u, i < j PROVE Before(u[i], u[j])
    <3>1. i # n /\ i \in DOMAIN q /\ u[i] = q[i]
      BY <1>1, <2>2
    <3>2. CASE j = n
      BY <1>1, <1>2, <3>1, <3>2 DEF InOrder, Before, Apart, LastOf, Ends
    <3>3. CASE j # n
      BY <1>1, <2>2, <3>1, <3>3 DEF InOrder
    <3> QED BY <3>2, <3>3
  <2>3. ASSUME NEW i \in DOMAIN u, NEW j \in DOMAIN v
        PROVE  Apart(u[i], v[j]) /\ LastOf(u[i], v[j])
    <3>1. CASE i = n
      <4>1. Apart(t[1], t[j + 1]) /\ t[1].kind \in {"connect", "release"}
        BY <1>2 DEF InOrder
      <4> QED BY <1>1, <1>2, <3>1, <4>1 DEF Apart, LastOf, Ends
    <3>2. CASE i # n
      BY <1>1, <1>2, <3>2 DEF InOrder
    <3> QED BY <3>1, <3>2
  <2>4. ASSUME NEW i \in DOMAIN v, NEW j \in DOMAIN v, i # j PROVE Apart(v[i], v[j])
    BY <1>2, <2>4 DEF InOrder
  <2>5. \A j \in DOMAIN v : v[j].kind \in {"connect", "release"}
    BY <1>2 DEF InOrder
  <2> QED BY <2>1, <2>2, <2>3, <2>4, <2>5 DEF InOrder
<1> QED BY <1>1, <1>2, <1>3, <1>4 DEF u, v

\* An event is scheduled.
LEMMA JoiningSchedules ==
    ASSUME NEW q \in Seq(Task), NEW t \in Seq(Task), InOrder(q, t), NEW k \in Task,
           NEW u, NEW n, Joins(u, t, n, k),
           \/ k.kind = "connect" /\ ~Has(q, t, k.by, StartKinds)
           \/ k.kind = "release" /\ ~Has(q, t, k.by, OtherKinds)
    PROVE  /\ u \in Seq(Task) /\ InOrder(q, u)
           /\ \A c, K : Has(q, u, c, K) <=> Has(q, t, c, K) \/ (k.by = c /\ k.kind \in K)
<1> DEFINE m(a) == IF a < n THEN a ELSE a - 1
<1>1. /\ u \in Seq(Task) /\ n \in DOMAIN u /\ u[n] = k
      /\ \A a \in DOMAIN u : a # n => m(a) \in DOMAIN t /\ u[a] = t[m(a)]
      /\ \A a, b \in DOMAIN u : a # n /\ b # n /\ m(a) = m(b) => a = b
      /\ \A a \in DOMAIN t : \E b \in DOMAIN u : u[b] = t[a]
  <2>1. /\ u \in Seq(Task) /\ n \in 1 .. Len(u) /\ Len(u) = Len(t) + 1
        /\ \A a \in 1 .. Len(u) :
              u[a] = IF a < n THEN t[a] ELSE IF a = n THEN k ELSE t[a - 1]
        /\ Len(t) \in Nat
    BY DEF Joins
  <2>2. ASSUME NEW a \in DOMAIN t PROVE \E b \in DOMAIN u : u[b] = t[a]
    <3>1. CASE a < n
      <4>1. a \in 1 .. Len(t)
        BY <2>1
      <4>2. a \in 1 .. Len(u)
        BY <2>1, <4>1
      <4>3. u[a] = t[a]
        BY <2>1, <3>1, <4>2
      <4> QED BY <2>1, <4>2, <4>3
    <3>2. CASE ~(a < n)
      <4>1. a \in 1 .. Len(t) /\ n \in Nat
        BY <2>1
      <4>2. a + 1 \in 1 .. Len(u) /\ ~ (a + 1 < n) /\ a + 1 # n /\ (a + 1) - 1 = a
        BY <2>1, <3>2, <4>1
      <4>3. a + 1 \in 1 .. Len(u) /\ u[a + 1] = t[a]
        BY <2>1, <4>2
      <4> QED BY <4>3, <2>1
    <3> QED BY <3>1, <3>2
  <2> QED BY <2>1, <2>2
<1>t. \A a \in DOMAIN q : q[a].kind \in AnyKind /\ \A b \in DOMAIN t : t[b].kind \in AnyKind
  BY DEF Task, AnyKind
<1> HIDE DEF m
<1>2. ASSUME NEW c, NEW K
      PROVE  Has(q, u, c, K) <=> Has(q, t, c, K) \/ (k.by = c /\ k.kind \in K)
  <2> DEFINE Of(x) == x.by = c /\ x.kind \in K
  <2>1. (\E a \in DOMAIN u : Of(u[a])) <=> (\E a \in DOMAIN t : Of(t[a])) \/ Of(k)
    <3> HIDE DEF Of
    <3>1. ASSUME NEW a \in DOMAIN u, Of(u[a]) PROVE (\E b \in DOMAIN t : Of(t[b])) \/ Of(k)
      BY <1>1, <3>1
    <3>2. ASSUME NEW a \in DOMAIN t, Of(t[a]) PROVE \E b \in DOMAIN u : Of(u[b])
      BY <1>1, <3>2
    <3>3. Of(k) => \E b \in DOMAIN u : Of(u[b])
      BY <1>1
    <3> QED BY <3>1, <3>2, <3>3
  <2> QED BY <2>1 DEF Has
<1>3. InOrder(q, u)
  <2>1. ASSUME NEW i \in DOMAIN u, NEW j \in DOMAIN u, i # j PROVE Apart(u[i], u[j])
    <3>1. CASE i # n /\ j # n
      <4>1. m(i) \in DOMAIN t /\ m(j) \in DOMAIN t /\ m(i) # m(j)
        BY <1>1, <2>1, <3>1
      <4>2. Apart(t[m(i)], t[m(j)])
        BY <4>1 DEF InOrder
      <4> QED BY <1>1, <3>1, <4>2
    <3>2. CASE i = n \/ j = n
      BY <1>1, <1>t, <2>1, <3>2 DEF Apart, Has, Starts, Ends, StartKinds, AnyKind, OtherKinds
    <3> QED BY <3>1, <3>2
  <2>2. ASSUME NEW i \in DOMAIN q, NEW j \in DOMAIN u
        PROVE  Apart(q[i], u[j]) /\ LastOf(q[i], u[j])
    <3>1. CASE j # n
      BY <1>1, <3>1 DEF InOrder
    <3>2. CASE j = n
      BY <1>1, <1>t, <3>2 DEF Apart, LastOf, Has, Starts, Ends, StartKinds, AnyKind, OtherKinds
    <3> QED BY <3>1, <3>2
  <2>3. \A j \in DOMAIN u : u[j].kind \in {"connect", "release"}
    BY <1>1 DEF InOrder
  <2> QED BY <2>1, <2>2, <2>3 DEF InOrder
<1> QED BY <1>1, <1>2, <1>3

-----------------------------------------------------------------------------
(* The invariant.                                                          *)

\* How client c stands when q and t are the tasks and events: what has to do
\* with c is in the order connection, login, perhaps a connect event, close,
\* releases until the references are gone, deletion.
Fits(c, q, t, con, pl, acc, ref, gone, obj) ==
    /\ con = "unused" =>
          ~Has(q, t, c, AnyKind) /\ pl = NoPlayer /\ obj = "none" /\ ~acc /\ ~gone
    /\ Has(q, t, c, EndKinds) => con \in {"closing", "closed"}
    /\ Has(q, t, c, StartKinds) => pl = NoPlayer /\ ~acc /\ obj = "none"
    /\ ref = IF Has(q, t, c, {"connect"}) THEN 1 ELSE 0
    /\ gone => pl = NoPlayer /\ con \in {"closing", "closed"} /\ ~Has(q, t, c, AnyKind)

FitsNow(c, q, t) ==
    Fits(c, q, t, connection[c], player[c], accepting[c], refCount[c],
         c \in deleted, object[c])

Waiting == \A c \in Client : FitsNow(c, queue, timers)

UnloadedAreFree == \A p \in Player : object[p] = "none" =>
    client[p] = NoClient /\ \A c \in Client : player[c] # p

\* the three parts of LinksAgree
ClientsPointBack == \A p \in Player : client[p] # NoClient => player[client[p]] = p
DriversAreClients == \A c \in Client :
    connection[c] = "open" /\ accepting[c] =>
        player[c] # NoPlayer /\ client[player[c]] = c
NamesDiffer == \A p, q \in Player :
    object[p] = "placed" /\ object[q] = "placed" /\ p # q => name[p] # name[q]

Users(f, p) == {c \in Client : f[c] = p}
Counts(f, u, o) == \A p \in Player :
    u[p] = Cardinality(Users(f, p)) + (IF o[p] = "placed" THEN 1 ELSE 0)

Types ==
    /\ queue \in Seq(Task) /\ timers \in Seq(Task)
    /\ connection \in [Client -> {"unused", "open", "closing", "closed"}]
    /\ player \in [Client -> Player \cup {NoPlayer}]
    /\ accepting \in [Client -> BOOLEAN]
    /\ refCount \in [Client -> 0..1]
    /\ deleted \subseteq Client
    /\ object \in [Player -> {"none", "loaded", "placed", "removed"}]
    /\ name \in [Player -> Name]
    /\ client \in [Player -> Client \cup {NoClient}]
    /\ connecting \in [Player -> BOOLEAN]
    /\ useCount \in [Player -> Int]
    /\ held \subseteq Player

\* What speaks of clients and characters only.
Linked ==
    /\ UnloadedAreFree /\ ClientsPointBack /\ DriversAreClients /\ NamesDiffer
    /\ Counts(player, useCount, object)

Inv == Types /\ InOrder(queue, timers) /\ Waiting /\ Linked

LEMMA UsersAreFew ==
    ASSUME NEW f, NEW p
    PROVE  /\ IsFiniteSet(Users(f, p)) /\ Cardinality(Users(f, p)) \in Nat
           /\ Cardinality(Users(f, p)) <= Cardinality(Client)
           /\ Cardinality(Client) \in Nat
<1>1. Users(f, p) \subseteq Client
  BY DEF Users
<1> QED BY <1>1, SessionConstants, FS_Subset, FS_CardinalityType

\* A protocol that has no player gets one.
LEMMA UsersGrow ==
    ASSUME NEW f \in [Client -> Player \cup {NoPlayer}], NEW c \in Client, NEW p \in Player,
           f[c] = NoPlayer,
           NEW g, g[c] = p, \A d \in Client : d # c => g[d] = f[d]
    PROVE  \A q \in Player : Cardinality(Users(g, q)) =
               Cardinality(Users(f, q)) + (IF q = p THEN 1 ELSE 0)
<1>1. NoPlayer \notin Player
  BY SessionConstants DEF Player
<1>2. c \notin Users(f, p) /\ Users(g, p) = Users(f, p) \cup {c}
  BY <1>1 DEF Users
<1>3. \A q \in Player : q # p => Users(g, q) = Users(f, q)
  BY <1>1 DEF Users
<1>4. Cardinality(Users(g, p)) = Cardinality(Users(f, p)) + 1
  BY <1>2, UsersAreFew, FS_AddElement
<1>5. \A q \in Player : Cardinality(Users(f, q)) \in Nat
  BY UsersAreFew
<1>6. ASSUME NEW q \in Player
      PROVE  Cardinality(Users(g, q)) = Cardinality(Users(f, q)) + (IF q = p THEN 1 ELSE 0)
  <2>1. CASE q = p
    BY <1>4, <2>1
  <2>2. CASE q # p
    <3>1. Cardinality(Users(g, q)) = Cardinality(Users(f, q))
      BY <1>3, <2>2
    <3> QED BY <1>5, <2>2, <3>1
  <2> QED BY <2>1, <2>2
<1> QED BY <1>6

\* A protocol lets go of its player.
LEMMA UsersShrink ==
    ASSUME NEW f \in [Client -> Player \cup {NoPlayer}], NEW c \in Client,
           NEW g, g[c] = NoPlayer, \A d \in Client : d # c => g[d] = f[d]
    PROVE  \A q \in Player : Cardinality(Users(g, q)) =
               Cardinality(Users(f, q)) - (IF q = f[c] THEN 1 ELSE 0)
<1> SUFFICES ASSUME NEW q \in Player
             PROVE  Cardinality(Users(g, q)) =
                       Cardinality(Users(f, q)) - (IF q = f[c] THEN 1 ELSE 0)
  OBVIOUS
<1>1. NoPlayer \notin Player
  BY SessionConstants DEF Player
<1>2. CASE q = f[c]
  <2>1. c \in Users(f, q) /\ Users(g, q) = Users(f, q) \ {c}
    BY <1>1, <1>2 DEF Users
  <2>2. Cardinality(Users(g, q)) = Cardinality(Users(f, q)) - 1
    <3> DEFINE S == Users(f, q)
    <3>1. IsFiniteSet(S) /\ c \in S /\ Users(g, q) = S \ {c}
      BY <2>1, UsersAreFew
    <3> HIDE DEF S
    <3>2. Cardinality(S \ {c}) = Cardinality(S) - 1
      BY <3>1, FS_RemoveElement
    <3> QED BY <3>1, <3>2 DEF S
  <2> QED BY <1>2, <2>2
<1>3. CASE q # f[c]
  <2>1. Users(g, q) = Users(f, q)
    BY <1>1, <1>3 DEF Users
  <2>2. Cardinality(Users(f, q)) \in Nat
    BY UsersAreFew
  <2> QED BY <1>3, <2>1, <2>2
<1> QED BY <1>2, <1>3

\* closeConnection posts one close task at most.
LEMMA ClosingPosts ==
    ASSUME Types, NEW c \in Client \cup {NoClient}, NEW rest \in Seq(Task),
           NEW t \in Seq(Task), InOrder(rest, t),
           c # NoClient /\ connection[c] = "open" => ~Has(rest, t, c, EndKinds),
           CloseConnection(c, rest)
    PROVE  LET closes == c # NoClient /\ connection[c] = "open"
           IN  /\ queue' \in Seq(Task) /\ InOrder(queue', t)
               /\ \A d, K : Has(queue', t, d, K) <=>
                     Has(rest, t, d, K) \/ (closes /\ d = c /\ "close" \in K)
               /\ connection' \in [Client -> {"unused", "open", "closing", "closed"}]
               /\ \A d \in Client : connection'[d] =
                     IF closes /\ d = c THEN "closing" ELSE connection[d]
<1> DEFINE k == [kind |-> "close", by |-> c]
<1>1. CASE c # NoClient /\ connection[c] = "open"
  <2>1. k \in Task /\ k.kind = "close" /\ k.by = c
    BY <1>1 DEF Task
  <2>2. queue' = Append(rest, k) /\ connection' = [connection EXCEPT ![c] = "closing"]
    BY <1>1 DEF CloseConnection
  <2> HIDE DEF k
  <2>3. /\ queue' \in Seq(Task) /\ InOrder(queue', t)
        /\ \A d, K : Has(queue', t, d, K) <=>
              Has(rest, t, d, K) \/ (k.by = d /\ k.kind \in K)
    BY <1>1, <2>1, <2>2, AppendPosts DEF Starts
  <2> QED BY <1>1, <2>1, <2>2, <2>3 DEF Types
<1>2. CASE ~(c # NoClient /\ connection[c] = "open")
  <2>1. queue' = rest /\ connection' = connection
    BY <1>2 DEF CloseConnection
  <2> QED BY <1>2, <2>1 DEF Types
<1> QED BY <1>1, <1>2

\* removeCreature takes the reference of the game with it.
LEMMA RemovalCounts ==
    ASSUME Types, Counts(player, useCount, object), NEW p \in Player,
           object[p] = "placed", RemoveCreature(p)
    PROVE  /\ object' \in [Player -> {"none", "loaded", "placed", "removed"}]
           /\ useCount' \in [Player -> Int]
           /\ Counts(player, useCount', object')
           /\ \A q \in Player : object'[q] = IF q = p THEN "removed" ELSE object[q]
<1>1. \A q \in Player : Cardinality(Users(player, q)) \in Nat
  BY UsersAreFew
<1> QED BY <1>1 DEF Types, Counts, RemoveCreature

LEMMA HasMore ==
    ASSUME NEW q, NEW t, NEW c, NEW K, NEW L, K \subseteq L, Has(q, t, c, K)
    PROVE  Has(q, t, c, L)
BY DEF Has

LEMMA SameFits ==
    ASSUME NEW c, NEW q, NEW t, NEW u, NEW v, NEW con, NEW pl, NEW acc, NEW ref,
           NEW gone, NEW obj, Fits(c, q, t, con, pl, acc, ref, gone, obj),
           \A K : Has(u, v, c, K) <=> Has(q, t, c, K)
    PROVE  Fits(c, u, v, con, pl, acc, ref, gone, obj)
BY DEF Fits

-----------------------------------------------------------------------------
(* The network and the scheduler.                                          *)

LEMMA FirstPacketKeeps ==
    ASSUME Inv, NEW c \in Client, NEW n \in Name, FirstPacket(c, n)
    PROVE  Inv'
<1> DEFINE k == [kind |-> "login", by |-> c, name |-> n]
<1>1. /\ connection[c] = "unused"
      /\ connection' = [connection EXCEPT ![c] = "open"]
      /\ queue' = Append(queue, k)
      /\ UNCHANGED <<timers, player, accepting, refCount, deleted, playerVars, held>>
  BY DEF FirstPacket
<1>2. k \in Task /\ k.by = c /\ k.kind = "login"
  BY DEF Task
<1> HIDE DEF k
<1>3. /\ player[c] = NoPlayer /\ object[c] = "none" /\ ~accepting[c] /\ c \notin deleted
      /\ refCount[c] = IF Has(queue, timers, c, {"connect"}) THEN 1 ELSE 0
      /\ ~Has(queue, timers, c, AnyKind)
  BY <1>1 DEF Inv, Waiting, FitsNow, Fits
<1>4. /\ ~Has(queue, timers, c, StartKinds) /\ ~Has(queue, timers, c, EndKinds)
      /\ ~Has(queue, timers, c, {"connect"})
  BY <1>3, HasMore DEF StartKinds, EndKinds, AnyKind
<1>5. /\ queue' \in Seq(Task) /\ InOrder(queue', timers)
      /\ \A d, K : Has(queue', timers, d, K) <=>
            Has(queue, timers, d, K) \/ (c = d /\ "login" \in K)
  <2>1. queue \in Seq(Task) /\ timers \in Seq(Task) /\ InOrder(queue, timers)
    BY DEF Inv, Types
  <2>2. /\ Append(queue, k) \in Seq(Task) /\ InOrder(Append(queue, k), timers)
        /\ \A d, K : Has(Append(queue, k), timers, d, K) <=>
              Has(queue, timers, d, K) \/ (k.by = d /\ k.kind \in K)
    BY <1>2, <1>4, <2>1, AppendPosts
  <2> QED BY <1>1, <1>2, <2>2
<1>6. Types'
  BY <1>1, <1>5 DEF Inv, Types, playerVars
<1>7. ASSUME NEW d \in Client PROVE FitsNow(d, queue, timers)'
  <2>1. CASE d = c
    <3>1. /\ connection'[d] = "open" /\ player'[d] = NoPlayer /\ object'[d] = "none"
          /\ ~accepting'[d] /\ d \notin deleted' /\ refCount'[d] = 0
      BY <1>1, <1>3, <1>4, <2>1 DEF Inv, Types, playerVars
    <3>2. ~Has(queue', timers', d, EndKinds) /\ ~Has(queue', timers', d, {"connect"})
      BY <1>1, <1>4, <1>5, <2>1 DEF EndKinds
    <3> QED BY <3>1, <3>2 DEF FitsNow, Fits
  <2>2. CASE d # c
    <3>1. FitsNow(d, queue, timers) /\ connection'[d] = connection[d]
      BY <1>1, <2>2 DEF Inv, Types, Waiting
    <3>2. \A K : Has(queue', timers', d, K) <=> Has(queue, timers, d, K)
      BY <1>1, <1>5, <2>2
    <3> QED BY <1>1, <3>1, <3>2, SameFits DEF FitsNow, playerVars
  <2> QED BY <2>1, <2>2
<1>8. Linked'
  <2>1. DriversAreClients'
    BY <1>1, <1>3 DEF Inv, Types, Linked, DriversAreClients, playerVars
  <2> QED BY <1>1, <2>1 DEF Inv, Linked, UnloadedAreFree, ClientsPointBack, NamesDiffer, playerVars
<1> QED BY <1>1, <1>5, <1>6, <1>7, <1>8 DEF Inv, Waiting

LEMMA LogoutPacketKeeps ==
    ASSUME Inv, NEW c \in Client, LogoutPacket(c)
    PROVE  Inv'
<1> DEFINE k == [kind |-> "logout", by |-> c]
<1>1. /\ connection[c] = "open" /\ queue' = Append(queue, k)
      /\ UNCHANGED <<timers, protocolVars, playerVars, held>>
  BY DEF LogoutPacket
<1>2. k \in Task /\ k.by = c /\ k.kind = "logout" /\ ~Starts(k.kind)
  BY DEF Task, Starts
<1> HIDE DEF k
<1>3. FitsNow(c, queue, timers) /\ ~Has(queue, timers, c, EndKinds)
  BY <1>1 DEF Inv, Waiting, FitsNow, Fits
<1>q. queue \in Seq(Task) /\ timers \in Seq(Task) /\ InOrder(queue, timers)
  BY DEF Inv, Types
<1>4. /\ queue' \in Seq(Task) /\ InOrder(queue', timers)
      /\ \A d, K : Has(queue', timers, d, K) <=>
            Has(queue, timers, d, K) \/ (c = d /\ "logout" \in K)
  BY <1>q, <1>1, <1>2, <1>3, AppendPosts
<1>5. Types'
  BY <1>1, <1>4 DEF Inv, Types, protocolVars, playerVars
<1>6. ASSUME NEW d \in Client PROVE FitsNow(d, queue, timers)'
  <2>1. FitsNow(d, queue, timers) /\ (d = c => connection[d] = "open")
    BY <1>1 DEF Inv, Waiting
  <2>2. \A K : "logout" \notin K =>
           (Has(queue', timers', d, K) <=> Has(queue, timers, d, K))
    BY <1>1, <1>4
  <2>3. d # c => \A K : Has(queue', timers', d, K) <=> Has(queue, timers, d, K)
    BY <1>1, <1>4
  <2> QED BY <1>1, <2>1, <2>2, <2>3
          DEF FitsNow, Fits, StartKinds, EndKinds, protocolVars, playerVars
<1>7. Linked'
  BY <1>1 DEF Inv, Linked, UnloadedAreFree, ClientsPointBack, DriversAreClients,
              NamesDiffer, protocolVars, playerVars
<1> QED BY <1>1, <1>4, <1>5, <1>6, <1>7 DEF Inv, Waiting

\* Closing connection c while rest waits: con becomes connection', and whatever
\* fitted rest fits what is then waiting.
LEMMA ClosingFits ==
    ASSUME Types, NEW c \in Client \cup {NoClient}, NEW rest \in Seq(Task),
           timers' \in Seq(Task), InOrder(rest, timers'),
           \A d \in Client : Fits(d, rest, timers', connection[d], player'[d],
                                  accepting'[d], refCount'[d], d \in deleted', object'[d]),
           CloseConnection(c, rest)
    PROVE  /\ queue' \in Seq(Task) /\ InOrder(queue', timers')
           /\ connection' \in [Client -> {"unused", "open", "closing", "closed"}]
           /\ \A d \in Client : connection'[d] = "open" => connection[d] = "open"
           /\ Waiting'
<1> DEFINE closes == c # NoClient /\ connection[c] = "open"
<1>1. closes => ~Has(rest, timers', c, EndKinds)
  BY DEF Fits
<1>2. /\ queue' \in Seq(Task) /\ InOrder(queue', timers')
      /\ \A d, K : Has(queue', timers', d, K) <=>
            Has(rest, timers', d, K) \/ (closes /\ d = c /\ "close" \in K)
      /\ connection' \in [Client -> {"unused", "open", "closing", "closed"}]
      /\ \A d \in Client : connection'[d] = IF closes /\ d = c THEN "closing" ELSE connection[d]
  BY <1>1, ClosingPosts
<1>3. ASSUME NEW d \in Client PROVE FitsNow(d, queue, timers)'
  <2>1. Fits(d, rest, timers', connection[d], player'[d], accepting'[d],
             refCount'[d], d \in deleted', object'[d])
    OBVIOUS
  <2>2. CASE closes /\ d = c
    <3>1. connection[d] = "open" /\ connection'[d] = "closing"
      BY <1>2, <2>2
    <3>2. \A K : "close" \notin K =>
             (Has(queue', timers', d, K) <=> Has(rest, timers', d, K))
      BY <1>2
    <3> QED BY <2>1, <3>1, <3>2 DEF FitsNow, Fits, StartKinds
  <2>3. CASE ~(closes /\ d = c)
    <3>1. connection'[d] = connection[d]
      BY <1>2, <2>3
    <3>2. \A K : Has(queue', timers', d, K) <=> Has(rest, timers', d, K)
      BY <1>2, <2>3
    <3> QED BY <2>1, <3>1, <3>2, SameFits DEF FitsNow
  <2> QED BY <2>2, <2>3
<1> QED BY <1>2, <1>3 DEF Waiting

LEMMA HangUpKeeps ==
    ASSUME Inv, NEW c \in Client, HangUp(c)
    PROVE  Inv'
<1>1. /\ CloseConnection(c, queue)
      /\ UNCHANGED <<timers, player, accepting, refCount, deleted, playerVars, held>>
  BY DEF HangUp
<1>2. /\ queue' \in Seq(Task) /\ InOrder(queue', timers')
      /\ connection' \in [Client -> {"unused", "open", "closing", "closed"}]
      /\ \A d \in Client : connection'[d] = "open" => connection[d] = "open"
      /\ Waiting'
  BY <1>1, ClosingFits DEF Inv, Types, Waiting, FitsNow, playerVars
<1>3. Types'
  BY <1>1, <1>2 DEF Inv, Types, playerVars
<1>4. Linked'
  BY <1>1, <1>2 DEF Inv, Linked, UnloadedAreFree, ClientsPointBack, DriversAreClients,
                    NamesDiffer, playerVars
<1> QED BY <1>2, <1>3, <1>4 DEF Inv

LEMMA ExpireKeeps ==
    ASSUME Inv, Expire
    PROVE  Inv'
<1>1. /\ timers # <<>> /\ queue' = Append(queue, Head(timers)) /\ timers' = Tail(timers)
      /\ UNCHANGED <<protocolVars, playerVars, held>>
  BY DEF Expire
<1>2. /\ queue' \in Seq(Task) /\ timers' \in Seq(Task) /\ InOrder(queue', timers')
      /\ \A c, K : Has(queue', timers', c, K) <=> Has(queue, timers, c, K)
  BY <1>1, ExpiryMoves DEF Inv, Types
<1>3. Types'
  BY <1>1, <1>2 DEF Inv, Types, protocolVars, playerVars
<1>4. Waiting'
  BY <1>1, <1>2, SameFits DEF Inv, Waiting, FitsNow, protocolVars, playerVars
<1>5. Linked'
  BY <1>1 DEF Inv, Linked, UnloadedAreFree, ClientsPointBack, DriversAreClients,
              NamesDiffer, protocolVars, playerVars
<1> QED BY <1>2, <1>3, <1>4, <1>5 DEF Inv

-----------------------------------------------------------------------------
(* The dispatcher's tasks.                                                 *)

\* What is left when a login or a connect event is taken.
LEMMA StarterLeaves ==
    ASSUME Inv, queue # <<>>, Starts(Head(queue).kind), NEW c, c = Head(queue).by
    PROVE  /\ c \in Client
           /\ Head(queue).kind = "login" => Head(queue).name \in Name
           /\ Head(queue).kind = "connect" => Head(queue).to \in Player
           /\ Tail(queue) \in Seq(Task) /\ InOrder(Tail(queue), timers)
           /\ player[c] = NoPlayer /\ ~accepting[c] /\ object[c] = "none"
           /\ connection[c] # "unused" /\ c \notin deleted
           /\ refCount[c] = IF Head(queue).kind = "connect" THEN 1 ELSE 0
           /\ ~Has(Tail(queue), timers, c, StartKinds)
           /\ ~Has(Tail(queue), timers, c, {"connect"})
           /\ Has(Tail(queue), timers, c, EndKinds) => connection[c] \in {"closing", "closed"}
           /\ \A d, K : d # c =>
                 (Has(Tail(queue), timers, d, K) <=> Has(queue, timers, d, K))
<1>q. queue \in Seq(Task) /\ timers \in Seq(Task) /\ InOrder(queue, timers)
  BY DEF Inv, Types
<1>1. /\ Tail(queue) \in Seq(Task) /\ Head(queue) \in Task
      /\ InOrder(Tail(queue), timers)
      /\ \A d, K : Has(queue, timers, d, K) <=>
            Has(Tail(queue), timers, d, K) \/ (Head(queue).by = d /\ Head(queue).kind \in K)
      /\ ~Has(Tail(queue), timers, c, StartKinds)
  BY <1>q, TailTakes
<1>2. /\ c \in Client /\ Head(queue).kind \in StartKinds
      /\ Head(queue).kind = "login" => Head(queue).name \in Name
      /\ Head(queue).kind = "connect" => Head(queue).to \in Player
  BY <1>1 DEF Task, Starts, StartKinds
<1>3. ~Has(Tail(queue), timers, c, {"connect"})
  BY <1>1, HasMore DEF StartKinds
<1>4. FitsNow(c, queue, timers)
  BY <1>2 DEF Inv, Waiting
<1>5. Has(queue, timers, c, StartKinds) /\ Has(queue, timers, c, AnyKind)
  BY <1>1, <1>2 DEF StartKinds, AnyKind, OtherKinds
<1>6. Has(queue, timers, c, {"connect"}) <=> Head(queue).kind = "connect"
  BY <1>1, <1>3
<1>7. Has(Tail(queue), timers, c, EndKinds) => Has(queue, timers, c, EndKinds)
  BY <1>1
<1> QED BY <1>1, <1>2, <1>3, <1>4, <1>5, <1>6, <1>7 DEF FitsNow, Fits

LEMMA LoginNewKeeps ==
    ASSUME Inv, queue # <<>>, Head(queue).kind = "login", NEW c, c = Head(queue).by,
           NEW n, n = Head(queue).name, \A p \in Placed : name[p] # n,
           LoginNew(c, n), held' = held
    PROVE  Inv'
<1> DEFINE q == Tail(queue)
<1>1. /\ c \in Client /\ n \in Name
      /\ q \in Seq(Task) /\ InOrder(q, timers)
      /\ player[c] = NoPlayer /\ ~accepting[c] /\ object[c] = "none"
      /\ connection[c] # "unused" /\ c \notin deleted /\ refCount[c] = 0
      /\ ~Has(q, timers, c, StartKinds) /\ ~Has(q, timers, c, {"connect"})
      /\ Has(q, timers, c, EndKinds) => connection[c] \in {"closing", "closed"}
      /\ \A d, K : d # c => (Has(q, timers, d, K) <=> Has(queue, timers, d, K))
  BY StarterLeaves DEF Starts
<1>2. /\ player' = [player EXCEPT ![c] = c] /\ client' = [client EXCEPT ![c] = c]
      /\ name' = [name EXCEPT ![c] = n]
      /\ timers' = timers /\ connecting' = connecting /\ refCount' = refCount
      /\ deleted' = deleted
      /\ \/ /\ object' = [object EXCEPT ![c] = "loaded"]
            /\ useCount' = [useCount EXCEPT ![c] = 1]
            /\ CloseConnection(c, q)
            /\ accepting' = accepting
         \/ /\ object' = [object EXCEPT ![c] = "placed"]
            /\ useCount' = [useCount EXCEPT ![c] = 2]
            /\ accepting' = [accepting EXCEPT ![c] = TRUE]
            /\ queue' = q
            /\ connection' = connection
  BY DEF LoginNew, Refuse, q
<1> HIDE DEF q
<1>3. /\ timers' \in Seq(Task)
      /\ player' \in [Client -> Player \cup {NoPlayer}] /\ accepting' \in [Client -> BOOLEAN]
      /\ client' \in [Player -> Client \cup {NoClient}] /\ name' \in [Player -> Name]
      /\ object' \in [Player -> {"none", "loaded", "placed", "removed"}]
      /\ useCount' \in [Player -> Int] /\ object'[c] \in {"loaded", "placed"}
      /\ \A p \in Player : p # c => object'[p] = object[p]
      /\ player'[c] = c
      /\ \A d \in Client : d # c => player'[d] = player[d] /\ accepting'[d] = accepting[d]
  <2>1. /\ timers' \in Seq(Task)
        /\ player' \in [Client -> Player \cup {NoPlayer}] /\ player'[c] = c
        /\ client' \in [Player -> Client \cup {NoClient}] /\ name' \in [Player -> Name]
        /\ \A d \in Client : d # c => player'[d] = player[d]
    BY <1>1, <1>2 DEF Inv, Types, Player
  <2>2. /\ object' \in [Player -> {"none", "loaded", "placed", "removed"}]
        /\ useCount' \in [Player -> Int] /\ object'[c] \in {"loaded", "placed"}
        /\ \A p \in Player : p # c => object'[p] = object[p]
    <3>1. /\ c \in Player /\ useCount \in [Player -> Int]
          /\ object \in [Player -> {"none", "loaded", "placed", "removed"}]
      BY <1>1 DEF Inv, Types, Player
    <3>2. CASE object' = [object EXCEPT ![c] = "loaded"] /\ useCount' = [useCount EXCEPT ![c] = 1]
      BY <3>1, <3>2
    <3>3. CASE object' = [object EXCEPT ![c] = "placed"] /\ useCount' = [useCount EXCEPT ![c] = 2]
      BY <3>1, <3>3
    <3> QED BY <1>2, <3>2, <3>3
  <2>3. /\ accepting' \in [Client -> BOOLEAN]
        /\ \A d \in Client : d # c => accepting'[d] = accepting[d]
    BY <1>1, <1>2 DEF Inv, Types
  <2> QED BY <2>1, <2>2, <2>3
<1>4. ASSUME NEW d \in Client
      PROVE  Fits(d, q, timers', connection[d], player'[d], accepting'[d],
                  refCount'[d], d \in deleted', object'[d])
  <2>1. CASE d = c
    BY <1>1, <1>2, <2>1 DEF Fits
  <2>2. CASE d # c
    <3>1. FitsNow(d, queue, timers)
      BY DEF Inv, Waiting
    <3> QED BY <1>1, <1>2, <1>3, <2>2, <3>1, SameFits DEF FitsNow, Player
  <2> QED BY <2>1, <2>2
<1>5. /\ queue' \in Seq(Task) /\ InOrder(queue', timers')
      /\ connection' \in [Client -> {"unused", "open", "closing", "closed"}]
      /\ \A d \in Client : connection'[d] = "open" => connection[d] = "open"
      /\ Waiting'
  <2>1. CASE CloseConnection(c, q)
    BY <1>1, <1>2, <1>3, <1>4, <2>1, ClosingFits DEF Inv
  <2>2. CASE queue' = q /\ connection' = connection
    BY <1>1, <1>2, <1>4, <2>2 DEF Inv, Types, Waiting, FitsNow
  <2> QED BY <1>2, <2>1, <2>2
<1>6. Types'
  BY <1>2, <1>3, <1>5 DEF Inv, Types
<1>7. Linked'
  <2>1. UnloadedAreFree /\ ClientsPointBack /\ DriversAreClients /\ NamesDiffer
    BY DEF Inv, Linked
  <2>2. NoPlayer \notin Player /\ NoClient \notin Client /\ c \in Player
    BY <1>1, SessionConstants DEF Player
  <2>3. UnloadedAreFree'
    BY <1>1, <1>2, <1>3, <2>1, <2>2 DEF UnloadedAreFree, Inv, Types
  <2>4. ClientsPointBack'
    BY <1>1, <1>2, <1>3, <2>1, <2>2 DEF ClientsPointBack, Inv, Types
  <2>5. DriversAreClients'
    <3> SUFFICES ASSUME NEW d \in Client, connection'[d] = "open", accepting'[d]
                 PROVE  player'[d] # NoPlayer /\ client'[player'[d]] = d
      BY DEF DriversAreClients
    <3>1. CASE d = c
      BY <1>1, <1>2, <1>3, <2>2, <3>1 DEF Inv, Types
    <3>2. CASE d # c
      <4>1. player[d] # NoPlayer /\ client[player[d]] = d /\ player[d] \in Player
        BY <1>3, <1>5, <2>1, <3>2 DEF DriversAreClients, Inv, Types
      <4>2. player[d] # c
        BY <1>1, <2>1, <2>2, <4>1 DEF UnloadedAreFree
      <4> QED BY <1>2, <1>3, <3>2, <4>1, <4>2 DEF Inv, Types
    <3> QED BY <3>1, <3>2
  <2>6. NamesDiffer'
    BY <1>1, <1>2, <1>3, <2>1, <2>2 DEF NamesDiffer, Placed, Inv, Types
  <2>7. Counts(player, useCount, object)'
    <3>1. player \in [Client -> Player \cup {NoPlayer}] /\ Counts(player, useCount, object)
      BY DEF Inv, Types, Linked
    <3>2. \A p \in Player : Cardinality(Users(player', p)) =
             Cardinality(Users(player, p)) + (IF p = c THEN 1 ELSE 0)
      <4>1. /\ player \in [Client -> Player \cup {NoPlayer}] /\ c \in Client /\ c \in Player
            /\ player[c] = NoPlayer /\ player'[c] = c
            /\ \A d \in Client : d # c => player'[d] = player[d]
        BY <1>1, <1>2, <2>2, <3>1
      <4> QED BY <4>1, UsersGrow
    <3>3. Users(player, c) = {}
      BY <1>1, <2>1, <2>2 DEF UnloadedAreFree, Users
    <3>4. \A p \in Player : Cardinality(Users(player, p)) \in Nat
      BY UsersAreFew
    <3>5. Cardinality(Users(player, c)) = 0
      BY <3>3, FS_EmptySet
    <3>6. ASSUME NEW p \in Player
          PROVE  useCount'[p] = Cardinality(Users(player', p))
                                + (IF object'[p] = "placed" THEN 1 ELSE 0)
      <4>1. CASE p = c
        <5>1. useCount'[c] = IF object'[c] = "placed" THEN 2 ELSE 1
          BY <1>2, <2>2 DEF Inv, Types
        <5> QED BY <2>2, <3>2, <3>5, <4>1, <5>1
      <4>2. CASE p # c
        <5>1. useCount'[p] = useCount[p] /\ object'[p] = object[p]
          BY <1>2, <1>3, <4>2 DEF Inv, Types
        <5> QED BY <3>1, <3>2, <3>4, <4>2, <5>1 DEF Counts
      <4> QED BY <4>1, <4>2
    <3> QED BY <3>6 DEF Counts
  <2> QED BY <2>3, <2>4, <2>5, <2>6, <2>7 DEF Linked
<1> QED BY <1>5, <1>6, <1>7 DEF Inv

LEMMA TakeOverKeeps ==
    ASSUME Inv, queue # <<>>, Head(queue).kind = "login", NEW c, c = Head(queue).by,
           NEW p \in Placed, TakeOver(c, p), held' = held
    PROVE  Inv'
<1> DEFINE q == Tail(queue)
           k == [kind |-> "connect", by |-> c, to |-> p]
<1>1. /\ c \in Client
      /\ q \in Seq(Task) /\ InOrder(q, timers)
      /\ player[c] = NoPlayer /\ ~accepting[c] /\ object[c] = "none"
      /\ connection[c] # "unused" /\ c \notin deleted /\ refCount[c] = 0
      /\ ~Has(q, timers, c, StartKinds) /\ ~Has(q, timers, c, {"connect"})
      /\ Has(q, timers, c, EndKinds) => connection[c] \in {"closing", "closed"}
      /\ \A d, K : d # c => (Has(q, timers, d, K) <=> Has(queue, timers, d, K))
  BY StarterLeaves DEF Starts
<1>2. /\ CloseConnection(client[p], q)
      /\ connecting' = [connecting EXCEPT ![p] = TRUE]
      /\ refCount' = [refCount EXCEPT ![c] = @ + 1]
      /\ timers' = Append(timers, k)
      /\ UNCHANGED <<player, accepting, deleted, object, name, client, useCount>>
  BY DEF TakeOver, AddRef, q, k
<1>3. k \in Task /\ k.by = c /\ k.kind = "connect" /\ p \in Player
  BY <1>1 DEF Task, Placed
<1> HIDE DEF q, k
<1>t. timers \in Seq(Task)
  BY DEF Inv, Types
<1>4. Joins(timers', timers, Len(timers) + 1, k)
  BY <1>t, <1>2, <1>3, AppendJoins
<1>5. /\ timers' \in Seq(Task) /\ InOrder(q, timers')
      /\ \A d, K : Has(q, timers', d, K) <=> Has(q, timers, d, K) \/ (c = d /\ "connect" \in K)
  BY <1>t, <1>1, <1>3, <1>4, JoiningSchedules
<1>6. refCount'[c] = 1 /\ refCount' \in [Client -> 0..1]
      /\ \A d \in Client : d # c => refCount'[d] = refCount[d]
  BY <1>1, <1>2 DEF Inv, Types
<1>7. ASSUME NEW d \in Client
      PROVE  Fits(d, q, timers', connection[d], player'[d], accepting'[d],
                  refCount'[d], d \in deleted', object'[d])
  <2>1. CASE d = c
    <3>1. /\ Has(q, timers', c, {"connect"})
          /\ Has(q, timers', c, EndKinds) => Has(q, timers, c, EndKinds)
      BY <1>5 DEF EndKinds
    <3> QED BY <1>1, <1>2, <1>6, <2>1, <3>1 DEF Fits
  <2>2. CASE d # c
    <3>1. FitsNow(d, queue, timers)
      BY DEF Inv, Waiting
    <3>2. \A K : Has(q, timers', d, K) <=> Has(queue, timers, d, K)
      BY <1>1, <1>5, <2>2
    <3> QED BY <1>2, <1>6, <2>2, <3>1, <3>2, SameFits DEF FitsNow
  <2> QED BY <2>1, <2>2
<1>8. /\ queue' \in Seq(Task) /\ InOrder(queue', timers')
      /\ connection' \in [Client -> {"unused", "open", "closing", "closed"}]
      /\ \A d \in Client : connection'[d] = "open" => connection[d] = "open"
      /\ Waiting'
  <2>1. Types /\ client[p] \in Client \cup {NoClient}
    BY <1>3 DEF Inv, Types
  <2> QED BY <1>1, <1>2, <1>5, <1>7, <2>1, ClosingFits
<1>9. Types'
  BY <1>2, <1>3, <1>5, <1>6, <1>8 DEF Inv, Types
<1>10. Linked'
  BY <1>2, <1>8 DEF Inv, Linked, UnloadedAreFree, ClientsPointBack, DriversAreClients,
                    NamesDiffer
<1> QED BY <1>8, <1>9, <1>10 DEF Inv

\* A client without a player and a character without a client find each other.
LEMMA AttachLinks ==
    ASSUME Types, Linked, NEW c \in Client, NEW p \in Placed,
           client[p] = NoClient, player[c] = NoPlayer, Attach(c, p)
    PROVE  /\ Linked'
           /\ player' \in [Client -> Player \cup {NoPlayer}]
           /\ accepting' \in [Client -> BOOLEAN]
           /\ client' \in [Player -> Client \cup {NoClient}]
           /\ connecting' \in [Player -> BOOLEAN]
           /\ useCount' \in [Player -> Int]
           /\ \A d \in Client : d # c => player'[d] = player[d] /\ accepting'[d] = accepting[d]
<1>1. /\ player' = [player EXCEPT ![c] = p]
      /\ useCount' = [useCount EXCEPT ![p] = @ + 1]
      /\ connecting' = [connecting EXCEPT ![p] = FALSE]
      /\ client' = [client EXCEPT ![p] = c]
      /\ accepting' = [accepting EXCEPT ![c] = TRUE]
      /\ connection' = connection /\ object' = object /\ name' = name
  BY DEF Attach, Connected
<1>2. p \in Player /\ object[p] = "placed" /\ NoPlayer \notin Player /\ NoClient \notin Client
  BY SessionConstants DEF Placed, Player
<1>3. /\ player' \in [Client -> Player \cup {NoPlayer}]
      /\ accepting' \in [Client -> BOOLEAN]
      /\ client' \in [Player -> Client \cup {NoClient}]
      /\ connecting' \in [Player -> BOOLEAN]
      /\ useCount' \in [Player -> Int]
      /\ \A d \in Client : d # c => player'[d] = player[d] /\ accepting'[d] = accepting[d]
  BY <1>1, <1>2 DEF Types
<1>4. UnloadedAreFree' /\ ClientsPointBack' /\ DriversAreClients' /\ NamesDiffer'
  BY <1>1, <1>2 DEF Types, Linked, UnloadedAreFree, ClientsPointBack, DriversAreClients,
                    NamesDiffer
<1>5. Counts(player, useCount, object)'
  <2>1. \A r \in Player : Cardinality(Users(player', r)) =
           Cardinality(Users(player, r)) + (IF r = p THEN 1 ELSE 0)
    <3>1. /\ player \in [Client -> Player \cup {NoPlayer}] /\ p \in Player
          /\ player[c] = NoPlayer /\ player'[c] = p
          /\ \A d \in Client : d # c => player'[d] = player[d]
      BY <1>1, <1>2 DEF Types
    <3> QED BY <3>1, UsersGrow
  <2>2. \A r \in Player : Cardinality(Users(player, r)) \in Nat
    BY UsersAreFew
  <2>3. \A r \in Player : useCount'[r] = useCount[r] + (IF r = p THEN 1 ELSE 0)
                          /\ useCount[r] \in Int
    BY <1>1, <1>2 DEF Types
  <2>4. ASSUME NEW r \in Player
        PROVE  useCount'[r] = Cardinality(Users(player', r))
                              + (IF object'[r] = "placed" THEN 1 ELSE 0)
    <3>1. useCount[r] = Cardinality(Users(player, r))
                        + (IF object[r] = "placed" THEN 1 ELSE 0)
      BY DEF Linked, Counts
    <3>2. object'[r] = object[r]
      BY <1>1
    <3> QED BY <2>1, <2>2, <2>3, <3>1, <3>2
  <2> QED BY <2>4 DEF Counts
<1> QED BY <1>3, <1>4, <1>5 DEF Linked

\* ... of which the one is served by a login or a connect event.
LEMMA AttachKeeps ==
    ASSUME Inv, queue # <<>>, Starts(Head(queue).kind), NEW c, c = Head(queue).by,
           NEW p \in Placed, client[p] = NoClient, Attach(c, p),
           refCount' = IF Head(queue).kind = "connect"
                       THEN [refCount EXCEPT ![c] = @ - 1] ELSE refCount,
           timers' = timers, deleted' = deleted, held' = held
    PROVE  Inv'
<1> DEFINE q == Tail(queue)
<1>1. /\ c \in Client
      /\ q \in Seq(Task) /\ InOrder(q, timers)
      /\ player[c] = NoPlayer /\ ~accepting[c] /\ object[c] = "none"
      /\ connection[c] # "unused" /\ c \notin deleted
      /\ refCount[c] = IF Head(queue).kind = "connect" THEN 1 ELSE 0
      /\ ~Has(q, timers, c, StartKinds) /\ ~Has(q, timers, c, {"connect"})
      /\ Has(q, timers, c, EndKinds) => connection[c] \in {"closing", "closed"}
      /\ \A d, K : d # c => (Has(q, timers, d, K) <=> Has(queue, timers, d, K))
  BY StarterLeaves
<1>2. queue' = q /\ connection' = connection /\ object' = object /\ name' = name
  BY DEF Attach, q
<1> HIDE DEF q
<1>3. /\ Linked'
      /\ player' \in [Client -> Player \cup {NoPlayer}]
      /\ accepting' \in [Client -> BOOLEAN]
      /\ client' \in [Player -> Client \cup {NoClient}]
      /\ connecting' \in [Player -> BOOLEAN]
      /\ useCount' \in [Player -> Int]
      /\ \A d \in Client : d # c => player'[d] = player[d] /\ accepting'[d] = accepting[d]
  BY <1>1, AttachLinks DEF Inv
<1>4. /\ refCount'[c] = 0 /\ refCount' \in [Client -> 0..1]
      /\ \A d \in Client : d # c => refCount'[d] = refCount[d]
  BY <1>1 DEF Inv, Types
<1>5. ASSUME NEW d \in Client PROVE FitsNow(d, queue, timers)'
  <2>1. CASE d = c
    BY <1>1, <1>2, <1>4, <2>1 DEF FitsNow, Fits
  <2>2. CASE d # c
    <3>1. FitsNow(d, queue, timers)
      BY DEF Inv, Waiting
    <3>2. \A K : Has(queue', timers', d, K) <=> Has(queue, timers, d, K)
      BY <1>1, <1>2, <2>2
    <3> QED BY <1>2, <1>3, <1>4, <2>2, <3>1, <3>2, SameFits DEF FitsNow
  <2> QED BY <2>1, <2>2
<1>6. Types'
  BY <1>1, <1>2, <1>3, <1>4 DEF Inv, Types
<1> QED BY <1>1, <1>2, <1>3, <1>5, <1>6 DEF Inv, Waiting

LEMMA RunLoginKeeps ==
    ASSUME Inv, RunLogin
    PROVE  Inv'
<1> DEFINE c == Head(queue).by
           n == Head(queue).name
<1>1. queue # <<>> /\ Head(queue).kind = "login" /\ held' = held
  BY DEF RunLogin, First
<1>2. CASE (\A p \in Placed : name[p] # n) /\ LoginNew(c, n)
  BY <1>1, <1>2, LoginNewKeeps
<1>3. CASE \E p \in Placed : TakeOver(c, p)
  BY <1>1, <1>3, TakeOverKeeps
<1>4. CASE \E p \in Placed : /\ client[p] = NoClient /\ Attach(c, p)
                             /\ UNCHANGED <<timers, refCount, deleted>>
  BY <1>1, <1>4, AttachKeeps DEF Starts
<1> QED BY <1>2, <1>3, <1>4 DEF RunLogin

LEMMA RunConnectKeeps ==
    ASSUME Inv, RunConnect
    PROVE  Inv'
<1> DEFINE c == Head(queue).by
           p == Head(queue).to
           q == Tail(queue)
<1>1. /\ queue # <<>> /\ Head(queue).kind = "connect" /\ Starts(Head(queue).kind)
      /\ refCount' = [refCount EXCEPT ![c] = @ - 1]
      /\ timers' = timers /\ deleted' = deleted /\ held' = held
  BY DEF RunConnect, First, Starts
<1>2. CASE MayConnect(p) /\ Attach(c, p)
  BY <1>1, <1>2, AttachKeeps DEF MayConnect
<1>3. CASE Refuse(c) /\ UNCHANGED <<player, accepting, playerVars>>
  <2>1. /\ c \in Client
        /\ q \in Seq(Task) /\ InOrder(q, timers)
        /\ player[c] = NoPlayer /\ ~accepting[c] /\ object[c] = "none"
        /\ connection[c] # "unused" /\ c \notin deleted /\ refCount[c] = 1
        /\ ~Has(q, timers, c, StartKinds) /\ ~Has(q, timers, c, {"connect"})
        /\ Has(q, timers, c, EndKinds) => connection[c] \in {"closing", "closed"}
        /\ \A d, K : d # c => (Has(q, timers, d, K) <=> Has(queue, timers, d, K))
    BY <1>1, StarterLeaves
  <2>2. CloseConnection(c, q)
    BY <1>3 DEF Refuse
  <2> HIDE DEF q
  <2>3. /\ refCount'[c] = 0 /\ refCount' \in [Client -> 0..1]
        /\ \A d \in Client : d # c => refCount'[d] = refCount[d]
    BY <1>1, <2>1 DEF Inv, Types
  <2>4. ASSUME NEW d \in Client
        PROVE  Fits(d, q, timers', connection[d], player'[d], accepting'[d],
                    refCount'[d], d \in deleted', object'[d])
    <3>1. CASE d = c
      BY <1>1, <1>3, <2>1, <2>3, <3>1 DEF Fits, playerVars
    <3>2. CASE d # c
      <4>1. FitsNow(d, queue, timers)
        BY DEF Inv, Waiting
      <4> QED BY <1>1, <1>3, <2>1, <2>3, <3>2, <4>1, SameFits DEF FitsNow, playerVars
    <3> QED BY <3>1, <3>2
  <2>5. /\ queue' \in Seq(Task) /\ InOrder(queue', timers')
        /\ connection' \in [Client -> {"unused", "open", "closing", "closed"}]
        /\ \A d \in Client : connection'[d] = "open" => connection[d] = "open"
        /\ Waiting'
    BY <1>1, <2>1, <2>2, <2>4, ClosingFits DEF Inv, Types
  <2>6. Types'
    BY <1>1, <1>3, <2>3, <2>5 DEF Inv, Types, playerVars
  <2>7. Linked'
    BY <1>3, <2>5 DEF Inv, Linked, UnloadedAreFree, ClientsPointBack, DriversAreClients,
                      NamesDiffer, playerVars
  <2> QED BY <2>5, <2>6, <2>7 DEF Inv
<1> QED BY <1>2, <1>3 DEF RunConnect

\* A player that was in the game may be removed from it.
LEMMA RemovedFits ==
    ASSUME NEW d, NEW q, NEW t, NEW con, NEW pl, NEW acc, NEW ref, NEW gone,
           Fits(d, q, t, con, pl, acc, ref, gone, "placed")
    PROVE  Fits(d, q, t, con, pl, acc, ref, gone, "removed")
BY DEF Fits

\* A task that neither starts nor ends a client is taken.
LEMMA IdleLeaves ==
    ASSUME Inv, queue # <<>>, Head(queue).kind = "logout"
    PROVE  /\ Head(queue).by \in Client
           /\ Tail(queue) \in Seq(Task) /\ InOrder(Tail(queue), timers)
           /\ \A d \in Client : FitsNow(d, Tail(queue), timers)
<1>q. queue \in Seq(Task) /\ timers \in Seq(Task) /\ InOrder(queue, timers)
  BY DEF Inv, Types
<1>1. /\ Tail(queue) \in Seq(Task) /\ Head(queue) \in Task
      /\ InOrder(Tail(queue), timers)
      /\ \A d, K : Has(queue, timers, d, K) <=>
            Has(Tail(queue), timers, d, K) \/ (Head(queue).by = d /\ Head(queue).kind \in K)
  BY <1>q, TailTakes
<1>2. Head(queue).by \in Client
  BY <1>1 DEF Task
<1>3. ASSUME NEW d \in Client PROVE FitsNow(d, Tail(queue), timers)
  <2>1. FitsNow(d, queue, timers)
    BY DEF Inv, Waiting
  <2>2. /\ \A K : Has(Tail(queue), timers, d, K) => Has(queue, timers, d, K)
        /\ \A K : "logout" \notin K =>
              (Has(Tail(queue), timers, d, K) <=> Has(queue, timers, d, K))
    BY <1>1
  <2> QED BY <2>1, <2>2 DEF FitsNow, Fits, StartKinds, EndKinds
<1> QED BY <1>1, <1>2, <1>3

\* Removing a character breaks no link.
LEMMA RemovalLinks ==
    ASSUME Types, Linked, NEW p \in Player, object[p] = "placed", RemoveCreature(p),
           player' = player, client' = client, name' = name, accepting' = accepting,
           \A d \in Client : connection'[d] = "open" => connection[d] = "open"
    PROVE  /\ Linked'
           /\ object' \in [Player -> {"none", "loaded", "placed", "removed"}]
           /\ useCount' \in [Player -> Int]
<1>1. /\ object' \in [Player -> {"none", "loaded", "placed", "removed"}]
      /\ useCount' \in [Player -> Int]
      /\ Counts(player, useCount', object')
      /\ \A q \in Player : object'[q] = IF q = p THEN "removed" ELSE object[q]
  BY RemovalCounts DEF Linked
<1>2. Counts(player, useCount, object)'
  BY <1>1 DEF Counts
<1>3. UnloadedAreFree' /\ ClientsPointBack' /\ DriversAreClients' /\ NamesDiffer'
  BY <1>1 DEF Linked, UnloadedAreFree, ClientsPointBack, DriversAreClients, NamesDiffer
<1> QED BY <1>1, <1>2, <1>3 DEF Linked

\* Logging out, while rest waits.
LEMMA LogOutKeeps ==
    ASSUME Inv, NEW c \in Client, player[c] \in Player, NEW rest \in Seq(Task),
           InOrder(rest, timers), \A d \in Client : FitsNow(d, rest, timers),
           LogOut(c, rest),
           UNCHANGED <<timers, player, accepting, refCount, deleted, name, client,
                       connecting, held>>
    PROVE  Inv'
<1>1. CloseConnection(c, rest)
  BY DEF LogOut
<1>2. \/ object[player[c]] = "placed" /\ RemoveCreature(player[c])
      \/ object' = object /\ useCount' = useCount
  BY DEF LogOut
<1>t. Types /\ Linked /\ timers' \in Seq(Task) /\ InOrder(rest, timers')
  BY DEF Inv, Types
<1>3. ASSUME NEW d \in Client
      PROVE  object'[d] = object[d] \/ (object[d] = "placed" /\ object'[d] = "removed")
  BY <1>2, <1>t DEF RemoveCreature, Types, Player
<1>4. ASSUME NEW d \in Client
      PROVE  Fits(d, rest, timers', connection[d], player'[d], accepting'[d],
                  refCount'[d], d \in deleted', object'[d])
  <2>1. Fits(d, rest, timers', connection[d], player'[d], accepting'[d],
             refCount'[d], d \in deleted', object[d])
    BY DEF FitsNow
  <2> QED BY <1>3, <2>1, RemovedFits
<1>5. /\ queue' \in Seq(Task) /\ InOrder(queue', timers')
      /\ connection' \in [Client -> {"unused", "open", "closing", "closed"}]
      /\ \A d \in Client : connection'[d] = "open" => connection[d] = "open"
      /\ Waiting'
  BY <1>1, <1>t, <1>4, ClosingFits
<1>6. /\ Linked'
      /\ object' \in [Player -> {"none", "loaded", "placed", "removed"}]
      /\ useCount' \in [Player -> Int]
  <2>1. CASE object[player[c]] = "placed" /\ RemoveCreature(player[c])
    BY <1>t, <1>5, <2>1, RemovalLinks
  <2>2. CASE object' = object /\ useCount' = useCount
    BY <1>t, <1>5, <2>2 DEF Types, Linked, UnloadedAreFree, ClientsPointBack,
                            DriversAreClients, NamesDiffer
  <2> QED BY <1>2, <2>1, <2>2
<1>7. Types'
  BY <1>t, <1>5, <1>6 DEF Types
<1> QED BY <1>5, <1>6, <1>7 DEF Inv

LEMMA RunLogoutKeeps ==
    ASSUME Inv, RunLogout
    PROVE  Inv'
<1> DEFINE c == Head(queue).by
<1>1. /\ queue # <<>> /\ Head(queue).kind = "logout"
      /\ UNCHANGED <<timers, player, accepting, refCount, deleted, name, client,
                     connecting, held>>
  BY DEF RunLogout, First
<1>2. /\ c \in Client /\ Tail(queue) \in Seq(Task) /\ InOrder(Tail(queue), timers)
      /\ \A d \in Client : FitsNow(d, Tail(queue), timers)
  BY <1>1, IdleLeaves
<1>3. CASE queue' = Tail(queue) /\ UNCHANGED <<connection, object, useCount>>
  <2>1. Types'
    BY <1>1, <1>2, <1>3 DEF Inv, Types
  <2>2. Linked'
    BY <1>1, <1>3 DEF Inv, Linked, UnloadedAreFree, ClientsPointBack, DriversAreClients,
                      NamesDiffer
  <2>3. InOrder(queue', timers') /\ Waiting'
    BY <1>1, <1>2, <1>3 DEF Waiting, FitsNow
  <2> QED BY <2>1, <2>2, <2>3 DEF Inv
<1>4. CASE player[c] # NoPlayer /\ LogOut(c, Tail(queue))
  <2>1. player[c] \in Player
    BY <1>2, <1>4 DEF Inv, Types
  <2> QED BY <1>1, <1>2, <1>4, <2>1, LogOutKeeps
<1> QED BY <1>3, <1>4 DEF RunLogout

\* What is left when the end of a client is taken.
LEMMA EnderLeaves ==
    ASSUME Inv, queue # <<>>, Ends(Head(queue).kind), NEW c, c = Head(queue).by
    PROVE  /\ c \in Client
           /\ Tail(queue) \in Seq(Task) /\ InOrder(Tail(queue), timers)
           /\ connection[c] \in {"closing", "closed"} /\ c \notin deleted
           /\ ~Has(Tail(queue), timers, c, OtherKinds)
           /\ Has(Tail(queue), timers, c, {"connect"}) <=> refCount[c] > 0
           /\ Has(Tail(queue), timers, c, StartKinds) =>
                 player[c] = NoPlayer /\ ~accepting[c] /\ object[c] = "none"
           /\ \A d, K : d # c =>
                 (Has(Tail(queue), timers, d, K) <=> Has(queue, timers, d, K))
<1>q. queue \in Seq(Task) /\ timers \in Seq(Task) /\ InOrder(queue, timers)
  BY DEF Inv, Types
<1>1. /\ Tail(queue) \in Seq(Task) /\ Head(queue) \in Task
      /\ InOrder(Tail(queue), timers)
      /\ \A d, K : Has(queue, timers, d, K) <=>
            Has(Tail(queue), timers, d, K) \/ (Head(queue).by = d /\ Head(queue).kind \in K)
      /\ ~Has(Tail(queue), timers, c, OtherKinds)
  BY <1>q, TailTakes
<1>2. c \in Client /\ Head(queue).kind \in EndKinds
  BY <1>1 DEF Task, Ends, EndKinds
<1>3. FitsNow(c, queue, timers)
  BY <1>2 DEF Inv, Waiting
<1>4. Has(queue, timers, c, EndKinds) /\ Has(queue, timers, c, AnyKind)
  BY <1>1, <1>2 DEF EndKinds, AnyKind
<1>5. Has(Tail(queue), timers, c, {"connect"}) <=> Has(queue, timers, c, {"connect"})
  BY <1>1, <1>2 DEF EndKinds
<1>6. Has(Tail(queue), timers, c, StartKinds) => Has(queue, timers, c, StartKinds)
  BY <1>1
<1> QED BY <1>1, <1>2, <1>3, <1>4, <1>5, <1>6 DEF FitsNow, Fits

\* Without "connect" there is nothing left.
LEMMA OnlyConnects ==
    ASSUME NEW q \in Seq(Task), NEW t \in Seq(Task), NEW c,
           ~Has(q, t, c, OtherKinds), ~Has(q, t, c, {"connect"})
    PROVE  ~Has(q, t, c, AnyKind)
BY DEF Has, AnyKind, OtherKinds

\* The end of a client: its close task or one that came after it.
LEMMA EndKeeps ==
    ASSUME Inv, queue # <<>>, Ends(Head(queue).kind), NEW c, c = Head(queue).by,
           ReleaseProtocol(c), queue' = Tail(queue),
           \/ connection' = connection
           \/ connection' = [connection EXCEPT ![c] = "closed"],
           UNCHANGED <<accepting, refCount, object, name, connecting, held>>
    PROVE  Inv'
<1> DEFINE q == Tail(queue)
           k == [kind |-> "release", by |-> c]
<1>1. /\ c \in Client
      /\ q \in Seq(Task) /\ InOrder(q, timers)
      /\ connection[c] \in {"closing", "closed"} /\ c \notin deleted
      /\ ~Has(q, timers, c, OtherKinds)
      /\ Has(q, timers, c, {"connect"}) <=> refCount[c] > 0
      /\ Has(q, timers, c, StartKinds) =>
            player[c] = NoPlayer /\ ~accepting[c] /\ object[c] = "none"
      /\ \A d, K : d # c => (Has(q, timers, d, K) <=> Has(queue, timers, d, K))
  BY EnderLeaves
<1>2. /\ client' = [p \in Player |->
                      IF p = player[c] /\ client[p] = c THEN NoClient ELSE client[p]]
      /\ \/ /\ refCount[c] > 0
            /\ \E i \in 1 .. Len(timers) + 1 : timers' = InsertAt(timers, i, k)
            /\ player' = player /\ deleted' = deleted /\ useCount' = useCount
         \/ /\ ~(refCount[c] > 0)
            /\ deleted' = deleted \cup {c}
            /\ player' = [player EXCEPT ![c] = NoPlayer]
            /\ useCount' = [p \in Player |->
                              IF p = player[c] THEN useCount[p] - 1 ELSE useCount[p]]
            /\ timers' = timers
  BY DEF ReleaseProtocol, Released
<1>3. k \in Task /\ k.by = c /\ k.kind = "release"
  BY <1>1 DEF Task
<1>4. queue' = q
  OBVIOUS
<1> HIDE DEF q, k
<1>t. /\ timers \in Seq(Task) /\ player \in [Client -> Player \cup {NoPlayer}]
      /\ client \in [Player -> Client \cup {NoClient}]
      /\ connection \in [Client -> {"unused", "open", "closing", "closed"}]
      /\ useCount \in [Player -> Int] /\ deleted \subseteq Client
      /\ refCount \in [Client -> 0..1]
  BY DEF Inv, Types
<1>5. /\ connection' \in [Client -> {"unused", "open", "closing", "closed"}]
      /\ connection'[c] \in {"closing", "closed"}
      /\ \A d \in Client : d # c => connection'[d] = connection[d]
  BY <1>1, <1>t
<1>6. /\ client' \in [Player -> Client \cup {NoClient}]
      /\ player' \in [Client -> Player \cup {NoPlayer}]
      /\ useCount' \in [Player -> Int] /\ deleted' \subseteq Client
      /\ \A d \in Client : d # c => player'[d] = player[d] /\ (d \in deleted' <=> d \in deleted)
      /\ player'[c] = player[c] \/ player'[c] = NoPlayer
  <2>1. client' \in [Player -> Client \cup {NoClient}]
    BY <1>2, <1>t
  <2>2. CASE player' = player /\ deleted' = deleted /\ useCount' = useCount
    BY <1>t, <2>1, <2>2
  <2>3. CASE /\ deleted' = deleted \cup {c}
             /\ player' = [player EXCEPT ![c] = NoPlayer]
             /\ useCount' = [p \in Player |->
                               IF p = player[c] THEN useCount[p] - 1 ELSE useCount[p]]
    BY <1>1, <1>t, <2>1, <2>3
  <2> QED BY <1>2, <2>2, <2>3
<1>7. /\ timers' \in Seq(Task) /\ InOrder(q, timers')
      /\ \A d, K : d # c => (Has(q, timers', d, K) <=> Has(q, timers, d, K))
      /\ \A K : "release" \notin K => (Has(q, timers', c, K) <=> Has(q, timers, c, K))
  <2>1. CASE timers' = timers
    BY <1>1, <1>t, <2>1
  <2>2. CASE \E i \in 1 .. Len(timers) + 1 : timers' = InsertAt(timers, i, k)
    <3>1. PICK i \in 1 .. Len(timers) + 1 : timers' = InsertAt(timers, i, k)
      BY <2>2
    <3>2. Joins(timers', timers, i, k)
      BY <1>t, <1>3, <3>1, InsertJoins
    <3>3. /\ timers' \in Seq(Task) /\ InOrder(q, timers')
          /\ \A d, K : Has(q, timers', d, K) <=>
                Has(q, timers, d, K) \/ (k.by = d /\ k.kind \in K)
      <4>1. ~Has(q, timers, k.by, OtherKinds) /\ timers \in Seq(Task)
        BY <1>1, <1>3, <1>t
      <4> QED BY <1>1, <1>3, <3>2, <4>1, JoiningSchedules
    <3> QED BY <1>3, <3>3
  <2> QED BY <1>2, <2>1, <2>2
<1>8. ASSUME NEW d \in Client PROVE FitsNow(d, queue, timers)'
  <2>1. CASE d = c
    <3>1. /\ Has(q, timers', c, {"connect"}) <=> refCount[c] > 0
          /\ Has(q, timers', c, StartKinds) <=> Has(q, timers, c, StartKinds)
      BY <1>1, <1>7 DEF StartKinds
    <3>2. refCount'[c] = IF Has(q, timers', c, {"connect"}) THEN 1 ELSE 0
      BY <1>1, <1>t, <3>1
    <3>3. c \in deleted' => player'[c] = NoPlayer /\ ~Has(q, timers', c, AnyKind)
      <4>1. CASE refCount[c] > 0
        BY <1>1, <1>2, <4>1
      <4>2. CASE ~(refCount[c] > 0)
        <5>1. player'[c] = NoPlayer /\ timers' = timers
          BY <1>1, <1>2, <1>t, <4>2
        <5> QED BY <1>1, <1>t, <4>2, <5>1, OnlyConnects
      <4> QED BY <4>1, <4>2
    <3> QED BY <1>1, <1>4, <1>5, <1>6, <2>1, <3>1, <3>2, <3>3 DEF FitsNow, Fits
  <2>2. CASE d # c
    <3>1. FitsNow(d, queue, timers)
      BY DEF Inv, Waiting
    <3>2. \A K : Has(queue', timers', d, K) <=> Has(queue, timers, d, K)
      <4>1. \A K : Has(q, timers', d, K) <=> Has(q, timers, d, K)
        BY <1>7, <2>2
      <4>2. \A K : Has(q, timers, d, K) <=> Has(queue, timers, d, K)
        BY <1>1, <2>2
      <4> QED BY <1>4, <4>1, <4>2
    <3> QED BY <1>5, <1>6, <2>2, <3>1, <3>2, SameFits DEF FitsNow
  <2> QED BY <2>1, <2>2
<1>9. Types'
  BY <1>1, <1>4, <1>5, <1>6, <1>7 DEF Inv, Types
<1>10. Linked'
  <2>1. /\ UnloadedAreFree /\ ClientsPointBack /\ DriversAreClients /\ NamesDiffer
        /\ Counts(player, useCount, object)
        /\ NoPlayer \notin Player /\ NoClient \notin Client
    BY SessionConstants DEF Inv, Linked, Player
  <2>2. /\ \A p \in Player : client'[p] = NoClient \/ (client'[p] = client[p] /\ client[p] # c)
                             \/ (client'[p] = client[p] /\ p # player[c])
        /\ \A p \in Player : client[p] = NoClient => client'[p] = NoClient
        /\ \A p \in Player : client[p] # c => client'[p] = client[p]
    BY <1>2
  <2>3. UnloadedAreFree'
    BY <1>6, <2>1, <2>2 DEF UnloadedAreFree
  <2>4. ClientsPointBack'
    BY <1>1, <1>6, <1>t, <2>1, <2>2 DEF ClientsPointBack
  <2>5. DriversAreClients'
    BY <1>1, <1>5, <1>6, <1>t, <2>1, <2>2 DEF DriversAreClients
  <2>6. NamesDiffer'
    BY <2>1 DEF NamesDiffer
  <2>7. Counts(player, useCount, object)'
    <3>1. CASE player' = player /\ useCount' = useCount
      BY <2>1, <3>1 DEF Counts
    <3>2. CASE /\ player' = [player EXCEPT ![c] = NoPlayer]
               /\ useCount' = [p \in Player |->
                                 IF p = player[c] THEN useCount[p] - 1 ELSE useCount[p]]
      <4>1. \A p \in Player : Cardinality(Users(player', p)) =
               Cardinality(Users(player, p)) - (IF p = player[c] THEN 1 ELSE 0)
        <5>1. /\ c \in Client /\ player \in [Client -> Player \cup {NoPlayer}]
              /\ player'[c] = NoPlayer
              /\ \A d \in Client : d # c => player'[d] = player[d]
          BY <1>1, <1>t, <3>2
        <5> QED BY <5>1, UsersShrink
      <4>2. \A p \in Player : Cardinality(Users(player, p)) \in Nat
        BY UsersAreFew
      <4>3. \A p \in Player : useCount'[p] = useCount[p] - (IF p = player[c] THEN 1 ELSE 0)
        BY <1>t, <3>2
      <4>4. ASSUME NEW p \in Player
            PROVE  useCount'[p] = Cardinality(Users(player', p))
                                  + (IF object'[p] = "placed" THEN 1 ELSE 0)
        <5>1. useCount[p] = Cardinality(Users(player, p))
                            + (IF object[p] = "placed" THEN 1 ELSE 0)
          BY <2>1 DEF Counts
        <5> QED BY <4>1, <4>2, <4>3, <5>1
      <4> QED BY <4>4 DEF Counts
    <3> QED BY <1>2, <3>1, <3>2
  <2> QED BY <2>3, <2>4, <2>5, <2>6, <2>7 DEF Linked
<1> QED BY <1>1, <1>4, <1>7, <1>8, <1>9, <1>10 DEF Inv, Waiting

LEMMA RunCloseKeeps ==
    ASSUME Inv, RunClose
    PROVE  Inv'
BY EndKeeps DEF RunClose, First, Ends

LEMMA RunReleaseKeeps ==
    ASSUME Inv, RunRelease
    PROVE  Inv'
BY EndKeeps DEF RunRelease, First, Ends

-----------------------------------------------------------------------------
(* What removes characters in between.                                     *)

\* Nothing but the game's characters changes.
LEMMA RemovalKeeps ==
    ASSUME Inv, NEW p \in Placed, RemoveCreature(p),
           UNCHANGED <<queue, timers, protocolVars, name, client, connecting, held>>
    PROVE  Inv'
<1>1. Types /\ Linked /\ p \in Player /\ object[p] = "placed"
  BY DEF Inv, Placed
<1>2. /\ Linked'
      /\ object' \in [Player -> {"none", "loaded", "placed", "removed"}]
      /\ useCount' \in [Player -> Int]
  BY <1>1, RemovalLinks DEF protocolVars
<1>3. ASSUME NEW d \in Client
      PROVE  object'[d] = object[d] \/ (object[d] = "placed" /\ object'[d] = "removed")
  BY <1>1 DEF RemoveCreature, Types, Player
<1>4. ASSUME NEW d \in Client PROVE FitsNow(d, queue, timers)'
  <2>1. Fits(d, queue', timers', connection'[d], player'[d], accepting'[d],
             refCount'[d], d \in deleted', object[d])
    BY DEF Inv, Waiting, FitsNow, protocolVars
  <2> QED BY <1>3, <2>1, RemovedFits DEF FitsNow
<1>5. Types'
  BY <1>1, <1>2 DEF Types, protocolVars
<1> QED BY <1>2, <1>4, <1>5 DEF Inv, Waiting

LEMMA KickKeeps ==
    ASSUME Inv, NEW p \in Player, KickPlayer(p)
    PROVE  Inv'
<1>1. /\ p \in Placed
      /\ UNCHANGED <<timers, player, accepting, refCount, deleted, name, client,
                     connecting, held>>
  BY DEF KickPlayer
<1>2. CASE client[p] # NoClient /\ LogOut(client[p], queue)
  <2>1. client[p] \in Client /\ player[client[p]] = p
    BY <1>2 DEF Inv, Types, Linked, ClientsPointBack
  <2>2. queue \in Seq(Task) /\ InOrder(queue, timers)
        /\ \A d \in Client : FitsNow(d, queue, timers)
    BY DEF Inv, Types, Waiting
  <2> QED BY <1>1, <1>2, <2>1, <2>2, LogOutKeeps
<1>3. CASE RemoveCreature(p) /\ UNCHANGED <<queue, connection>>
  BY <1>1, <1>3, RemovalKeeps DEF protocolVars
<1> QED BY <1>2, <1>3 DEF KickPlayer

LEMMA HoldKeeps ==
    ASSUME Inv, NEW p \in Player, Hold(p)
    PROVE  Inv'
<1>1. /\ UNCHANGED <<queue, timers, protocolVars, playerVars>>
      /\ held' \subseteq Player
  BY DEF Hold, Inv, Types
<1>2. Types'
  BY <1>1 DEF Inv, Types, protocolVars, playerVars
<1>3. Waiting' /\ Linked'
  BY <1>1 DEF Inv, Waiting, FitsNow, Linked, UnloadedAreFree, ClientsPointBack,
              DriversAreClients, NamesDiffer, protocolVars, playerVars
<1> QED BY <1>1, <1>2, <1>3 DEF Inv

-----------------------------------------------------------------------------
(* The invariant holds.                                                    *)

LEMMA InitInv ==
    ASSUME Init
    PROVE  Inv
<1>1. queue = <<>> /\ timers = <<>>
  BY DEF Init
<1>2. \A c, K : ~Has(queue, timers, c, K)
  BY <1>1 DEF Has
<1>3. InOrder(queue, timers)
  BY <1>1 DEF InOrder
<1>4. Types
  BY SessionConstants DEF Init, Types, Player
<1>5. Waiting
  BY <1>2 DEF Init, Waiting, FitsNow, Fits, Player
<1>6. Counts(player, useCount, object)
  <2>1. ASSUME NEW p \in Player PROVE Cardinality(Users(player, p)) = 0
    <3>1. Users(player, p) = {}
      BY SessionConstants DEF Init, Users, Player
    <3> QED BY <3>1, FS_EmptySet
  <2> QED BY <2>1 DEF Counts, Init, Player
<1>7. UnloadedAreFree /\ ClientsPointBack /\ DriversAreClients /\ NamesDiffer
  BY SessionConstants DEF Init, UnloadedAreFree, ClientsPointBack, DriversAreClients,
                          NamesDiffer, Player
<1> QED BY <1>3, <1>4, <1>5, <1>6, <1>7 DEF Inv, Linked

LEMMA NextKeepsInv ==
    ASSUME Inv, [Next]_vars
    PROVE  Inv'
<1>1. CASE \E c \in Client, n \in Name : FirstPacket(c, n)
  BY <1>1, FirstPacketKeeps
<1>2. CASE \E c \in Client : LogoutPacket(c) \/ HangUp(c)
  BY <1>2, LogoutPacketKeeps, HangUpKeeps
<1>3. CASE Expire
  BY <1>3, ExpireKeeps
<1>4. CASE Dispatch
  BY <1>4, RunLoginKeeps, RunConnectKeeps, RunLogoutKeeps, RunCloseKeeps, RunReleaseKeeps
     DEF Dispatch
<1>5. CASE \E p \in Player : Think(p) \/ Die(p)
  <2>1. PICK p \in Placed :
           /\ RemoveCreature(p)
           /\ UNCHANGED <<queue, timers, protocolVars, name, client, connecting, held>>
    BY <1>5 DEF Think, Die
  <2> QED BY <2>1, RemovalKeeps
<1>6. CASE \E p \in Player : KickPlayer(p) \/ Hold(p)
  BY <1>6, KickKeeps, HoldKeeps
<1>7. CASE UNCHANGED vars
  <2>1. Types' /\ Waiting' /\ Linked' /\ InOrder(queue, timers)'
    BY <1>7 DEF Inv, Types, Waiting, FitsNow, Linked, UnloadedAreFree, ClientsPointBack,
                DriversAreClients, NamesDiffer, vars, protocolVars, playerVars
  <2> QED BY <2>1 DEF Inv
<1> QED BY <1>1, <1>2, <1>3, <1>4, <1>5, <1>6, <1>7 DEF Next

\* Tasks, clients and characters keep the order connection, login, perhaps a
\* connect event, close, releases until the references are gone, deletion.
THEOREM SessionInvariant == Spec => []Inv
<1>1. Init => Inv
  BY InitInv
<1>2. Inv /\ [Next]_vars => Inv'
  BY NextKeepsInv
<1> QED BY <1>1, <1>2, PTL DEF Spec

\* Between logins, takeovers, kicks and releases a client and its player point
\* at each other, no two clients drive one character, and no character is in
\* the game twice.
THEOREM ClientsDriveTheirOwn == Spec => []LinksAgree
<1>1. Inv => LinksAgree
  BY DEF Inv, Linked, ClientsPointBack, DriversAreClients, NamesDiffer, LinksAgree, Placed
<1> QED BY <1>1, SessionInvariant, PTL

\* What releaseProtocol deletes is in no task, no event and no player, and the
\* use count of a player is right.
THEOREM DeletedProtocolsAreForgotten == Spec => []NothingDangles
<1>1. Inv => NothingDangles
  <2> SUFFICES ASSUME Inv PROVE NothingDangles
    OBVIOUS
  <2>1. ASSUME NEW c \in deleted
        PROVE  c \in Client /\ player[c] = NoPlayer /\ ~Has(queue, timers, c, AnyKind)
    BY DEF Inv, Types, Waiting, FitsNow, Fits
  <2>2. ASSUME NEW t \in Tasks PROVE t.by \notin deleted
    <3>1. /\ t \in Task
          /\ \/ \E i \in DOMAIN queue : queue[i] = t
             \/ \E i \in DOMAIN timers : timers[i] = t
      BY DEF Inv, Types, Tasks
    <3>2. t.kind \in AnyKind
      BY <3>1 DEF Task, AnyKind
    <3>3. Has(queue, timers, t.by, AnyKind)
      BY <3>1, <3>2 DEF Has
    <3> QED BY <2>1, <3>3
  <2>3. ASSUME NEW p \in Player PROVE client[p] \notin deleted
    <3>1. client[p] \in deleted => client[p] # NoClient /\ player[client[p]] = p
      BY SessionConstants DEF Inv, Types, Linked, ClientsPointBack
    <3> QED BY <2>1, <3>1, SessionConstants DEF Player
  <2>4. ASSUME NEW p \in Player
        PROVE  useCount[p] = Cardinality({c \in Client : player[c] = p})
                             + (IF p \in Placed THEN 1 ELSE 0)
    BY DEF Inv, Linked, Counts, Users, Placed
  <2> QED BY <2>2, <2>3, <2>4 DEF NothingDangles
<1> QED BY <1>1, SessionInvariant, PTL

\* Every variable keeps its type; a player is used by its clients and the game
\* only, and a protocol referred to once at most.
THEOREM SessionTypes == Spec => []TypeOK
<1>1. Inv => TypeOK
  <2> SUFFICES ASSUME Inv PROVE TypeOK
    OBVIOUS
  <2>1. ASSUME NEW p \in Player PROVE useCount[p] \in 0 .. Cardinality(Client) + 1
    <3>1. useCount[p] = Cardinality(Users(player, p)) + (IF object[p] = "placed" THEN 1 ELSE 0)
      BY DEF Inv, Linked, Counts
    <3> QED BY <3>1, UsersAreFew
  <2>2. useCount \in [Player -> 0 .. Cardinality(Client) + 1]
    BY <2>1 DEF Inv, Types
  <2> QED BY <2>2 DEF Inv, Types, TypeOK
<1> QED BY <1>1, SessionInvariant, PTL

-----------------------------------------------------------------------------
(* THE WAITING LIST.                                                       *)

\* Nobody has two entries.
OneEach(l) == \A i, j \in DOMAIN l : l[i].who = l[j].who => i = j

\* Whoever has a premium account is ahead of those who have none.
PremiumFirst(l) == \A i, j \in DOMAIN l : i < j /\ l[j].who \in Premium => l[i].who \in Premium

\* What is true of the list, and of what cleanUpList leaves of it
Tidy(l) == l \in Seq(Wait) /\ OneEach(l) /\ PremiumFirst(l)

\* The invariant of the waiting list
WaitInv ==
    /\ online \subseteq Applicant
    /\ Tidy(waitList)
    /\ place \in [Applicant -> Int]

\* s is what is left of l: f says where each entry was.
Keeps(s, l, f) ==
    /\ f \in [DOMAIN s -> DOMAIN l]
    /\ \A i \in DOMAIN s : s[i] = l[f[i]] /\ ~l[f[i]].timedOut /\ i <= f[i]
    /\ \A i, j \in DOMAIN s : i < j => f[i] < f[j]
    /\ \A k \in DOMAIN l : ~l[k].timedOut => \E i \in DOMAIN s : f[i] = k

\* A set of positions has a least one.
LEMMA LeastPosition ==
    ASSUME NEW T \in SUBSET Nat, T # {}
    PROVE  Min(T) \in T /\ \A m \in T : Min(T) <= m
<1>1. IsWellFoundedOn(OpToRel(<, Nat), Nat)
  BY NatLessThanWellFounded
<1>2. PICK n \in T : \A m \in T : ~ (<<m, n>> \in OpToRel(<, Nat))
  BY <1>1, WFMin
<1>3. ASSUME NEW m \in T PROVE n <= m
  <2>1. m \in Nat /\ n \in Nat /\ ~ (m < n)
    BY <1>2 DEF OpToRel
  <2> QED BY <2>1
<1> QED BY <1>3 DEF Min

\* Where an entry is found, if names are had once
LEMMA FoundAt ==
    ASSUME NEW l \in Seq(Wait), OneEach(l), NEW p
    PROVE  /\ FindClient(l, p) = 0 <=> \A i \in DOMAIN l : l[i].who # p
           /\ \A i \in DOMAIN l : l[i].who = p => FindClient(l, p) = i
           /\ FindClient(l, p) # 0 =>
                FindClient(l, p) \in DOMAIN l /\ l[FindClient(l, p)].who = p
           /\ FindClient(l, p) \in Nat
<1> DEFINE E == {i \in DOMAIN l : l[i].who = p}
<1>1. FindClient(l, p) = IF E = {} THEN 0 ELSE Min(E)
  BY DEF FindClient
<1>2. DOMAIN l \subseteq Nat \ {0}
  OBVIOUS
<1>3. CASE E = {}
  BY <1>1, <1>2, <1>3
<1>4. CASE E # {}
  <2>1. E \in SUBSET Nat
    BY <1>2
  <2>2. Min(E) \in E
    BY <1>4, <2>1, LeastPosition
  <2>3. \A i \in E : i = Min(E)
    BY <2>2 DEF OneEach
  <2> QED BY <1>1, <1>2, <1>4, <2>2, <2>3
<1> QED BY <1>3, <1>4

\* A list that keeps some entries of a tidy one is tidy.
LEMMA KeepsTidy ==
    ASSUME NEW l, Tidy(l), NEW s \in Seq(Wait), NEW f, Keeps(s, l, f)
    PROVE  Tidy(s)
<1>1. ASSUME NEW i \in DOMAIN s, NEW j \in DOMAIN s, s[i].who = s[j].who PROVE i = j
  <2>1. f[i] = f[j]
    BY <1>1 DEF Keeps, Tidy, OneEach
  <2>2. i \in Int /\ j \in Int
    OBVIOUS
  <2>3. ~ (i < j) /\ ~ (j < i)
    <3>1. f[i] \in Int
      BY DEF Keeps, Tidy
    <3> QED BY <2>1, <3>1 DEF Keeps
  <2> QED BY <2>2, <2>3
<1>2. ASSUME NEW i \in DOMAIN s, NEW j \in DOMAIN s, i < j, s[j].who \in Premium
      PROVE  s[i].who \in Premium
  BY <1>2 DEF Keeps, Tidy, PremiumFirst
<1> QED BY <1>1, <1>2 DEF Tidy, OneEach, PremiumFirst

\* Which of S, in order, i is
Rank(S, i) == Cardinality({j \in S : j <= i})

\* Counting a finite set of positions from the first to the last
LEMMA RanksAre ==
    ASSUME NEW S \in SUBSET (Nat \ {0}), IsFiniteSet(S)
    PROVE  /\ Cardinality(S) \in Nat
           /\ \A i \in S : Rank(S, i) \in 1 .. Cardinality(S) /\ Rank(S, i) <= i
           /\ \A i, k \in S : i < k => Rank(S, i) < Rank(S, k)
           /\ \A n \in 1 .. Cardinality(S) : \E i \in S : Rank(S, i) = n
<1> DEFINE c == Cardinality(S)
           upTo(i) == {j \in S : j <= i}
<1>1. c \in Nat
  BY FS_CardinalityType
<1> \A i \in S : i \in Nat /\ i # 0
  OBVIOUS
<1>2. ASSUME NEW i \in S
      PROVE  IsFiniteSet(upTo(i)) /\ Rank(S, i) \in 1 .. c /\ Rank(S, i) <= i
  <2>1. upTo(i) \in SUBSET S /\ i \in upTo(i) /\ upTo(i) \in SUBSET (1 .. i)
    <3>1. i \in upTo(i) /\ upTo(i) \subseteq S
      OBVIOUS
    <3>2. ASSUME NEW j \in upTo(i) PROVE j \in 1 .. i
      <4>1. j \in Nat /\ j # 0 /\ j <= i /\ i \in Nat
        OBVIOUS
      <4> QED BY <4>1
    <3> QED BY <3>1, <3>2
  <2>2. Rank(S, i) = Cardinality(upTo(i))
    BY DEF Rank
  <2>3. IsFiniteSet(1 .. i) /\ Cardinality(1 .. i) = i
    BY FS_Interval
  <2> HIDE DEF upTo
  <2>4. IsFiniteSet(upTo(i)) /\ Cardinality(upTo(i)) <= c
    BY <2>1, FS_Subset
  <2>5. Cardinality(upTo(i)) <= i
    BY <2>1, <2>3, FS_Subset
  <2>6. Cardinality(upTo(i)) \in Nat /\ Cardinality(upTo(i)) # 0
    BY <2>1, <2>4, FS_CardinalityType, FS_EmptySet
  <2> HIDE DEF c
  <2> QED BY <1>1, <2>2, <2>4, <2>5, <2>6
<1>3. ASSUME NEW i \in S, NEW k \in S, i < k PROVE Rank(S, i) < Rank(S, k)
  <2>1. upTo(i) \cup {k} \in SUBSET upTo(k) /\ k \notin upTo(i)
    <3>1. k \in upTo(k) /\ k \notin upTo(i)
      BY <1>3
    <3>2. ASSUME NEW j \in upTo(i) PROVE j \in upTo(k)
      <4>1. j \in Nat /\ i \in Nat /\ k \in Nat /\ j <= i /\ j \in S
        OBVIOUS
      <4>2. j <= k
        BY <1>3, <4>1
      <4> QED BY <4>1, <4>2
    <3> QED BY <3>1, <3>2
  <2>2. Rank(S, i) = Cardinality(upTo(i)) /\ Rank(S, k) = Cardinality(upTo(k))
    BY DEF Rank
  <2> HIDE DEF upTo
  <2>3. Cardinality(upTo(i) \cup {k}) = Cardinality(upTo(i)) + 1
    BY <1>2, <2>1, FS_AddElement
  <2>4. Cardinality(upTo(i) \cup {k}) <= Cardinality(upTo(k))
    BY <1>2, <2>1, FS_Subset
  <2>5. Rank(S, i) \in Int /\ Rank(S, k) \in Int
    BY <1>2
  <2> QED BY <2>2, <2>3, <2>4, <2>5
<1>4. ASSUME NEW n \in 1 .. c PROVE \E i \in S : Rank(S, i) = n
  <2> DEFINE r == [i \in S |-> Rank(S, i)]
  <2>1. r \in [S -> 1 .. c]
    BY <1>2
  <2>2. ASSUME NEW i \in S, NEW k \in S, r[i] = r[k] PROVE i = k
    <3>1. Rank(S, i) = Rank(S, k)
      BY <2>2
    <3> i \in Int /\ k \in Int /\ Rank(S, i) \in Int
      <4>1. Rank(S, i) \in 1 .. c
        BY <1>2
      <4> HIDE DEF c
      <4> QED BY <1>1, <4>1
    <3>2. ~ (i < k) /\ ~ (k < i)
      BY <1>3, <3>1
    <3> QED BY <3>2
  <2>3. r \in Injection(S, 1 .. c)
    <3> HIDE DEF r
    <3> QED BY <2>1, <2>2 DEF Injection, IsInjective
  <2>4. IsFiniteSet(1 .. c) /\ Cardinality(1 .. c) = c
    <3> HIDE DEF c
    <3> QED BY <1>1, FS_Interval
  <2>5. r \in Surjection(S, 1 .. c)
    <3> HIDE DEF r
    <3> QED BY <2>3, <2>4, FS_Injection
  <2>6. PICK i \in S : r[i] = n
    <3> HIDE DEF r
    <3> QED BY <2>5 DEF Surjection
  <2> QED BY <2>6
<1> QED BY <1>1, <1>2, <1>3, <1>4

\* cleanUpList leaves the entries that have not timed out, in their order.
LEMMA CleanUpIs ==
    ASSUME NEW l \in Seq(Wait)
    PROVE  /\ CleanUpList(l) \in Seq(Wait)
           /\ \E f : Keeps(CleanUpList(l), l, f)
<1> DEFINE stay == {i \in DOMAIN l : ~l[i].timedOut}
           c == Cardinality(stay)
           nth(n) == CHOOSE i \in stay : Rank(stay, i) = n
           f == [n \in 1 .. c |-> nth(n)]
           s == CleanUpList(l)
<1>1. /\ stay \in SUBSET (Nat \ {0}) /\ IsFiniteSet(stay)
      /\ \A i \in stay : i \in Int /\ i \in DOMAIN l /\ l[i] \in Wait /\ ~l[i].timedOut
  <2>1. DOMAIN l = 1 .. Len(l) /\ IsFiniteSet(1 .. Len(l))
    BY FS_Interval
  <2> QED BY <2>1, FS_Subset
<1>2. s = [n \in 1 .. c |-> l[nth(n)]]
  BY DEF CleanUpList, Rank
<1>3. \A k \in DOMAIN l : ~l[k].timedOut => k \in stay
  OBVIOUS
<1> HIDE DEF stay
<1>4. /\ c \in Nat
      /\ \A i \in stay : Rank(stay, i) \in 1 .. c /\ Rank(stay, i) <= i
      /\ \A i, k \in stay : i < k => Rank(stay, i) < Rank(stay, k)
      /\ \A n \in 1 .. c : \E i \in stay : Rank(stay, i) = n
  BY <1>1, RanksAre
<1>5. ASSUME NEW n \in 1 .. c
      PROVE  nth(n) \in stay /\ Rank(stay, nth(n)) = n /\ f[n] = nth(n)
  BY <1>4
<1> HIDE DEF nth, c
<1>6. ASSUME NEW n \in 1 .. c PROVE n <= nth(n)
  BY <1>4, <1>5
<1>7. ASSUME NEW n \in 1 .. c, NEW m \in 1 .. c, n < m PROVE nth(n) < nth(m)
  <2>1. nth(n) \in stay /\ nth(m) \in stay /\ nth(n) \in Int /\ nth(m) \in Int
    BY <1>1, <1>5
  <2>2. ~ (nth(m) < nth(n))
    <3> SUFFICES ASSUME nth(m) < nth(n) PROVE FALSE
      OBVIOUS
    <3>1. Rank(stay, nth(m)) < Rank(stay, nth(n))
      BY <1>4, <2>1
    <3> QED BY <1>5, <1>7, <3>1
  <2>3. nth(n) # nth(m)
    BY <1>5, <1>7
  <2> QED BY <2>1, <2>2, <2>3
<1>8. ASSUME NEW k \in stay PROVE \E n \in 1 .. c : nth(n) = k
  <2> DEFINE n == Rank(stay, k)
  <2>1. n \in 1 .. c
    BY <1>4
  <2>2. nth(n) \in stay /\ Rank(stay, nth(n)) = n
    BY <1>5, <2>1
  <2>3. nth(n) \in Int /\ k \in Int
    BY <1>1, <2>2
  <2> n \in Int
    BY <2>1, <1>4
  <2>4. ~ (nth(n) < k) /\ ~ (k < nth(n))
    BY <1>4, <2>2, <2>3
  <2> QED BY <2>1, <2>3, <2>4
<1>9. s \in Seq(Wait) /\ DOMAIN s = 1 .. c /\ \A n \in 1 .. c : s[n] = l[f[n]]
  <2>1. \A n \in 1 .. c : l[nth(n)] \in Wait /\ f[n] = nth(n)
    BY <1>1, <1>5
  <2> HIDE DEF s, f
  <2> QED BY <1>2, <1>4, <2>1
<1>10. f \in [DOMAIN s -> DOMAIN l]
  BY <1>1, <1>5, <1>9
<1>11. Keeps(s, l, f)
  <2>1. \A n \in 1 .. c : /\ f[n] = nth(n) /\ n <= nth(n)
                          /\ l[nth(n)] \in Wait /\ ~l[nth(n)].timedOut
    BY <1>1, <1>5, <1>6
  <2> HIDE DEF s, f
  <2>2. \A i, j \in DOMAIN s : i < j => f[i] < f[j]
    BY <1>7, <1>9, <2>1
  <2>3. \A k \in DOMAIN l : ~l[k].timedOut => \E i \in DOMAIN s : f[i] = k
    BY <1>3, <1>8, <1>9, <2>1
  <2> QED BY <1>9, <1>10, <2>1, <2>2, <2>3 DEF Keeps
<1> QED BY <1>9, <1>11

\* s is l with w at n.
Inserted(s, l, n, w) ==
    /\ s \in Seq(Wait) /\ Len(s) = Len(l) + 1
    /\ \A i \in 1 .. Len(l) + 1 :
         s[i] = IF i < n THEN l[i] ELSE IF i = n THEN w ELSE l[i - 1]

\* What inserting does
LEMMA InsertedAt ==
    ASSUME NEW l \in Seq(Wait), NEW n \in 1 .. Len(l) + 1, NEW w \in Wait
    PROVE  Inserted(InsertAt(l, n, w), l, n, w)
<1> DEFINE a == SubSeq(l, 1, n - 1)
           b == SubSeq(l, n, Len(l))
<1>1. a \in Seq(Wait) /\ Len(a) = n - 1 /\ \A i \in 1 .. n - 1 : a[i] = l[i]
  OBVIOUS
<1>2. b \in Seq(Wait) /\ Len(b) = Len(l) + 1 - n /\ \A i \in 1 .. Len(b) : b[i] = l[n + i - 1]
  OBVIOUS
<1>3. <<w>> \in Seq(Wait) /\ Len(<<w>>) = 1 /\ <<w>>[1] = w
  OBVIOUS
<1>4. InsertAt(l, n, w) = a \o <<w>> \o b
  BY DEF InsertAt
<1> HIDE DEF a, b
<1>5. /\ a \o <<w>> \in Seq(Wait) /\ Len(a \o <<w>>) = n
      /\ \A i \in 1 .. n : (a \o <<w>>)[i] = IF i < n THEN l[i] ELSE w
  <2>1. \A i \in 1 .. Len(a) + 1 : (a \o <<w>>)[i] = IF i <= Len(a) THEN a[i] ELSE <<w>>[i - Len(a)]
    BY <1>1, <1>3, ConcatProperties
  <2>2. Len(a \o <<w>>) = Len(a) + 1 /\ a \o <<w>> \in Seq(Wait)
    BY <1>1, <1>3, ConcatProperties
  <2>3. ASSUME NEW i \in 1 .. n PROVE (a \o <<w>>)[i] = IF i < n THEN l[i] ELSE w
    <3>1. i \in 1 .. Len(a) + 1 /\ Len(a) = n - 1 /\ n \in Int
      BY <1>1
    <3>2. CASE i < n
      BY <1>1, <2>1, <3>1, <3>2
    <3>3. CASE i = n
      BY <1>1, <1>3, <2>1, <3>1, <3>3
    <3> QED BY <3>1, <3>2, <3>3
  <2> QED BY <1>1, <2>2, <2>3
<1> DEFINE d == a \o <<w>>
<1> HIDE DEF d
<1>6. /\ d \o b \in Seq(Wait) /\ Len(d \o b) = Len(d) + Len(b)
      /\ \A i \in 1 .. Len(d) + Len(b) : (d \o b)[i] = IF i <= Len(d) THEN d[i] ELSE b[i - Len(d)]
  <2>1. d \in Seq(Wait)
    BY <1>5 DEF d
  <2> QED BY <1>2, <2>1, ConcatProperties
<1>7. ASSUME NEW i \in 1 .. Len(l) + 1
      PROVE  (d \o b)[i] = IF i < n THEN l[i] ELSE IF i = n THEN w ELSE l[i - 1]
  <2>1. i \in 1 .. Len(d) + Len(b) /\ Len(d) = n
    BY <1>2, <1>5 DEF d
  <2>2. CASE i <= n
    BY <1>5, <1>6, <2>1, <2>2 DEF d
  <2>3. CASE i > n
    <3>1. (d \o b)[i] = b[i - n] /\ i - n \in 1 .. Len(b)
      BY <1>2, <1>6, <2>1, <2>3
    <3>2. b[i - n] = l[n + (i - n) - 1]
      BY <1>2, <3>1
    <3>3. n + (i - n) - 1 = i - 1
      OBVIOUS
    <3> QED BY <2>3, <3>1, <3>2, <3>3
  <2>4. i <= n \/ i > n
    OBVIOUS
  <2> QED BY <2>2, <2>3, <2>4
<1>8. InsertAt(l, n, w) = d \o b
  BY <1>4 DEF d
<1>9. Len(d \o b) = Len(l) + 1
  BY <1>2, <1>5, <1>6 DEF d
<1> HIDE DEF d
<1>10. Inserted(d \o b, l, n, w)
  BY <1>6, <1>7, <1>9 DEF Inserted
<1> QED BY <1>8, <1>10

\* What erasing does
LEMMA RemovedAt ==
    ASSUME NEW l \in Seq(Wait), NEW n \in 1 .. Len(l)
    PROVE  /\ RemoveAt(l, n) \in Seq(Wait) /\ Len(RemoveAt(l, n)) = Len(l) - 1
           /\ \A i \in 1 .. Len(l) - 1 : RemoveAt(l, n)[i] = IF i < n THEN l[i] ELSE l[i + 1]
<1> DEFINE a == SubSeq(l, 1, n - 1)
           b == SubSeq(l, n + 1, Len(l))
<1>1. a \in Seq(Wait) /\ Len(a) = n - 1 /\ \A i \in 1 .. n - 1 : a[i] = l[i]
  OBVIOUS
<1>2. b \in Seq(Wait) /\ Len(b) = Len(l) - n /\ \A i \in 1 .. Len(b) : b[i] = l[n + i]
  OBVIOUS
<1>3. RemoveAt(l, n) = a \o b
  BY DEF RemoveAt
<1> HIDE DEF a, b
<1>4. /\ a \o b \in Seq(Wait) /\ Len(a \o b) = Len(a) + Len(b)
      /\ \A i \in 1 .. Len(a) + Len(b) : (a \o b)[i] = IF i <= Len(a) THEN a[i] ELSE b[i - Len(a)]
  BY <1>1, <1>2, ConcatProperties
<1>5. ASSUME NEW i \in 1 .. Len(l) - 1 PROVE (a \o b)[i] = IF i < n THEN l[i] ELSE l[i + 1]
  <2>1. i \in 1 .. Len(a) + Len(b) /\ Len(a) = n - 1
    BY <1>1, <1>2
  <2>2. CASE i < n
    BY <1>1, <1>4, <2>1, <2>2
  <2>3. CASE i >= n
    <3>1. (a \o b)[i] = b[i - (n - 1)] /\ i - (n - 1) \in 1 .. Len(b)
      BY <1>2, <1>4, <2>1, <2>3
    <3>2. b[i - (n - 1)] = l[n + (i - (n - 1))]
      BY <1>2, <3>1
    <3>3. n + (i - (n - 1)) = i + 1
      OBVIOUS
    <3> QED BY <2>3, <3>1, <3>2, <3>3
  <2>4. i < n \/ i >= n
    OBVIOUS
  <2> QED BY <2>2, <2>3, <2>4
<1> QED BY <1>1, <1>2, <1>3, <1>4, <1>5

-----------------------------------------------------------------------------
(* What the handler does with the list.                                    *)

\* The list stays tidy when an entry is taken off.
LEMMA RemovedIsTidy ==
    ASSUME NEW l, Tidy(l), NEW n \in DOMAIN l
    PROVE  Tidy(RemoveAt(l, n))
<1> DEFINE s == RemoveAt(l, n)
           at(i) == IF i < n THEN i ELSE i + 1
<1>1. l \in Seq(Wait) /\ n \in 1 .. Len(l) /\ DOMAIN l = 1 .. Len(l) /\ Len(l) \in Nat
  BY DEF Tidy
<1>2. /\ s \in Seq(Wait) /\ Len(s) = Len(l) - 1 /\ DOMAIN s = 1 .. Len(l) - 1
      /\ \A i \in 1 .. Len(l) - 1 : s[i] = IF i < n THEN l[i] ELSE l[i + 1]
  <2>1. /\ s \in Seq(Wait) /\ Len(s) = Len(l) - 1
        /\ \A i \in 1 .. Len(l) - 1 : s[i] = IF i < n THEN l[i] ELSE l[i + 1]
    BY <1>1, RemovedAt
  <2> HIDE DEF s
  <2> QED BY <2>1
<1> HIDE DEF s
<1>3. ASSUME NEW i \in DOMAIN s PROVE s[i] = l[at(i)] /\ at(i) \in DOMAIN l /\ i \in Int
  <2>1. i \in 1 .. Len(l) - 1 /\ i \in Int /\ n \in Int
    BY <1>1, <1>2
  <2>2. s[i] = IF i < n THEN l[i] ELSE l[i + 1]
    BY <1>2, <2>1
  <2>3. i \in 1 .. Len(l) /\ i + 1 \in 1 .. Len(l)
    BY <1>1, <2>1
  <2> QED BY <1>1, <2>1, <2>2, <2>3
<1>4. ASSUME NEW i \in DOMAIN s, NEW j \in DOMAIN s, s[i].who = s[j].who PROVE i = j
  <2>1. at(i) = at(j)
    BY <1>3, <1>4 DEF Tidy, OneEach
  <2>2. i \in Int /\ j \in Int /\ n \in Int
    BY <1>1, <1>3
  <2> QED BY <2>1, <2>2
<1>5. ASSUME NEW i \in DOMAIN s, NEW j \in DOMAIN s, i < j, s[j].who \in Premium
      PROVE  s[i].who \in Premium
  <2>1. i \in Int /\ j \in Int /\ n \in Int
    BY <1>1, <1>3
  <2>2. at(i) < at(j)
    BY <1>5, <2>1
  <2> HIDE DEF at
  <2> QED BY <1>3, <1>5, <2>2 DEF Tidy, PremiumFirst
<1> QED BY <1>2, <1>4, <1>5 DEF Tidy, OneEach, PremiumFirst, s

\* Nor do the timeouts matter.
LEMMA SameNamesTidy ==
    ASSUME NEW l, Tidy(l), NEW s \in Seq(Wait), DOMAIN s = DOMAIN l,
           \A i \in DOMAIN l : s[i].who = l[i].who
    PROVE  Tidy(s)
BY DEF Tidy, OneEach, PremiumFirst

\* The entry a player gets
Entry(p) == [who |-> p, timedOut |-> FALSE]

\* s is l with an entry for p at n, in the place he is to have.
PutAt(s, l, p, n) ==
    /\ n \in 1 .. Len(l) + 1
    /\ s \in Seq(Wait) /\ DOMAIN s = 1 .. Len(l) + 1
    /\ \A i \in 1 .. Len(l) + 1 :
         s[i] = IF i < n THEN l[i] ELSE IF i = n THEN Entry(p) ELSE l[i - 1]
    /\ p \notin Premium => n = Len(l) + 1
    /\ \A i \in DOMAIN l : i < n /\ p \in Premium => l[i].who \in Premium
    /\ \A i \in DOMAIN l : i >= n => l[i].who \notin Premium

\* Where a player without an entry is put: at the end, or if he has a premium account
\* before the first who has none.
LEMMA EnlistedIs ==
    ASSUME NEW l, Tidy(l), NEW p \in Applicant, \A i \in DOMAIN l : l[i].who # p
    PROVE  \/ Enlisted(l, p) = l /\ p \in Premium
           \/ \E n : PutAt(Enlisted(l, p), l, p, n)
<1> DEFINE s == Enlisted(l, p)
           others == {i \in DOMAIN l : l[i].who \notin Premium}
<1>1. l \in Seq(Wait) /\ Entry(p) \in Wait /\ DOMAIN l = 1 .. Len(l) /\ Len(l) \in Nat
  BY DEF Tidy, Wait, Entry
<1>2. CASE p \notin Premium
  <2>1. s = Append(l, Entry(p))
    BY <1>2 DEF Enlisted, Entry
  <2>2. s \in Seq(Wait) /\ DOMAIN s = 1 .. Len(l) + 1
    BY <1>1, <2>1
  <2>3. \A i \in 1 .. Len(l) + 1 : s[i] = IF i < Len(l) + 1 THEN l[i] ELSE Entry(p)
    BY <1>1, <2>1
  <2>4. \A i \in DOMAIN l : i \in Int /\ i < Len(l) + 1
    BY <1>1
  <2> HIDE DEF s
  <2> DEFINE n == Len(l) + 1
  <2>5. n \in 1 .. Len(l) + 1
    BY <1>1
  <2>6. \A i \in 1 .. Len(l) + 1 :
          s[i] = IF i < n THEN l[i] ELSE IF i = n THEN Entry(p) ELSE l[i - 1]
    BY <1>1, <2>3
  <2> HIDE DEF n
  <2>7. PutAt(s, l, p, n)
    BY <1>2, <2>2, <2>4, <2>5, <2>6 DEF PutAt, n
  <2> QED BY <2>7 DEF s
<1>3. CASE p \in Premium /\ others = {}
  BY <1>3 DEF Enlisted
<1>4. CASE p \in Premium /\ others # {}
  <2> DEFINE n == Min(others)
  <2>1. others \in SUBSET Nat
    BY <1>1
  <2>2. n \in others /\ \A m \in others : n <= m
    BY <1>4, <2>1, LeastPosition
  <2>3. s = InsertAt(l, n, Entry(p))
    BY <1>4 DEF Enlisted, Entry
  <2>4. n \in DOMAIN l /\ l[n].who \notin Premium
    BY <2>2
  <2>5. ASSUME NEW i \in DOMAIN l, i < n PROVE l[i].who \in Premium
    <3>1. i \in Int /\ n \in Int /\ ~ (n <= i)
      BY <1>1, <2>4, <2>5
    <3> QED BY <2>2, <3>1
  <2> HIDE DEF n, s
  <2>6. n \in 1 .. Len(l) + 1
    BY <1>1, <2>4
  <2>7. /\ s \in Seq(Wait) /\ Len(s) = Len(l) + 1
        /\ \A i \in 1 .. Len(l) + 1 :
             s[i] = IF i < n THEN l[i] ELSE IF i = n THEN Entry(p) ELSE l[i - 1]
    <3>1. l \in Seq(Wait) /\ Entry(p) \in Wait
      BY <1>1
    <3>2. Inserted(s, l, n, Entry(p))
      BY <2>3, <2>6, <3>1, InsertedAt
    <3> QED BY <3>2 DEF Inserted
  <2>8. ASSUME NEW i \in DOMAIN l, i >= n PROVE l[i].who \notin Premium
    <3>1. i \in Int /\ n \in Int
      BY <1>1, <2>4
    <3>2. i = n \/ n < i
      BY <2>8, <3>1
    <3> QED BY <2>4, <3>2 DEF Tidy, PremiumFirst
  <2>9. DOMAIN s = 1 .. Len(l) + 1
    BY <2>7
  <2>10. PutAt(s, l, p, n)
    BY <1>4, <2>5, <2>6, <2>7, <2>8, <2>9 DEF PutAt
  <2> QED BY <2>10 DEF s
<1> QED BY <1>2, <1>3, <1>4

\* A player who had no entry leaves the list tidy.
LEMMA EnlistedIsTidy ==
    ASSUME NEW l, Tidy(l), NEW p \in Applicant, \A i \in DOMAIN l : l[i].who # p
    PROVE  Tidy(Enlisted(l, p))
<1> DEFINE s == Enlisted(l, p)
<1>1. CASE s = l
  BY <1>1
<1>2. CASE s # l
  <2> PICK n : PutAt(s, l, p, n)
    BY <1>2, EnlistedIs
  <2> HIDE DEF s
  <2>1. /\ n \in 1 .. Len(l) + 1
        /\ s \in Seq(Wait) /\ DOMAIN s = 1 .. Len(l) + 1
        /\ \A i \in 1 .. Len(l) + 1 :
             s[i] = IF i < n THEN l[i] ELSE IF i = n THEN Entry(p) ELSE l[i - 1]
        /\ p \notin Premium => n = Len(l) + 1
        /\ \A i \in DOMAIN l : i < n /\ p \in Premium => l[i].who \in Premium
        /\ \A i \in DOMAIN l : i >= n => l[i].who \notin Premium
    BY DEF PutAt
  <2>2. DOMAIN l = 1 .. Len(l) /\ Len(l) \in Nat /\ n \in Int
    BY <2>1 DEF Tidy
  <2> DEFINE at(i) == IF i < n THEN i ELSE i - 1
  <2>3. ASSUME NEW i \in DOMAIN s
        PROVE  /\ i \in Int
               /\ i = n => s[i].who = p
               /\ i # n => s[i] = l[at(i)] /\ at(i) \in DOMAIN l
    <3>1. i \in Int /\ i \in 1 .. Len(l) + 1
      BY <2>1
    <3>2. i = n => s[i].who = p
      BY <2>1, <3>1 DEF Entry
    <3>3. ASSUME i < n PROVE s[i] = l[at(i)] /\ at(i) \in DOMAIN l
      BY <2>1, <2>2, <3>1, <3>3
    <3>4. ASSUME i > n PROVE s[i] = l[at(i)] /\ at(i) \in DOMAIN l
      BY <2>1, <2>2, <3>1, <3>4
    <3>5. i # n => i < n \/ i > n
      BY <2>2, <3>1
    <3> QED BY <3>1, <3>2, <3>3, <3>4, <3>5
  <2>4. ASSUME NEW i \in DOMAIN s, NEW j \in DOMAIN s, s[i].who = s[j].who PROVE i = j
    <3>1. CASE i = n \/ j = n
      BY <2>3, <2>4, <3>1
    <3>2. CASE i # n /\ j # n
      <4>1. at(i) = at(j)
        BY <2>3, <2>4, <3>2 DEF Tidy, OneEach
      <4> QED BY <2>2, <2>3, <3>2, <4>1
    <3> QED BY <3>1, <3>2
  <2>5. ASSUME NEW i \in DOMAIN s, NEW j \in DOMAIN s, i < j, s[j].who \in Premium
        PROVE  s[i].who \in Premium
    <3>1. i \in Int /\ j \in Int
      BY <2>3
    <3>2. CASE i = n
      <4>1. s[j] = l[j - 1] /\ j - 1 \in DOMAIN l /\ j - 1 >= n
        BY <2>2, <2>3, <2>5, <3>1, <3>2
      <4> QED BY <2>1, <2>5, <4>1
    <3>3. CASE j = n
      <4>1. s[i] = l[i] /\ i \in DOMAIN l /\ i < n /\ p \in Premium
        BY <2>2, <2>3, <2>5, <3>1, <3>3
      <4> QED BY <2>1, <4>1
    <3>4. CASE i # n /\ j # n
      <4>1. at(i) < at(j)
        BY <2>2, <2>5, <3>1, <3>4
      <4> HIDE DEF at
      <4> QED BY <2>3, <2>5, <3>4, <4>1 DEF Tidy, PremiumFirst
    <3> QED BY <3>2, <3>3, <3>4
  <2> QED BY <2>1, <2>4, <2>5 DEF Tidy, OneEach, PremiumFirst, s
<1> QED BY <1>1, <1>2

\* Enough to know of a list cleanUpList made of the one before
Cleaned(l, f) == Tidy(l) /\ Keeps(l, waitList, f)

\* What clientLogin may do: l is the list without what has timed out.
LEMMA LoginIs ==
    ASSUME WaitInv, NEW p \in Applicant, ClientLogin(p)
    PROVE  \E l, f : /\ Cleaned(l, f)
                     /\ \/ /\ LetIn(p) /\ Admit(p, waitList)
                        \/ \E n \in DOMAIN l : /\ ~LetIn(p) /\ l[n].who = p /\ MayEnter(n)
                                               /\ Admit(p, RemoveAt(l, n))
                        \/ \E n \in DOMAIN l : TurnAway(p, [l EXCEPT ![n].timedOut = FALSE])
                        \/ /\ \A i \in DOMAIN l : l[i].who # p
                           /\ TurnAway(p, Enlisted(l, p))
<1> DEFINE l == CleanUpList(waitList)
           n == FindClient(l, p)
<1>1. waitList \in Seq(Wait) /\ Tidy(waitList)
  BY DEF WaitInv, Tidy
<1>2. PICK f : l \in Seq(Wait) /\ Keeps(l, waitList, f)
  BY <1>1, CleanUpIs
<1>3. Tidy(l)
  BY <1>1, <1>2, KeepsTidy
<1>4. Cleaned(l, f)
  BY <1>2, <1>3 DEF Cleaned
<1>5. \/ /\ LetIn(p) /\ Admit(p, waitList)
      \/ /\ ~LetIn(p) /\ n # 0 /\ MayEnter(n) /\ Admit(p, RemoveAt(l, n))
      \/ /\ n # 0 /\ TurnAway(p, [l EXCEPT ![n].timedOut = FALSE])
      \/ /\ n = 0 /\ TurnAway(p, Enlisted(l, p))
  BY DEF ClientLogin
<1> HIDE DEF l
<1>6. /\ n = 0 => \A i \in DOMAIN l : l[i].who # p
      /\ n # 0 => n \in DOMAIN l /\ l[n].who = p
  <2>1. l \in Seq(Wait) /\ OneEach(l)
    BY <1>3 DEF Tidy
  <2> QED BY <2>1, FoundAt
<1> HIDE DEF n
<1>7. CASE LetIn(p) /\ Admit(p, waitList)
  BY <1>4, <1>7
<1>8. CASE ~LetIn(p) /\ n # 0 /\ MayEnter(n) /\ Admit(p, RemoveAt(l, n))
  BY <1>4, <1>6, <1>8
<1>9. CASE n # 0 /\ TurnAway(p, [l EXCEPT ![n].timedOut = FALSE])
  BY <1>4, <1>6, <1>9
<1>10. CASE n = 0 /\ TurnAway(p, Enlisted(l, p))
  BY <1>4, <1>6, <1>10
<1> QED BY <1>5, <1>7, <1>8, <1>9, <1>10

\* Starting an entry's time anew changes nothing else.
LEMMA RenewedIs ==
    ASSUME NEW l, Tidy(l), NEW n \in DOMAIN l, NEW b \in BOOLEAN
    PROVE  LET s == [l EXCEPT ![n].timedOut = b]
           IN  /\ s \in Seq(Wait) /\ DOMAIN s = DOMAIN l /\ Tidy(s)
               /\ \A i \in DOMAIN l : s[i].who = l[i].who
<1> DEFINE s == [l EXCEPT ![n].timedOut = b]
<1>1. l \in Seq(Wait) /\ DOMAIN l = 1 .. Len(l) /\ Len(l) \in Nat
  BY DEF Tidy
<1>2. \A i \in DOMAIN l : l[i] \in Wait
  BY <1>1
<1>3. DOMAIN s = DOMAIN l
  OBVIOUS
<1>4. \A i \in DOMAIN l : s[i] = IF i = n THEN [l[n] EXCEPT !.timedOut = b] ELSE l[i]
  OBVIOUS
<1>5. \A i \in DOMAIN l : s[i] \in Wait /\ s[i].who = l[i].who
  <2> TAKE i \in DOMAIN l
  <2>1. [l[n] EXCEPT !.timedOut = b] \in Wait /\ [l[n] EXCEPT !.timedOut = b].who = l[n].who
    BY <1>2 DEF Wait
  <2> QED BY <1>2, <1>4, <2>1
<1>6. s = [i \in 1 .. Len(l) |-> s[i]]
  BY <1>1, <1>3
<1> HIDE DEF s
<1>7. s \in Seq(Wait)
  BY <1>1, <1>5, <1>6
<1>8. Tidy(s)
  BY <1>3, <1>5, <1>7, SameNamesTidy
<1> QED BY <1>3, <1>5, <1>7, <1>8 DEF s

\* Nobody waits at first.
LEMMA WaitInitially == WaitInit => WaitInv
<1> SUFFICES ASSUME WaitInit PROVE WaitInv
  OBVIOUS
<1>1. waitList = <<>> /\ DOMAIN waitList = {} /\ waitList \in Seq(Wait)
  BY DEF WaitInit
<1> QED BY <1>1 DEF WaitInit, WaitInv, Tidy, OneEach, PremiumFirst

\* A handler that admits or refuses with a tidy list keeps the invariant.
LEMMA AnswerKeeps ==
    ASSUME WaitInv, NEW p \in Applicant, NEW l, Tidy(l), Admit(p, l) \/ TurnAway(p, l)
    PROVE  WaitInv'
<1>1. GetClientSlot(l, p) \in Int
  <2>1. l \in Seq(Wait) /\ OneEach(l)
    BY DEF Tidy
  <2>2. FindClient(l, p) \in Nat
    BY <2>1, FoundAt
  <2> QED BY <2>2 DEF GetClientSlot
<1>2. waitList' = l /\ online' \subseteq Applicant
  BY DEF Admit, TurnAway, WaitInv
<1>3. place' \in [Applicant -> Int]
  BY <1>1 DEF Admit, TurnAway, WaitInv
<1> QED BY <1>2, <1>3 DEF WaitInv

\* Logins, logouts and timeouts keep the list tidy.
LEMMA WaitStep == WaitInv /\ [WaitNext]_waitVars => WaitInv'
<1> SUFFICES ASSUME WaitInv, [WaitNext]_waitVars PROVE WaitInv'
  OBVIOUS
<1>0. Tidy(waitList)
  BY DEF WaitInv
<1>1. ASSUME NEW p \in Applicant, ClientLogin(p) PROVE WaitInv'
  <2>1. PICK l, f : /\ Cleaned(l, f)
                    /\ \/ /\ LetIn(p) /\ Admit(p, waitList)
                       \/ \E n \in DOMAIN l : /\ ~LetIn(p) /\ l[n].who = p /\ MayEnter(n)
                                              /\ Admit(p, RemoveAt(l, n))
                       \/ \E n \in DOMAIN l : TurnAway(p, [l EXCEPT ![n].timedOut = FALSE])
                       \/ /\ \A i \in DOMAIN l : l[i].who # p
                          /\ TurnAway(p, Enlisted(l, p))
    BY <1>1, LoginIs
  <2>2. Tidy(l)
    BY <2>1 DEF Cleaned
  <2>3. CASE Admit(p, waitList)
    BY <1>0, <2>3, AnswerKeeps
  <2>4. ASSUME NEW n \in DOMAIN l, Admit(p, RemoveAt(l, n)) PROVE WaitInv'
    <3>1. Tidy(RemoveAt(l, n))
      BY <2>2, RemovedIsTidy
    <3> QED BY <2>4, <3>1, AnswerKeeps
  <2>5. ASSUME NEW n \in DOMAIN l, TurnAway(p, [l EXCEPT ![n].timedOut = FALSE]) PROVE WaitInv'
    <3>1. Tidy([l EXCEPT ![n].timedOut = FALSE])
      BY <2>2, RenewedIs
    <3> QED BY <2>5, <3>1, AnswerKeeps
  <2>6. ASSUME \A i \in DOMAIN l : l[i].who # p, TurnAway(p, Enlisted(l, p)) PROVE WaitInv'
    <3>1. Tidy(Enlisted(l, p))
      BY <2>2, <2>6, EnlistedIsTidy
    <3> QED BY <2>6, <3>1, AnswerKeeps
  <2> QED BY <2>1, <2>3, <2>4, <2>5, <2>6
<1>2. ASSUME NEW p \in Applicant, Logout(p) PROVE WaitInv'
  BY <1>2 DEF Logout, WaitInv
<1>3. ASSUME NEW i \in DOMAIN waitList, TimeOut(i) PROVE WaitInv'
  <2>1. Tidy([waitList EXCEPT ![i].timedOut = TRUE])
    BY <1>0, RenewedIs
  <2> QED BY <1>3, <2>1 DEF TimeOut, WaitInv
<1>4. CASE UNCHANGED waitVars
  BY <1>4 DEF waitVars, WaitInv
<1> QED BY <1>1, <1>2, <1>3, <1>4 DEF WaitNext

\* The list of waiting players is in order whatever comes and goes: nobody has two
\* entries, premium players are ahead of the others (WaitingList::clientLogin).
THEOREM WaitInvariant == WaitSpec => []WaitInv
BY WaitInitially, WaitStep, PTL DEF WaitSpec

\* Type correctness of the waiting list; it is never longer than there are players,
\* since nobody is listed twice.
THEOREM WaitTypes == WaitSpec => []WaitTypeOK
<1>1. WaitInv => WaitTypeOK
  <2> SUFFICES ASSUME WaitInv PROVE Len(waitList) <= Cardinality(Applicant)
    BY DEF WaitInv, Tidy, WaitTypeOK
  <2> DEFINE D == 1 .. Len(waitList)
             names == [i \in D |-> waitList[i].who]
  <2>1. waitList \in Seq(Wait) /\ DOMAIN waitList = D /\ Len(waitList) \in Nat
    BY DEF WaitInv, Tidy
  <2>2. \A i \in D : waitList[i].who \in Applicant
    <3>1. \A i \in D : waitList[i] \in Wait
      BY <2>1
    <3> QED BY <3>1 DEF Wait
  <2>3. \A i, j \in D : waitList[i].who = waitList[j].who => i = j
    BY <2>1 DEF WaitInv, Tidy, OneEach
  <2>4. names \in Injection(D, Applicant)
    <3>1. names \in [D -> Applicant] /\ \A i, j \in D : names[i] = names[j] => i = j
      BY <2>2, <2>3
    <3> HIDE DEF names
    <3> QED BY <3>1 DEF Injection, IsInjective
  <2>5. Cardinality(D) <= Cardinality(Applicant)
    <3> HIDE DEF names
    <3> QED BY <2>4, FS_Injection, WaitListConstants DEF WaitListConstants
  <2>6. Cardinality(D) = Len(waitList)
    BY <2>1, FS_Interval
  <2> QED BY <2>5, <2>6
<1> QED BY <1>1, WaitInvariant, PTL

\* An entry that stays was no further ahead.
LEMMA StayedBehind ==
    ASSUME WaitInv, NEW l, NEW f, Cleaned(l, f), NEW i \in DOMAIN waitList, NEW j \in DOMAIN l,
           waitList[i].who = l[j].who
    PROVE  f[j] = i /\ j <= i
BY DEF Cleaned, Keeps, WaitInv, Tidy, OneEach

\* A place only gets better, in a login.
LEMMA LoginPushesNobody ==
    ASSUME WaitInv, NEW p \in Applicant, ClientLogin(p),
           NEW i \in DOMAIN waitList, NEW j \in DOMAIN waitList',
           waitList[i].who = waitList'[j].who, ~waitList[i].timedOut, i < j
    PROVE  /\ waitList[i].who \notin Premium
           /\ \E k \in 1 .. j - 1 : /\ waitList'[k].who \in Premium
                                    /\ ~Holds(waitList, waitList'[k].who)
<1>1. PICK l, f : /\ Cleaned(l, f)
                  /\ \/ /\ LetIn(p) /\ Admit(p, waitList)
                     \/ \E n \in DOMAIN l : /\ ~LetIn(p) /\ l[n].who = p /\ MayEnter(n)
                                            /\ Admit(p, RemoveAt(l, n))
                     \/ \E n \in DOMAIN l : TurnAway(p, [l EXCEPT ![n].timedOut = FALSE])
                     \/ /\ \A m \in DOMAIN l : l[m].who # p
                        /\ TurnAway(p, Enlisted(l, p))
  BY LoginIs
<1>2. /\ Tidy(l) /\ l \in Seq(Wait) /\ DOMAIN l = 1 .. Len(l) /\ Len(l) \in Nat
      /\ Tidy(waitList) /\ waitList \in Seq(Wait)
      /\ DOMAIN waitList = 1 .. Len(waitList) /\ Len(waitList) \in Nat
      /\ i \in Int
  BY <1>1 DEF Cleaned, Tidy, WaitInv
<1>3. ASSUME NEW m \in DOMAIN l, waitList[i].who = l[m].who PROVE f[m] = i /\ m <= i
  BY <1>1, <1>3, StayedBehind
<1>4. CASE Admit(p, waitList)
  <2>1. waitList' = waitList
    BY <1>4 DEF Admit
  <2>2. i = j
    BY <1>2, <2>1 DEF Tidy, OneEach
  <2> QED BY <1>2, <2>2
<1>5. ASSUME NEW n \in DOMAIN l, Admit(p, RemoveAt(l, n)) PROVE FALSE
  <2>1. waitList' = RemoveAt(l, n)
    BY <1>5 DEF Admit
  <2>2. /\ RemoveAt(l, n) \in Seq(Wait) /\ Len(RemoveAt(l, n)) = Len(l) - 1
        /\ \A m \in 1 .. Len(l) - 1 : RemoveAt(l, n)[m] = IF m < n THEN l[m] ELSE l[m + 1]
    BY <1>2, RemovedAt
  <2>3. j \in 1 .. Len(l) - 1
    BY <2>1, <2>2
  <2>4. waitList'[j] = IF j < n THEN l[j] ELSE l[j + 1]
    BY <2>1, <2>2, <2>3
  <2>5. j \in DOMAIN l /\ j + 1 \in DOMAIN l /\ j \in Int
    BY <1>2, <2>3
  <2>6. j <= i \/ j + 1 <= i
    BY <1>3, <2>4, <2>5
  <2> QED BY <1>2, <2>5, <2>6
<1>6. ASSUME NEW n \in DOMAIN l, TurnAway(p, [l EXCEPT ![n].timedOut = FALSE]) PROVE FALSE
  <2>1. waitList' = [l EXCEPT ![n].timedOut = FALSE]
    BY <1>6 DEF TurnAway
  <2>2. j \in DOMAIN l /\ waitList'[j].who = l[j].who
    BY <1>2, <2>1, RenewedIs
  <2>3. j <= i /\ j \in Int
    BY <1>2, <1>3, <2>2
  <2> QED BY <1>2, <2>3
<1>7. ASSUME \A m \in DOMAIN l : l[m].who # p, TurnAway(p, Enlisted(l, p))
      PROVE  /\ waitList[i].who \notin Premium
             /\ \E k \in 1 .. j - 1 : /\ waitList'[k].who \in Premium
                                      /\ ~Holds(waitList, waitList'[k].who)
  <2>1. waitList' = Enlisted(l, p)
    BY <1>7 DEF TurnAway
  <2>2. ~Holds(waitList, p)
    <3> SUFFICES ASSUME NEW a \in DOMAIN waitList, waitList[a].who = p, ~waitList[a].timedOut
                 PROVE  FALSE
      BY DEF Holds
    <3>1. PICK b \in DOMAIN l : f[b] = a
      BY <1>1 DEF Cleaned, Keeps
    <3>2. l[b] = waitList[a]
      BY <1>1, <3>1 DEF Cleaned, Keeps
    <3> QED BY <1>7, <3>2
  <2>3. waitList[i].who # p
    BY <2>2 DEF Holds
  <2>4. CASE Enlisted(l, p) = l
    <3>1. j \in DOMAIN l /\ waitList'[j] = l[j] /\ j \in Int
      BY <1>2, <2>1, <2>4
    <3>2. j <= i
      BY <1>3, <3>1
    <3> QED BY <1>2, <3>1, <3>2
  <2>5. CASE Enlisted(l, p) # l
    <3> PICK n : PutAt(waitList', l, p, n)
      BY <1>2, <1>7, <2>1, <2>5, EnlistedIs
    <3>1. /\ n \in 1 .. Len(l) + 1
          /\ waitList' \in Seq(Wait) /\ DOMAIN waitList' = 1 .. Len(l) + 1
          /\ \A m \in 1 .. Len(l) + 1 :
               waitList'[m] = IF m < n THEN l[m] ELSE IF m = n THEN Entry(p) ELSE l[m - 1]
          /\ p \notin Premium => n = Len(l) + 1
          /\ \A m \in DOMAIN l : m < n /\ p \in Premium => l[m].who \in Premium
          /\ \A m \in DOMAIN l : m >= n => l[m].who \notin Premium
      BY DEF PutAt
    <3>2. j \in 1 .. Len(l) + 1 /\ j \in Int /\ n \in Int
      BY <3>1, <1>2
    <3>3. ASSUME j < n PROVE FALSE
      <4>1. j \in DOMAIN l /\ waitList'[j] = l[j]
        BY <1>2, <3>1, <3>2, <3>3
      <4> QED BY <1>2, <1>3, <3>2, <4>1
    <3>4. j # n
      BY <2>3, <3>1, <3>2 DEF Entry
    <3>5. j > n
      BY <3>2, <3>3, <3>4
    <3>6. waitList'[j] = l[j - 1] /\ j - 1 \in DOMAIN l /\ j - 1 >= n
      BY <1>2, <3>1, <3>2, <3>5
    <3>7. waitList[i].who \notin Premium
      BY <3>1, <3>6
    <3>8. p \in Premium
      BY <1>2, <3>1, <3>2, <3>5
    <3>9. waitList'[n].who = p /\ n \in 1 .. j - 1
      BY <3>1, <3>2, <3>5 DEF Entry
    <3> QED BY <2>2, <3>7, <3>8, <3>9
  <2> QED BY <2>4, <2>5
<1> QED BY <1>1, <1>4, <1>5, <1>6, <1>7

\* Whoever waits moves up: WaitingList::clientLogin and cleanUpList worsen nobody's
\* place, but for those without a premium account when a player with one comes new.
THEOREM PlacesAreKept == WaitSpec => NobodyPushedBack
<1> DEFINE P == \A i \in DOMAIN waitList, j \in DOMAIN waitList' :
                   /\ waitList[i].who = waitList'[j].who
                   /\ ~waitList[i].timedOut
                   /\ i < j
                   => /\ waitList[i].who \notin Premium
                      /\ \E k \in 1 .. j - 1 : /\ waitList'[k].who \in Premium
                                               /\ ~Holds(waitList, waitList'[k].who)
<1>1. ASSUME WaitInv, [WaitNext]_waitVars PROVE P \/ UNCHANGED waitVars
  <2>1. ASSUME NEW p \in Applicant, ClientLogin(p) PROVE P
    BY <1>1, <2>1, LoginPushesNobody
  <2>2. ASSUME \E s : /\ DOMAIN s = DOMAIN waitList /\ waitList' = s
                      /\ \A i \in DOMAIN s : s[i].who = waitList[i].who
        PROVE  P
    <3> SUFFICES ASSUME NEW i \in DOMAIN waitList, NEW j \in DOMAIN waitList',
                        waitList[i].who = waitList'[j].who, i < j
                 PROVE  FALSE
      OBVIOUS
    <3>1. j \in DOMAIN waitList /\ waitList'[j].who = waitList[j].who
      BY <2>2
    <3>2. i = j /\ i \in Int
      BY <1>1, <3>1 DEF WaitInv, Tidy, OneEach
    <3> QED BY <3>2
  <2>3. ASSUME NEW p \in Applicant, Logout(p) PROVE P
    BY <2>2, <2>3 DEF Logout
  <2>4. ASSUME NEW i \in DOMAIN waitList, TimeOut(i) PROVE P
    <3>1. LET s == [waitList EXCEPT ![i].timedOut = TRUE]
          IN  DOMAIN s = DOMAIN waitList /\ \A k \in DOMAIN waitList : s[k].who = waitList[k].who
      BY <1>1, RenewedIs DEF WaitInv
    <3>2. waitList' = [waitList EXCEPT ![i].timedOut = TRUE]
      BY <2>4 DEF TimeOut
    <3> HIDE DEF P
    <3> QED BY <2>2, <3>1, <3>2
  <2> HIDE DEF P
  <2> QED BY <1>1, <2>1, <2>3, <2>4 DEF WaitNext
<1>2. WaitInv /\ [WaitNext]_waitVars => [P]_waitVars
  <2> HIDE DEF P
  <2> QED BY <1>1
<1> QED BY <1>2, WaitInvariant, PTL DEF WaitSpec, NobodyPushedBack

\* Who comes in without the privilege leaves room, in a login.
LEMMA LoginKeepsRoom ==
    ASSUME WaitInv, NEW p \in Applicant, ClientLogin(p), IsFiniteSet(online),
           NEW q \in (online' \ online) \ Privileged
    PROVE  /\ PlayersOnline < MaxPlayers
           /\ waitList # <<>> => Holds(waitList, q)
           /\ \A i \in DOMAIN waitList' :
                 FindClient(waitList, waitList'[i].who) < FindClient(waitList, q)
                    => PlayersOnline' + i <= MaxPlayers
<1>1. PICK l, f : /\ Cleaned(l, f)
                  /\ \/ /\ LetIn(p) /\ Admit(p, waitList)
                     \/ \E n \in DOMAIN l : /\ ~LetIn(p) /\ l[n].who = p /\ MayEnter(n)
                                            /\ Admit(p, RemoveAt(l, n))
                     \/ \E n \in DOMAIN l : TurnAway(p, [l EXCEPT ![n].timedOut = FALSE])
                     \/ /\ \A m \in DOMAIN l : l[m].who # p
                        /\ TurnAway(p, Enlisted(l, p))
  BY LoginIs
<1>2. /\ l \in Seq(Wait) /\ DOMAIN l = 1 .. Len(l) /\ Len(l) \in Nat /\ Tidy(l)
      /\ waitList \in Seq(Wait) /\ OneEach(waitList)
      /\ DOMAIN waitList = 1 .. Len(waitList) /\ Len(waitList) \in Nat
  BY <1>1 DEF Cleaned, Tidy, WaitInv
<1>3. q = p /\ online' = online \cup {p} /\ p \notin online
  <2>1. p \notin online
    BY DEF ClientLogin
  <2>2. online' = online \/ online' = online \cup {p}
    BY <1>1 DEF Admit, TurnAway
  <2> QED BY <2>1, <2>2
<1>4. PlayersOnline \in Nat /\ PlayersOnline' = PlayersOnline + 1 /\ MaxPlayers \in Nat
  BY <1>3, FS_CardinalityType, FS_AddElement, WaitListConstants DEF PlayersOnline, WaitListConstants
<1>5. CASE LetIn(p) /\ Admit(p, waitList)
  <2>1. waitList = <<>> /\ PlayersOnline < MaxPlayers /\ waitList' = <<>>
    BY <1>3, <1>5 DEF LetIn, Admit
  <2> QED BY <2>1
<1>6. ASSUME NEW n \in DOMAIN l, l[n].who = p, MayEnter(n), Admit(p, RemoveAt(l, n))
      PROVE  /\ PlayersOnline < MaxPlayers
             /\ Holds(waitList, p)
             /\ \A i \in DOMAIN waitList' :
                   FindClient(waitList, waitList'[i].who) < FindClient(waitList, p)
                      => PlayersOnline' + i <= MaxPlayers
  <2>1. n \in Int /\ n >= 1 /\ PlayersOnline + n <= MaxPlayers
    BY <1>2, <1>6 DEF MayEnter
  <2>2. PlayersOnline < MaxPlayers
    BY <1>4, <2>1
  <2>3. f[n] \in DOMAIN waitList /\ waitList[f[n]] = l[n] /\ ~waitList[f[n]].timedOut
    BY <1>1 DEF Cleaned, Keeps
  <2>4. Holds(waitList, p)
    BY <1>6, <2>3 DEF Holds
  <2>5. ASSUME NEW m \in DOMAIN l PROVE FindClient(waitList, l[m].who) = f[m] /\ f[m] \in Int
    <3>1. f[m] \in DOMAIN waitList /\ waitList[f[m]].who = l[m].who
      BY <1>1 DEF Cleaned, Keeps
    <3>2. FindClient(waitList, l[m].who) = f[m]
      BY <1>2, <3>1, FoundAt
    <3> QED BY <1>2, <3>1, <3>2
  <2>6. /\ waitList' = RemoveAt(l, n)
        /\ RemoveAt(l, n) \in Seq(Wait) /\ Len(RemoveAt(l, n)) = Len(l) - 1
        /\ \A m \in 1 .. Len(l) - 1 : RemoveAt(l, n)[m] = IF m < n THEN l[m] ELSE l[m + 1]
    BY <1>2, <1>6, RemovedAt DEF Admit
  <2>7. ASSUME NEW i \in DOMAIN waitList',
               FindClient(waitList, waitList'[i].who) < FindClient(waitList, p)
        PROVE  PlayersOnline' + i <= MaxPlayers
    <3>1. i \in 1 .. Len(l) - 1 /\ i \in Int
      BY <1>2, <2>6
    <3>2. waitList'[i] = IF i < n THEN l[i] ELSE l[i + 1]
      BY <2>6, <3>1
    <3>3. FindClient(waitList, p) = f[n]
      BY <1>6, <2>5
    <3>4. i < n
      <4> SUFFICES ASSUME ~ (i < n) PROVE FALSE
        OBVIOUS
      <4>1. waitList'[i] = l[i + 1] /\ i + 1 \in DOMAIN l /\ n < i + 1
        BY <1>2, <2>1, <3>1, <3>2
      <4>2. f[i + 1] < f[n]
        BY <2>5, <2>7, <3>3, <4>1
      <4>3. f[n] < f[i + 1]
        BY <1>1, <4>1 DEF Cleaned, Keeps
      <4> QED BY <2>5, <4>1, <4>2, <4>3
    <3> QED BY <1>4, <2>1, <3>1, <3>4
  <2> QED BY <2>2, <2>4, <2>7
<1>7. ASSUME NEW s, TurnAway(p, s) PROVE FALSE
  BY <1>3, <1>7 DEF TurnAway
<1> QED BY <1>1, <1>3, <1>5, <1>6, <1>7

\* Whoever enters a full server without the privilege finds room for himself and
\* leaves room for those who wait ahead of him, and while somebody waits nobody comes
\* in who does not (WaitingList::clientLogin).
THEOREM RoomStaysKept == WaitSpec => RoomIsKept
<1> DEFINE P == \A p \in (online' \ online) \ Privileged :
                   /\ PlayersOnline < MaxPlayers
                   /\ waitList # <<>> => Holds(waitList, p)
                   /\ \A i \in DOMAIN waitList' :
                         FindClient(waitList, waitList'[i].who) < FindClient(waitList, p)
                            => PlayersOnline' + i <= MaxPlayers
<1>1. ASSUME WaitInv, [WaitNext]_waitVars PROVE P
  <2>1. IsFiniteSet(online)
    BY <1>1, FS_Subset, WaitListConstants DEF WaitInv, WaitListConstants
  <2>2. ASSUME NEW p \in Applicant, ClientLogin(p) PROVE P
    BY <1>1, <2>1, <2>2, LoginKeepsRoom
  <2>3. ASSUME online' \subseteq online PROVE P
    BY <2>3
  <2>4. ASSUME NEW p \in Applicant, Logout(p) PROVE P
    BY <2>3, <2>4 DEF Logout
  <2>5. ASSUME NEW i \in DOMAIN waitList, TimeOut(i) PROVE P
    BY <2>3, <2>5 DEF TimeOut
  <2>6. CASE UNCHANGED waitVars
    BY <2>3, <2>6 DEF waitVars
  <2> HIDE DEF P
  <2> QED BY <1>1, <2>2, <2>4, <2>5, <2>6 DEF WaitNext
<1>2. WaitInv /\ [WaitNext]_waitVars => [P]_waitVars
  <2> HIDE DEF P
  <2> QED BY <1>1
<1> QED BY <1>2, WaitInvariant, PTL DEF WaitSpec, RoomIsKept

=============================================================================
