--------------------------- MODULE Network_proofs ---------------------------
(***************************************************************************)
(* Proofs about connections and output messages, for any connections and   *)
(* any finite pool of messages.  The inductive invariant Inv has these     *)
(* parts:                                                                  *)
(*   Types      types,                                                     *)
(*   TaskInv    no task of the network's own is pending twice,             *)
(*   MsgInv     every message is in one place, and none that was given     *)
(*              back is anywhere,                                          *)
(*   ConnInv    how far a connection has been closed, against the tasks    *)
(*              and handlers that are still to come for it,                *)
(*   CountInv   the references to a connection are exactly counted and     *)
(*              keep its protocol alive, unless an administrator is served *)
(*   OrderInv   what is queued behind the buffer of a client was full.     *)
(***************************************************************************)
EXTENDS Network, FiniteSetTheorems, TLAPS

ConnRecord ==
    [state : States, socket : {"open", "closed", "deleted"}, pendingRead : 0..2,
     pendingWrite : 0..1, readError : BOOLEAN, writeError : BOOLEAN, protocol : BOOLEAN,
     receivedFirst : BOOLEAN, refs : Nat, stop : BOOLEAN, listed : BOOLEAN,
     ahead : SUBSET (Timers \cup {"operation"})]

ProtoRecord ==
    [life : {"none", "live", "deleted"}, linked : BOOLEAN, served : BOOLEAN,
     buffer : Msgs \cup {None}]

\* The network thread answers on a connection, and has a message once it is allocated.
IoTypes ==
    /\ io \in [conn : Conns \cup {None}, step : {"idle", "alloc", "count", "send"},
               msg : Msgs \cup {None}, read : Nat, close : BOOLEAN]
    /\ io.conn = None <=> io.step = "idle"
    /\ io.msg = None <=> io.step \in {"idle", "alloc"}

\* The dispatcher has a message to give back, or is at a place in the list.
DispTypes ==
    /\ disp \in [at : {"idle", "unref", "end", "sendAll"}, pos : Nat,
                 msg : Msgs \cup {None}, read : Nat]
    /\ disp.at = "unref" <=> disp.msg # None
    /\ disp.at = "sendAll" => disp.pos \in DOMAIN autoSend

Types ==
    /\ kind \in [Conns -> Kinds]
    /\ conn \in [Conns -> ConnRecord]
    /\ proto \in [Conns -> ProtoRecord]
    /\ reading \in [Conns -> {"none", "header", "packet"}]
    /\ writing \in [Conns -> SUBSET Msgs]
    /\ armed \in [Conns -> SUBSET Timers] /\ expired \in [Conns -> SUBSET Timers]
    /\ owner \in [Msgs -> Conns \cup {None}]
    /\ full \subseteq Msgs /\ poolHeld \in BOOLEAN
    /\ autoSend \in Seq(Msgs) /\ toAdd \in Seq(Msgs)
    /\ tasks \in Seq(Tasks) /\ retries \subseteq Tasks
    /\ IoTypes
    /\ DispTypes

Distinct(s) == \A i, j \in DOMAIN s : s[i] = s[j] => i = j

Close(c) == [run |-> "close", conn |-> c]
Finish(c) == [run |-> "releaseConnection", conn |-> c]
Forget(c) == [run |-> "releaseProtocol", conn |-> c]
Return(m) == [run |-> "release", msg |-> m]

Pending == ToSet(tasks) \cup retries

TaskInv ==
    /\ Distinct(tasks)
    /\ ToSet(tasks) \cap retries = {}
    /\ \A t \in retries : \E c \in Conns : t \in {Finish(c), Forget(c)}

MsgInv ==
    /\ Distinct(autoSend) /\ Distinct(toAdd) /\ ToSet(autoSend) \cap ToSet(toAdd) = {}
    /\ \A m \in Waiting : owner[m] # None
    /\ \A c \in Conns : \A m \in writing[c] : owner[m] = c /\ m \notin Waiting
    /\ io.msg # None =>
          /\ io.msg \notin Waiting
          /\ \A c \in Conns : io.msg \notin writing[c]
          /\ owner[io.msg] = IF io.step = "count" THEN None ELSE io.conn
    /\ \A c \in Conns : proto[c].buffer # None =>
          proto[c].buffer \in Waiting /\ owner[proto[c].buffer] = c
    /\ \A m \in Msgs : Return(m) \in ToSet(tasks) => owner[m] # None /\ m \notin Held
    /\ disp.msg # None =>
          owner[disp.msg] # None /\ disp.msg \notin Held /\ Return(disp.msg) \notin ToSet(tasks)

Closing(c) ==
    /\ conn[c].protocol <=> proto[c].linked
    /\ proto[c].linked => proto[c].life = "live"
    /\ conn[c].state \in {"CLOSING", "CLOSED"} => ~ proto[c].linked
    /\ conn[c].socket # "open" => conn[c].state # "OPEN"
    /\ conn[c].state = "CLOSED" => conn[c].socket # "open"
    /\ Close(c) \in Pending => conn[c].state = "REQUEST_CLOSE"
    /\ Forget(c) \in Pending => ~ proto[c].linked /\ conn[c].state # "OPEN"
    /\ Finish(c) \in Pending => conn[c].state = "CLOSED" /\ ~ conn[c].stop /\ conn[c].listed
    /\ conn[c].stop => conn[c].state = "CLOSED" /\ conn[c].listed
    /\ ~ conn[c].listed => conn[c].state = "CLOSED"
    /\ conn[c].listed <=> conn[c].socket # "deleted"
    /\ conn[c].stop /\ reading[c] # "none" => "operation" \in conn[c].ahead
    /\ ~ conn[c].listed => reading[c] = "none"

\* What is written is counted while the socket is open.
Writes(c) ==
    conn[c].socket = "open" =>
        /\ conn[c].pendingWrite = 0 => writing[c] = {}
        /\ \A m, n \in writing[c] : m = n

Owned(c) == {m \in Msgs : owner[m] = c}

First(c) ==
    /\ ~ conn[c].receivedFirst => ~ proto[c].served /\ Owned(c) = {}
    /\ io.conn = c => conn[c].state = "OPEN" /\ proto[c].linked /\ conn[c].receivedFirst
                      /\ reading[c] = "packet"

ConnInv == \A c \in Conns : Closing(c) /\ Writes(c) /\ First(c)

Counted(c) ==
    /\ conn[c].refs = Cardinality(Owned(c))
    /\ Owned(c) # {} => proto[c].life = "live"
    /\ conn[c].stop \/ ~ conn[c].listed => Owned(c) = {}
    /\ io.conn = c =>
          /\ ~ proto[c].served
          /\ Owned(c) \subseteq {io.msg}
          /\ io.step = "count" => io.read = 0
          /\ io.close
    /\ disp.msg # None /\ owner[disp.msg] = c => disp.read = conn[c].refs

CountInv == \A c \in Conns : Steady(c) => Counted(c)

OrderInv ==
    \A c \in Conns :
        /\ kind[c] # "game" => proto[c].buffer = None
        /\ Steady(c) /\ conn[c].state = "OPEN" =>
              \A m \in Waiting : owner[m] = c => m = proto[c].buffer \/ m \in full

Inv == Types /\ TaskInv /\ MsgInv /\ ConnInv /\ CountInv /\ OrderInv

-----------------------------------------------------------------------------
(* Lists.                                                                  *)

LEMMA SetOfConcat ==
  ASSUME NEW S, NEW s \in Seq(S), NEW t \in Seq(S)
  PROVE  /\ s \o t \in Seq(S)
         /\ ToSet(s \o t) = ToSet(s) \cup ToSet(t)
         /\ Distinct(s) /\ Distinct(t) /\ ToSet(s) \cap ToSet(t) = {} => Distinct(s \o t)
<1>1. /\ s \o t \in Seq(S) /\ Len(s) \in Nat /\ Len(t) \in Nat
      /\ DOMAIN s = 1 .. Len(s) /\ DOMAIN t = 1 .. Len(t)
      /\ DOMAIN (s \o t) = 1 .. Len(s) + Len(t)
      /\ \A i \in 1 .. Len(s) + Len(t) :
            (s \o t)[i] = IF i <= Len(s) THEN s[i] ELSE t[i - Len(s)]
  OBVIOUS
<1>2. \A i \in DOMAIN (s \o t) : \/ i \in DOMAIN s /\ (s \o t)[i] = s[i]
                                 \/ i - Len(s) \in DOMAIN t /\ (s \o t)[i] = t[i - Len(s)]
  BY <1>1
<1>3. /\ \A i \in DOMAIN s : i \in DOMAIN (s \o t) /\ (s \o t)[i] = s[i]
      /\ \A i \in DOMAIN t : i + Len(s) \in DOMAIN (s \o t) /\ (s \o t)[i + Len(s)] = t[i]
  BY <1>1
<1>4. ToSet(s \o t) = ToSet(s) \cup ToSet(t)
  <2>1. \A i \in DOMAIN (s \o t) : (s \o t)[i] \in ToSet(s) \cup ToSet(t)
    BY <1>2 DEF ToSet
  <2>2. /\ \A i \in DOMAIN s : s[i] \in ToSet(s \o t)
        /\ \A i \in DOMAIN t : t[i] \in ToSet(s \o t)
    BY <1>3 DEF ToSet
  <2> QED BY <2>1, <2>2 DEF ToSet
<1>5. ASSUME Distinct(s), Distinct(t), ToSet(s) \cap ToSet(t) = {},
             NEW i \in DOMAIN (s \o t), NEW j \in DOMAIN (s \o t), (s \o t)[i] = (s \o t)[j]
      PROVE  i = j
  <2>1. \A k \in DOMAIN s, l \in DOMAIN t : s[k] # t[l]
    BY <1>5 DEF ToSet
  <2>2. CASE i \in DOMAIN s /\ (s \o t)[i] = s[i]
    BY <1>2, <1>5, <2>1, <2>2 DEF Distinct
  <2>3. CASE i - Len(s) \in DOMAIN t /\ (s \o t)[i] = t[i - Len(s)]
    <3>1. j - Len(s) \in DOMAIN t /\ t[i - Len(s)] = t[j - Len(s)]
      BY <1>2, <1>5, <2>1, <2>3
    <3>2. i - Len(s) = j - Len(s)
      BY <1>5, <2>3, <3>1 DEF Distinct
    <3> QED BY <1>1, <3>2
  <2> QED BY <1>2, <2>2, <2>3
<1> QED BY <1>1, <1>4, <1>5 DEF Distinct

LEMMA SetOfOne ==
  /\ Distinct(<<>>) /\ ToSet(<<>>) = {}
  /\ \A x : Distinct(<<x>>) /\ ToSet(<<x>>) = {x} /\ \A S : x \in S => <<x>> \in Seq(S)
  BY DEF Distinct, ToSet

LEMMA SetOfTail ==
  ASSUME NEW S, NEW s \in Seq(S), s # <<>>, Distinct(s)
  PROVE  /\ Head(s) \in S /\ Tail(s) \in Seq(S) /\ Head(s) \in ToSet(s)
         /\ Distinct(Tail(s)) /\ ToSet(Tail(s)) = ToSet(s) \ {Head(s)}
<1>1. /\ Head(s) \in S /\ Tail(s) \in Seq(S) /\ Len(s) \in Nat /\ Len(s) > 0
      /\ DOMAIN s = 1 .. Len(s) /\ DOMAIN Tail(s) = 1 .. Len(s) - 1
      /\ Head(s) = s[1] /\ \A i \in 1 .. Len(s) - 1 : Tail(s)[i] = s[i + 1]
  OBVIOUS
<1>2. \A i \in DOMAIN Tail(s) : i + 1 \in DOMAIN s /\ i + 1 # 1
  BY <1>1
<1>3. \A i \in DOMAIN s : i = 1 \/ (i - 1 \in DOMAIN Tail(s) /\ Tail(s)[i - 1] = s[i])
  BY <1>1
<1>4. Distinct(Tail(s))
  BY <1>1, <1>2 DEF Distinct
<1>5. ToSet(Tail(s)) = ToSet(s) \ {Head(s)}
  <2>1. \A i \in DOMAIN Tail(s) : Tail(s)[i] \in ToSet(s) \ {Head(s)}
    BY <1>1, <1>2 DEF ToSet, Distinct
  <2>2. \A i \in DOMAIN s : s[i] # Head(s) => s[i] \in ToSet(Tail(s))
    BY <1>1, <1>3 DEF ToSet
  <2> QED BY <2>1, <2>2 DEF ToSet
<1>6. Head(s) \in ToSet(s)
  BY <1>1 DEF ToSet
<1> QED BY <1>1, <1>4, <1>5, <1>6

LEMMA SetOfRemoveAt ==
  ASSUME NEW S, NEW s \in Seq(S), NEW k \in DOMAIN s, Distinct(s)
  PROVE  /\ RemoveAt(s, k) \in Seq(S) /\ Len(RemoveAt(s, k)) = Len(s) - 1
         /\ Distinct(RemoveAt(s, k)) /\ ToSet(RemoveAt(s, k)) = ToSet(s) \ {s[k]}
<1> DEFINE r == RemoveAt(s, k)
<1>1. /\ Len(s) \in Nat /\ DOMAIN s = 1 .. Len(s) /\ k \in 1 .. Len(s)
  OBVIOUS
<1>2. /\ SubSeq(s, 1, k - 1) \in Seq(S) /\ Len(SubSeq(s, 1, k - 1)) = k - 1
      /\ \A i \in 1 .. k - 1 : SubSeq(s, 1, k - 1)[i] = s[i]
      /\ SubSeq(s, k + 1, Len(s)) \in Seq(S) /\ Len(SubSeq(s, k + 1, Len(s))) = Len(s) - k
      /\ \A i \in 1 .. Len(s) - k : SubSeq(s, k + 1, Len(s))[i] = s[i + k]
  <2>1. SubSeq(s, 1, k - 1) \in Seq(S) /\ SubSeq(s, k + 1, Len(s)) \in Seq(S)
    BY <1>1
  <2>2. Len(SubSeq(s, 1, k - 1)) = k - 1
    BY <1>1
  <2>3. Len(SubSeq(s, k + 1, Len(s))) = Len(s) - k
    BY <1>1
  <2>4. \A i \in 1 .. k - 1 : SubSeq(s, 1, k - 1)[i] = s[i]
    BY <1>1
  <2>5. \A i \in 1 .. Len(s) - k : SubSeq(s, k + 1, Len(s))[i] = s[i + k]
    BY <1>1
  <2> QED BY <2>1, <2>2, <2>3, <2>4, <2>5
<1>3. /\ r \in Seq(S) /\ Len(r) = Len(s) - 1 /\ DOMAIN r = 1 .. Len(s) - 1
      /\ \A i \in 1 .. Len(s) - 1 : r[i] = IF i < k THEN s[i] ELSE s[i + 1]
  <2> DEFINE a == SubSeq(s, 1, k - 1)
             b == SubSeq(s, k + 1, Len(s))
  <2>1. r = a \o b
    BY DEF RemoveAt
  <2>2. /\ a \in Seq(S) /\ b \in Seq(S) /\ Len(a) = k - 1 /\ Len(b) = Len(s) - k
        /\ \A i \in 1 .. k - 1 : a[i] = s[i]
        /\ \A i \in 1 .. Len(s) - k : b[i] = s[i + k]
    BY <1>2
  <2> HIDE DEF a, b, r
  <2>6. /\ a \o b \in Seq(S) /\ Len(a \o b) = Len(a) + Len(b)
        /\ DOMAIN (a \o b) = 1 .. Len(a) + Len(b)
        /\ \A i \in 1 .. Len(a) + Len(b) :
              (a \o b)[i] = IF i <= Len(a) THEN a[i] ELSE b[i - Len(a)]
    <3>1. a \in Seq(S) /\ b \in Seq(S)
      BY <2>2
    <3> QED BY <3>1
  <2>3. /\ r \in Seq(S) /\ Len(r) = Len(a) + Len(b) /\ DOMAIN r = 1 .. Len(a) + Len(b)
        /\ \A i \in 1 .. Len(a) + Len(b) : r[i] = IF i <= Len(a) THEN a[i] ELSE b[i - Len(a)]
    BY <2>1, <2>6
  <2>4. Len(a) + Len(b) = Len(s) - 1
    BY <1>1, <2>2
  <2>5. ASSUME NEW i \in 1 .. Len(s) - 1 PROVE r[i] = IF i < k THEN s[i] ELSE s[i + 1]
    <3>1. CASE i < k
      BY <1>1, <2>2, <2>3, <2>4, <3>1
    <3>2. CASE i >= k
      <4>1. i - (k - 1) \in 1 .. Len(s) - k /\ (i - (k - 1)) + k = i + 1 /\ ~ (i <= k - 1)
        BY <1>1, <3>2
      <4>2. r[i] = b[i - (k - 1)]
        BY <2>2, <2>3, <2>4, <4>1
      <4>3. b[i - (k - 1)] = s[i + 1]
        BY <2>2, <4>1
      <4> QED BY <1>1, <3>2, <4>2, <4>3
    <3> QED BY <1>1, <3>1, <3>2
  <2> QED BY <2>3, <2>4, <2>5
<1>4. \A i \in DOMAIN r : \/ i < k /\ i \in DOMAIN s /\ r[i] = s[i]
                          \/ i >= k /\ i + 1 \in DOMAIN s /\ r[i] = s[i + 1]
  BY <1>1, <1>3
<1>5. \A i \in DOMAIN s : \/ i = k
                          \/ i \in DOMAIN r /\ r[i] = s[i]
                          \/ i - 1 \in DOMAIN r /\ r[i - 1] = s[i]
  BY <1>1, <1>3
<1>6. Distinct(r)
  BY <1>1, <1>3, <1>4 DEF Distinct
<1>7. ToSet(r) = ToSet(s) \ {s[k]}
  <2>1. \A i \in DOMAIN r : r[i] \in ToSet(s) \ {s[k]}
    BY <1>1, <1>4 DEF ToSet, Distinct
  <2>2. \A i \in DOMAIN s : s[i] # s[k] => s[i] \in ToSet(r)
    BY <1>5 DEF ToSet
  <2> QED BY <2>1, <2>2 DEF ToSet
<1> QED BY <1>3, <1>6, <1>7

\* What is kept of a list
LEMMA SetOfSelection ==
  ASSUME NEW S, NEW s \in Seq(S), NEW at \in Selections(s), Distinct(s)
  PROVE  LET kept == [i \in DOMAIN at |-> s[at[i]]]
         IN  kept \in Seq(S) /\ Distinct(kept) /\ ToSet(kept) \subseteq ToSet(s)
<1> DEFINE kept == [i \in DOMAIN at |-> s[at[i]]]
<1>1. PICK n \in 0 .. Len(s) : at \in [1 .. n -> DOMAIN s]
  BY DEF Selections
<1>2. \A i, j \in 1 .. n : i < j => at[i] < at[j]
  BY <1>1 DEF Selections
<1>3. kept \in [1 .. n -> S] /\ n \in Nat
  BY <1>1
<1>4. \A i, j \in 1 .. n : at[i] = at[j] => i = j
  BY <1>1, <1>2
<1>5. Distinct(kept)
  BY <1>1, <1>4 DEF Distinct
<1>6. kept \in Seq(S)
  BY <1>3
<1>7. ToSet(kept) \subseteq ToSet(s)
  BY <1>1 DEF ToSet
<1> QED BY <1>5, <1>6, <1>7

\* A set of messages as a list of tasks that give them back
LEMMA SetOfReleased ==
  ASSUME NEW R \in SUBSET Msgs
  PROVE  LET s == SetToSeq(R)
             r == [i \in DOMAIN s |-> [run |-> "release", msg |-> s[i]]]
         IN  r \in Seq(Tasks) /\ Distinct(r) /\ ToSet(r) = {Return(m) : m \in R}
<1> DEFINE s == SetToSeq(R)
           r == [i \in DOMAIN s |-> [run |-> "release", msg |-> s[i]]]
<1>1. IsFiniteSet(R)
  BY NetworkAssumption, FS_Subset DEF NetworkAssumption
<1>2. PICK n \in Nat : n = Cardinality(R) /\ ExistsBijection(1 .. n, R)
  BY <1>1, FS_CardinalityType
<1>3. \E f \in [1 .. n -> R] : IsInjective(f)
  BY <1>2 DEF ExistsBijection, Bijection, Injection, IsInjective
<1>4. s \in [1 .. n -> R] /\ IsInjective(s)
  BY <1>2, <1>3 DEF SetToSeq
<1>5. ASSUME NEW m \in R PROVE \E i \in 1 .. n : s[i] = m
  <2>1. s \in Injection(1 .. n, R)
    BY <1>4 DEF Injection
  <2>3. Cardinality(1 .. n) = n
    BY <1>2, FS_Interval
  <2>2. s \in Surjection(1 .. n, R)
    BY <1>1, <1>2, <2>1, <2>3, FS_Injection
  <2> QED BY <2>2 DEF Surjection
<1>6. \A i \in 1 .. n : r[i] = Return(s[i]) /\ s[i] \in R
  BY <1>4 DEF Return
<1>7. r \in [1 .. n -> Tasks] /\ DOMAIN r = 1 .. n
  BY <1>4 DEF Tasks
<1>8. r \in Seq(Tasks)
  BY <1>7
<1>9. Distinct(r)
  <2> SUFFICES ASSUME NEW i \in 1 .. n, NEW j \in 1 .. n, r[i] = r[j] PROVE i = j
    BY <1>7 DEF Distinct
  <2>1. s[i] = s[j]
    BY <1>4
  <2> QED BY <1>4, <2>1 DEF IsInjective
<1>10. ToSet(r) = {Return(m) : m \in R}
  BY <1>5, <1>6, <1>7 DEF ToSet
<1> QED BY <1>8, <1>9, <1>10

-----------------------------------------------------------------------------
(* Tasks.                                                                  *)

\* A task says what it is and for whom.
LEMMA TaskNames ==
  /\ \A c \in Conns : {Close(c), Finish(c), Forget(c)} \subseteq Tasks
  /\ \A m \in Msgs : Return(m) \in Tasks
  /\ \A c, d : /\ Close(c) = Close(d) => c = d
               /\ Finish(c) = Finish(d) => c = d
               /\ Forget(c) = Forget(d) => c = d
               /\ Return(c) = Return(d) => c = d
               /\ Close(c) # Finish(d) /\ Close(c) # Forget(d) /\ Finish(c) # Forget(d)
               /\ Return(c) \notin {Close(d), Finish(d), Forget(d)}
<1>1. \A c, d : /\ Close(c).run = "close" /\ Close(c).conn = c
                /\ Finish(c).run = "releaseConnection" /\ Finish(c).conn = c
                /\ Forget(c).run = "releaseProtocol" /\ Forget(c).conn = c
                /\ Return(d).run = "release" /\ Return(d).msg = d
  BY DEF Close, Finish, Forget, Return
<1>2. \A c \in Conns : {Close(c), Finish(c), Forget(c)} \subseteq Tasks
  BY DEF Tasks, Close, Finish, Forget
<1>3. \A m \in Msgs : Return(m) \in Tasks
  BY DEF Tasks, Return
<1>4. ASSUME NEW c, NEW d
      PROVE  /\ Close(c) = Close(d) => c = d
             /\ Finish(c) = Finish(d) => c = d
             /\ Forget(c) = Forget(d) => c = d
             /\ Return(c) = Return(d) => c = d
             /\ Close(c) # Finish(d) /\ Close(c) # Forget(d) /\ Finish(c) # Forget(d)
             /\ Return(c) \notin {Close(d), Finish(d), Forget(d)}
  BY <1>1
<1> QED BY <1>2, <1>3, <1>4

LEMMA TaskKinds ==
  ASSUME NEW t \in Tasks
  PROVE  /\ t.run = "close" => t.conn \in Conns /\ t = Close(t.conn)
         /\ t.run = "releaseConnection" => t.conn \in Conns /\ t = Finish(t.conn)
         /\ t.run = "releaseProtocol" => t.conn \in Conns /\ t = Forget(t.conn)
         /\ t.run = "release" => t.msg \in Msgs /\ t = Return(t.msg)
<1>1. CASE t \in [run : {"close", "releaseConnection", "releaseProtocol"}, conn : Conns]
  BY <1>1 DEF Close, Finish, Forget
<1>2. CASE t \in [run : {"release"}, msg : Msgs]
  BY <1>2 DEF Return
<1> QED BY <1>1, <1>2 DEF Tasks

\* Tasks are added to a list
LEMMA PostTasks ==
  ASSUME NEW rest \in Seq(Tasks), Distinct(rest),
         NEW R \in SUBSET Msgs, Held \ Held' = R,
         \A m \in R : Return(m) \notin ToSet(rest),
         Post(rest)
  PROVE  /\ tasks' \in Seq(Tasks) /\ Distinct(tasks')
         /\ ToSet(tasks') = ToSet(rest) \cup {Return(m) : m \in R}
<1> DEFINE s == SetToSeq(R)
           r == [i \in DOMAIN s |-> [run |-> "release", msg |-> s[i]]]
<1>1. r \in Seq(Tasks) /\ Distinct(r) /\ ToSet(r) = {Return(m) : m \in R}
  BY SetOfReleased
<1>2. tasks' = r \o rest
  BY DEF Post
<1> HIDE DEF r, s
<1>3. ToSet(r) \cap ToSet(rest) = {}
  BY <1>1
<1>4. tasks' \in Seq(Tasks) /\ Distinct(tasks') /\ ToSet(tasks') = ToSet(r) \cup ToSet(rest)
  BY <1>1, <1>2, <1>3, SetOfConcat
<1> QED BY <1>1, <1>4

\* No message is let go.
LEMMA PostNothing ==
  ASSUME NEW rest \in Seq(Tasks), Distinct(rest), Held \ Held' = {}, Post(rest)
  PROVE  tasks' \in Seq(Tasks) /\ Distinct(tasks') /\ ToSet(tasks') = ToSet(rest)
<1>1. ToSet(tasks') = ToSet(rest) \cup {Return(m) : m \in {}} /\ tasks' \in Seq(Tasks) /\ Distinct(tasks')
  BY PostTasks
<1> QED BY <1>1

\* One message is let go.
LEMMA PostOne ==
  ASSUME NEW rest \in Seq(Tasks), Distinct(rest), NEW m \in Msgs,
         Held \ Held' = {m}, Return(m) \notin ToSet(rest), Post(rest)
  PROVE  tasks' \in Seq(Tasks) /\ Distinct(tasks') /\ ToSet(tasks') = ToSet(rest) \cup {Return(m)}
<1>1. /\ ToSet(tasks') = ToSet(rest) \cup {Return(k) : k \in {m}}
      /\ tasks' \in Seq(Tasks) /\ Distinct(tasks')
  BY PostTasks
<1> QED BY <1>1

LEMMA AddClose ==
  ASSUME TaskInv, tasks \in Seq(Tasks), NEW c \in Conns, Closing(c)
  PROVE  /\ tasks \o CloseTask(c) \in Seq(Tasks) /\ Distinct(tasks \o CloseTask(c))
         /\ ToSet(tasks \o CloseTask(c)) =
               ToSet(tasks) \cup IF Closable(conn[c]) THEN {Close(c)} ELSE {}
<1>1. CASE Closable(conn[c])
  <2>1. CloseTask(c) = <<Close(c)>>
    BY <1>1 DEF CloseTask, Close
  <2>2. Close(c) \notin ToSet(tasks)
    BY <1>1 DEF Closing, Closable, Pending
  <2>3. CloseTask(c) \in Seq(Tasks) /\ Distinct(CloseTask(c)) /\ ToSet(CloseTask(c)) = {Close(c)}
    BY <2>1, SetOfOne, TaskNames
  <2> QED BY <1>1, <2>2, <2>3, SetOfConcat DEF TaskInv
<1>2. CASE ~ Closable(conn[c])
  <2>1. CloseTask(c) = <<>>
    BY <1>2 DEF CloseTask
  <2>2. CloseTask(c) \in Seq(Tasks) /\ Distinct(CloseTask(c)) /\ ToSet(CloseTask(c)) = {}
    BY <2>1, SetOfOne
  <2> QED BY <1>2, <2>2, SetOfConcat DEF TaskInv
<1> QED BY <1>1, <1>2

\* What is held is in a list, being written, or in the hands of the network thread:
\* a buffer is in a list.
HeldIn ==
    \A m \in Msgs : m \in Held <=> m \in Waiting \/ (\E c \in Conns : m \in writing[c]) \/ m = io.msg

LEMMA WhoHolds ==
  ASSUME \A c \in Conns : proto[c].buffer # None => proto[c].buffer \in Waiting
  PROVE  HeldIn
  BY NetworkAssumption DEF HeldIn, Held, NetworkAssumption

\* The same of the next state
LEMMA WhoHoldsNext ==
  ASSUME \A c \in Conns : proto'[c].buffer # None => proto'[c].buffer \in Waiting'
  PROVE  HeldIn'
  BY NetworkAssumption DEF HeldIn, Held, NetworkAssumption

LEMMA WaitingSet == Types => Waiting \subseteq Msgs
<1> SUFFICES ASSUME Types PROVE Waiting \subseteq Msgs
  OBVIOUS
<1>1. /\ \A i \in DOMAIN autoSend : autoSend[i] \in Msgs
      /\ \A i \in DOMAIN toAdd : toAdd[i] \in Msgs
  BY DEF Types
<1> QED BY <1>1 DEF ToSet, Waiting

-----------------------------------------------------------------------------
(* What is done to the record of a connection.                             *)

\* Nothing but the state, the socket and its operations
Kept(s, r) ==
    /\ s.protocol = r.protocol /\ s.receivedFirst = r.receivedFirst /\ s.refs = r.refs
    /\ s.stop = r.stop /\ s.listed = r.listed

LEMMA CloseFields ==
  ASSUME NEW r \in ConnRecord
  PROVE  LET s == closeConnection(r)
         IN  /\ s \in ConnRecord /\ Kept(s, r) /\ s.ahead = r.ahead
             /\ s.state = IF Closable(r) THEN "REQUEST_CLOSE" ELSE r.state
             /\ s.socket = r.socket /\ s.pendingWrite = r.pendingWrite
             /\ s.writeError = r.writeError
<1>1. CASE Closable(r)
  BY <1>1 DEF closeConnection, ConnRecord, States, Kept
<1>2. CASE ~ Closable(r)
  BY <1>2 DEF closeConnection, ConnRecord, States, Kept
<1> QED BY <1>1, <1>2

LEMMA SocketFields ==
  ASSUME NEW r \in ConnRecord
  PROVE  LET s == closeSocket(r)
         IN  /\ s \in ConnRecord /\ Kept(s, r) /\ s.ahead = r.ahead
             /\ s.state = r.state
             /\ s.socket = IF r.socket = "open" THEN "closed" ELSE r.socket
             /\ s.writeError = r.writeError
<1>1. CASE r.socket = "open"
  <2> DEFINE a == [r EXCEPT !.socket = "closed"]
             b == [a EXCEPT !.pendingRead = 0]
             s == [b EXCEPT !.pendingWrite = 0]
  <2>1. a \in ConnRecord
    BY DEF ConnRecord
  <2>2. b \in ConnRecord
    <3> HIDE DEF a
    <3> QED BY <2>1 DEF ConnRecord
  <2>3. s \in ConnRecord
    <3> HIDE DEF b
    <3> QED BY <2>2 DEF ConnRecord
  <2>4. closeSocket(r) = s
    BY <1>1 DEF closeSocket
  <2> QED BY <1>1, <2>3, <2>4 DEF ConnRecord, Kept
<1>2. CASE r.socket # "open"
  BY <1>2 DEF closeSocket, ConnRecord, Kept
<1> QED BY <1>1, <1>2

LEMMA HandledFields ==
  ASSUME NEW r \in ConnRecord, NEW handler
  PROVE  LET s == Handled(r, handler)
         IN  /\ s \in ConnRecord /\ Kept(s, r) /\ s.ahead = r.ahead \ {handler}
             /\ s.state = r.state /\ s.socket = r.socket
             /\ s.pendingWrite = r.pendingWrite /\ s.writeError = r.writeError
  BY DEF Handled, ConnRecord, Kept

LEMMA SentFields ==
  ASSUME NEW r \in ConnRecord
  PROVE  LET s == Sent(r)
         IN  /\ s \in ConnRecord /\ Kept(s, r) /\ s.ahead = r.ahead
             /\ s.state = r.state /\ s.socket = r.socket /\ s.writeError = r.writeError
             /\ Fate(r) = "written" => r.state = "OPEN" /\ r.pendingWrite = 0 /\ s.pendingWrite = 1
             /\ Fate(r) # "written" => s = r
             /\ Fate(r) = "queued" => r.state = "OPEN"
             /\ Fate(r) \in {"dropped", "written", "queued"}
<1>1. /\ Fate(r) = "written" => r.state = "OPEN" /\ r.pendingWrite = 0
      /\ Fate(r) = "queued" => r.state = "OPEN"
      /\ Fate(r) \in {"dropped", "written", "queued"}
  BY DEF Fate, Unusable
<1>2. CASE Fate(r) = "written"
  BY <1>1, <1>2 DEF Sent, ConnRecord, Kept
<1>3. CASE Fate(r) # "written"
  BY <1>1, <1>3 DEF Sent, Kept
<1> QED BY <1>1, <1>2, <1>3

-----------------------------------------------------------------------------
(* What a step leaves alone.                                               *)

\* The messages stay where they are; a buffer may be let go.
LEMMA SameMessages ==
  ASSUME MsgInv, UNCHANGED <<autoSend, toAdd, owner, writing>>,
         io'.msg = io.msg, io.msg # None => UNCHANGED io,
         disp'.msg = disp.msg,
         \A c \in Conns : proto'[c].buffer \in {proto[c].buffer, None},
         \A m \in Msgs : Return(m) \in ToSet(tasks') => Return(m) \in ToSet(tasks),
         disp.msg # None => disp.msg \in Msgs
  PROVE  MsgInv'
<1>1. Waiting' = Waiting
  BY DEF Waiting
<1>2. \A m \in Msgs : m \in Held' => m \in Held
  BY <1>1, NetworkAssumption DEF Held, NetworkAssumption
<1> QED BY <1>1, <1>2 DEF MsgInv

\* No message is let go.
LEMMA SameHeld ==
  ASSUME MsgInv, MsgInv', UNCHANGED <<autoSend, toAdd, writing>>, io'.msg = io.msg
  PROVE  Held \ Held' = {}
<1>1. Waiting' = Waiting
  BY DEF Waiting
<1>2. HeldIn /\ HeldIn'
  BY WhoHolds, WhoHoldsNext DEF MsgInv
<1>3. \A m \in Msgs : m \in Held => m \in Held'
  BY <1>1, <1>2 DEF HeldIn
<1>4. \A m \in Held : m \in Msgs
  BY DEF Held
<1> QED BY <1>3, <1>4

\* A connection that the step does not concern
LEMMA OtherConn ==
  ASSUME NEW c \in Conns, Closing(c), Writes(c), First(c),
         conn'[c] = conn[c],
         proto'[c].linked = proto[c].linked, proto'[c].life = proto[c].life,
         proto'[c].served = proto[c].served,
         reading'[c] = reading[c], writing'[c] \subseteq writing[c],
         \A t \in {Close(c), Finish(c), Forget(c)} : t \in Pending' => t \in Pending,
         conn[c].receivedFirst \/ Owned(c)' \subseteq Owned(c),
         io'.conn = c => io.conn = c
  PROVE  Closing(c)' /\ Writes(c)' /\ First(c)'
<1>1. Closing(c)'
  BY DEF Closing
<1>2. Writes(c)'
  BY DEF Writes
<1>3. First(c)'
  BY DEF First
<1> QED BY <1>1, <1>2, <1>3

\* The references to a connection stay.
LEMMA SameCount ==
  ASSUME NEW c \in Conns, Counted(c), Owned(c)' = Owned(c),
         conn'[c].refs = conn[c].refs, conn'[c].stop = conn[c].stop, conn'[c].listed = conn[c].listed,
         proto'[c].life = proto[c].life, proto'[c].served = proto[c].served,
         io'.conn = c => UNCHANGED io,
         disp'.msg # None => disp'.msg = disp.msg /\ disp'.read = disp.read /\ owner'[disp.msg] = owner[disp.msg]
  PROVE  Counted(c)'
  BY DEF Counted

\* All connections, when the step concerns c
LEMMA OneConn ==
  ASSUME ConnInv, NEW c \in Conns, Closing(c)', Writes(c)', First(c)',
         \A d \in Conns \ {c} :
            /\ conn'[d] = conn[d]
            /\ proto'[d].linked = proto[d].linked /\ proto'[d].life = proto[d].life
            /\ proto'[d].served = proto[d].served
            /\ reading'[d] = reading[d] /\ writing'[d] \subseteq writing[d]
            /\ \A t \in {Close(d), Finish(d), Forget(d)} : t \in Pending' => t \in Pending
            /\ Owned(d)' \subseteq Owned(d)
            /\ io'.conn = d => io.conn = d
  PROVE  ConnInv'
<1> SUFFICES ASSUME NEW d \in Conns PROVE Closing(d)' /\ Writes(d)' /\ First(d)'
  BY DEF ConnInv
<1>1. CASE d = c
  BY <1>1
<1>2. CASE d # c
  <2>1. Closing(d) /\ Writes(d) /\ First(d)
    BY DEF ConnInv
  <2> QED BY <1>2, <2>1, OtherConn
<1> QED BY <1>1, <1>2

LEMMA OneCount ==
  ASSUME CountInv, UNCHANGED kind, NEW c \in Conns, Steady(c) => Counted(c)',
         \A d \in Conns \ {c} :
            /\ Owned(d)' = Owned(d)
            /\ conn'[d] = conn[d]
            /\ proto'[d].life = proto[d].life /\ proto'[d].served = proto[d].served
            /\ io'.conn = d => UNCHANGED io,
         disp'.msg # None => UNCHANGED disp /\ owner'[disp.msg] = owner[disp.msg]
  PROVE  CountInv'
<1> SUFFICES ASSUME NEW d \in Conns, Steady(d)' PROVE Counted(d)'
  BY DEF CountInv
<1>0. Steady(d)
  BY DEF Steady
<1>1. CASE d = c
  BY <1>0, <1>1
<1>2. CASE d # c
  <2>1. Counted(d)
    BY <1>0 DEF CountInv
  <2> QED BY <1>2, <2>1, SameCount
<1> QED BY <1>1, <1>2

\* The queue of a client stays in order.
SameOrder(c) ==
    /\ proto'[c].buffer \in {proto[c].buffer, None}
    /\ conn'[c].state = "OPEN" => proto'[c].buffer = proto[c].buffer /\ conn[c].state = "OPEN"

LEMMA SameOrders ==
  ASSUME Types, OrderInv, UNCHANGED kind, UNCHANGED Waiting,
         \A m \in Waiting : owner'[m] = owner[m] /\ (m \in full => m \in full'),
         \A c \in Conns : SameOrder(c)
  PROVE  OrderInv'
  BY DEF OrderInv, SameOrder, Steady

\* A task is over.
LEMMA EndsTypes == Ends => DispTypes' /\ disp'.msg = None
<1> SUFFICES ASSUME Ends PROVE DispTypes' /\ disp'.msg = None
  OBVIOUS
<1>1. disp' \in {DispIdle, [DispIdle EXCEPT !.at = "end"]}
  BY DEF Ends
<1>2. disp' \in {[at |-> "idle", pos |-> 0, msg |-> None, read |-> 0],
                 [at |-> "end", pos |-> 0, msg |-> None, read |-> 0]}
  BY <1>1 DEF DispIdle
<1> QED BY <1>2 DEF DispTypes

\* What a step may do to a connection without touching anything that matters here
LooksSame(s, r) ==
    /\ s \in ConnRecord /\ Kept(s, r)
    /\ s.state = r.state /\ s.socket = r.socket /\ s.pendingWrite = r.pendingWrite
    /\ "operation" \in r.ahead => "operation" \in s.ahead

Quiet ==
    /\ UNCHANGED <<kind, proto, writing, owner, autoSend, toAdd, io>>
    /\ full \subseteq full'
    /\ \A d \in Conns : LooksSame(conn'[d], conn[d])
    /\ \A d \in Conns : \/ reading'[d] = reading[d]
                        \/ reading[d] # "none" /\ io.conn # d
    /\ \A d \in Conns : \A t \in {Close(d), Finish(d), Forget(d)} : t \in Pending' => t \in Pending
    /\ \A m \in Msgs : Return(m) \in ToSet(tasks') => Return(m) \in ToSet(tasks)
    /\ disp'.msg = disp.msg
    /\ disp'.read = disp.read \/ disp.msg = None

LEMMA QuietStep ==
  ASSUME Inv, Types', TaskInv', Quiet
  PROVE  Inv'
<1> USE DEF Quiet
<1>0. Types /\ TaskInv /\ MsgInv /\ ConnInv /\ CountInv /\ OrderInv
  BY DEF Inv
<1>1. MsgInv'
  BY <1>0, SameMessages DEF Types, DispTypes
<1>2. ASSUME NEW d \in Conns PROVE Closing(d)' /\ Writes(d)' /\ First(d)'
  <2>1. Closing(d) /\ Writes(d) /\ First(d)
    BY <1>0 DEF ConnInv
  <2>2. Closing(d)'
    BY <2>1 DEF Closing, LooksSame, Kept
  <2>3. Writes(d)'
    BY <2>1 DEF Writes, LooksSame
  <2>4. First(d)'
    BY <2>1 DEF First, LooksSame, Kept, Owned
  <2> QED BY <2>2, <2>3, <2>4
<1>3. CountInv'
  <2> SUFFICES ASSUME NEW d \in Conns, Steady(d)' PROVE Counted(d)'
    BY DEF CountInv
  <2>1. Counted(d)
    BY <1>0 DEF CountInv, Steady
  <2>2. Owned(d)' = Owned(d)
    BY DEF Owned
  <2> QED BY <2>1, <2>2, SameCount DEF LooksSame, Kept
<1>4. OrderInv'
  BY <1>0, SameOrders DEF SameOrder, Waiting, LooksSame
<1> QED BY <1>0, <1>1, <1>2, <1>3, <1>4 DEF Inv, ConnInv

-----------------------------------------------------------------------------
(* The steps of the network thread.                                        *)

\* What is common to the handlers and tasks that close a connection and touch no
\* message: r is its record after the step.
LEMMA ClosingStep ==
  ASSUME Inv, NEW c \in Conns, NEW r \in ConnRecord, Kept(r, conn[c]),
         conn' = [conn EXCEPT ![c] = r],
         r.state = IF Closable(conn[c]) THEN "REQUEST_CLOSE" ELSE conn[c].state,
         r.socket = conn[c].socket \/ (conn[c].socket = "open" /\ r.socket = "closed"
                                       /\ r.state # "OPEN"),
         r.socket = "open" => r.pendingWrite = conn[c].pendingWrite,
         io.conn # c,
         reading' = reading \/ reading' = [reading EXCEPT ![c] = "none"],
         reading'[c] # "none" => ("operation" \in conn[c].ahead => "operation" \in r.ahead),
         tasks' = tasks \o CloseTask(c),
         armed' \in [Conns -> SUBSET Timers], expired' \in [Conns -> SUBSET Timers],
         UNCHANGED <<kind, proto, writing, owner, full, autoSend, toAdd, poolHeld, retries, io>>,
         DispTypes', disp'.msg = disp.msg, disp.msg # None => UNCHANGED disp
  PROVE  Inv'
<1>0. Types /\ TaskInv /\ MsgInv /\ ConnInv /\ CountInv /\ OrderInv
  BY DEF Inv
<1>1. Closing(c) /\ Writes(c) /\ First(c)
  BY <1>0 DEF ConnInv
<1>2. /\ tasks' \in Seq(Tasks) /\ Distinct(tasks')
      /\ ToSet(tasks') = ToSet(tasks) \cup IF Closable(conn[c]) THEN {Close(c)} ELSE {}
  BY <1>0, <1>1, AddClose DEF Types
<1>3. reading' \in [Conns -> {"none", "header", "packet"}]
      /\ \A d \in Conns \ {c} : reading'[d] = reading[d]
  BY <1>0 DEF Types
<1>4. conn' \in [Conns -> ConnRecord] /\ conn'[c] = r /\ \A d \in Conns \ {c} : conn'[d] = conn[d]
  BY <1>0 DEF Types
<1>5. Types'
  BY <1>0, <1>2, <1>3, <1>4 DEF Types, IoTypes
<1>6. TaskInv'
  <2>1. Close(c) \notin retries
    BY <1>0, TaskNames DEF TaskInv
  <2> QED BY <1>0, <1>2, <2>1 DEF TaskInv
<1>7. /\ \A m : Return(m) \in ToSet(tasks') => Return(m) \in ToSet(tasks)
      /\ \A d : Finish(d) \in Pending' => Finish(d) \in Pending
      /\ \A d : Forget(d) \in Pending' => Forget(d) \in Pending
      /\ \A d : Close(d) \in Pending' => Close(d) \in Pending \/ (d = c /\ Closable(conn[c]))
  BY <1>2, TaskNames DEF Pending
<1>8. MsgInv'
  BY <1>0, <1>7, SameMessages DEF Types, DispTypes
<1>9. ASSUME NEW d \in Conns PROVE Closing(d)' /\ Writes(d)' /\ First(d)'
  <2>1. CASE d # c
    <3>1. Closing(d) /\ Writes(d) /\ First(d)
      BY <1>0 DEF ConnInv
    <3> QED BY <1>3, <1>4, <1>7, <2>1, <3>1, OtherConn DEF Owned
  <2>2. CASE d = c
    <3>1. Closing(c)'
      BY <1>1, <1>3, <1>4, <1>7 DEF Closing, Kept, Closable
    <3>2. Writes(c)'
      BY <1>1, <1>4 DEF Writes
    <3>3. First(c)'
      BY <1>1, <1>4 DEF First, Kept, Owned
    <3> QED BY <2>2, <3>1, <3>2, <3>3
  <2> QED BY <2>1, <2>2
<1>10. CountInv'
  <2> SUFFICES ASSUME NEW d \in Conns, Steady(d)' PROVE Counted(d)'
    BY DEF CountInv
  <2>1. Counted(d)
    BY <1>0 DEF CountInv, Steady
  <2>2. conn'[d].refs = conn[d].refs /\ conn'[d].stop = conn[d].stop /\ conn'[d].listed = conn[d].listed
    BY <1>4 DEF Kept
  <2> QED BY <2>1, <2>2, SameCount DEF Owned
<1>11. OrderInv'
  <2>1. \A d \in Conns : conn'[d].state = "OPEN" => conn[d].state = "OPEN"
    BY <1>4
  <2> QED BY <1>0, <2>1, SameOrders DEF SameOrder, Waiting
<1> QED BY <1>5, <1>6, <1>8, <1>9, <1>10, <1>11 DEF Inv, ConnInv

LEMMA StepStopReading ==
  ASSUME Inv, NEW c \in Conns, Idle, NEW outcome \in {"ok", "failed", "aborted"},
         StopReading(c, outcome)
  PROVE  Inv'
<1> DEFINE r == Handled(closeConnection(AfterRead(c, outcome)), "operation")
<1>1. conn[c] \in ConnRecord
  BY DEF Inv, Types
<1>2. /\ AfterRead(c, outcome) \in ConnRecord /\ Kept(AfterRead(c, outcome), conn[c])
      /\ AfterRead(c, outcome).socket = conn[c].socket
      /\ AfterRead(c, outcome).pendingWrite = conn[c].pendingWrite
      /\ AfterRead(c, outcome).state \in
            {conn[c].state, IF Closable(conn[c]) THEN "REQUEST_CLOSE" ELSE conn[c].state}
  <2>1. CASE outcome = "ok"
    BY <1>1, <2>1 DEF AfterRead, Kept
  <2>2. CASE outcome = "failed"
    <3> DEFINE s == closeConnection(conn[c])
    <3>1. /\ s \in ConnRecord /\ Kept(s, conn[c]) /\ s.socket = conn[c].socket
          /\ s.pendingWrite = conn[c].pendingWrite
          /\ s.state = IF Closable(conn[c]) THEN "REQUEST_CLOSE" ELSE conn[c].state
      BY <1>1, CloseFields
    <3>2. AfterRead(c, outcome) = [s EXCEPT !.readError = TRUE]
      BY <2>2 DEF AfterRead
    <3> HIDE DEF s
    <3> QED BY <3>1, <3>2 DEF ConnRecord, Kept
  <2>3. CASE outcome = "aborted"
    BY <1>1, <2>3 DEF AfterRead, Kept, ConnRecord
  <2> QED BY <2>1, <2>2, <2>3
<1>3. /\ r \in ConnRecord /\ Kept(r, conn[c])
      /\ r.socket = conn[c].socket /\ r.pendingWrite = conn[c].pendingWrite
      /\ r.state = IF Closable(conn[c]) THEN "REQUEST_CLOSE" ELSE conn[c].state
  <2> DEFINE a == AfterRead(c, outcome)
             b == closeConnection(a)
  <2>1. /\ b \in ConnRecord /\ Kept(b, a) /\ b.socket = a.socket /\ b.pendingWrite = a.pendingWrite
        /\ b.state = IF Closable(a) THEN "REQUEST_CLOSE" ELSE a.state
    BY <1>2, CloseFields
  <2>2. /\ r \in ConnRecord /\ Kept(r, b) /\ r.socket = b.socket /\ r.pendingWrite = b.pendingWrite
        /\ r.state = b.state
    BY <2>1, HandledFields
  <2> HIDE DEF a, b, r
  <2> QED BY <1>2, <2>1, <2>2 DEF Kept, Closable, a
<1>4. /\ conn' = [conn EXCEPT ![c] = r]
      /\ reading' = [reading EXCEPT ![c] = "none"]
      /\ tasks' = tasks \o CloseTask(c)
      /\ armed' = [armed EXCEPT ![c] = @ \ {"read"}]
      /\ UNCHANGED <<kind, proto, writing, expired, owner, full, autoSend, toAdd, poolHeld, retries, io, disp>>
  BY DEF StopReading, Cancel, poolVars
<1>5. reading'[c] = "none" /\ armed' \in [Conns -> SUBSET Timers] /\ expired' \in [Conns -> SUBSET Timers]
      /\ DispTypes' /\ io.conn # c
  BY <1>4, NetworkAssumption DEF Inv, Types, DispTypes, Idle, NetworkAssumption
<1> HIDE DEF r
<1> QED BY <1>3, <1>4, <1>5, ClosingStep

LEMMA StepParseHeader ==
  ASSUME Inv, NEW c \in Conns, parseHeader(c)
  PROVE  Inv'
<1>1. PICK outcome \in Outcomes(c) :
         \/ StopReading(c, outcome)
         \/ /\ reading[c] = "header" /\ reading' = [reading EXCEPT ![c] = "packet"]
            /\ Rearm(c, "read") /\ Idle
            /\ UNCHANGED <<kind, conn, proto, writing, expired, poolVars, tasks, io, disp, retries>>
  BY DEF parseHeader
<1>2. outcome \in {"ok", "failed", "aborted"} /\ Idle
  BY DEF Outcomes, parseHeader
<1>3. CASE StopReading(c, outcome)
  BY <1>2, <1>3, StepStopReading
<1>4. CASE /\ reading[c] = "header" /\ reading' = [reading EXCEPT ![c] = "packet"]
           /\ Rearm(c, "read") /\ Idle
           /\ UNCHANGED <<kind, conn, proto, writing, expired, poolVars, tasks, io, disp, retries>>
  <2>1. Types /\ TaskInv
    BY DEF Inv
  <2>2. /\ Types' /\ UNCHANGED <<owner, full, autoSend, toAdd>>
        /\ io.conn # c
    BY <1>4, <2>1, NetworkAssumption
    DEF Types, IoTypes, DispTypes, Rearm, Timers, poolVars, Idle, NetworkAssumption
  <2>3. TaskInv' /\ Pending' = Pending
    BY <1>4, <2>1 DEF TaskInv, Pending
  <2>4. \A d \in Conns : LooksSame(conn'[d], conn[d])
    BY <1>4, <2>1 DEF LooksSame, Kept, Types
  <2>5. \A d \in Conns : reading'[d] = reading[d] \/ (reading[d] # "none" /\ io.conn # d)
    BY <1>4, <2>1, <2>2 DEF Types
  <2>6. /\ \A d \in Conns : \A t \in {Close(d), Finish(d), Forget(d)} : t \in Pending' => t \in Pending
        /\ \A m \in Msgs : Return(m) \in ToSet(tasks') => Return(m) \in ToSet(tasks)
        /\ full \subseteq full' /\ disp' = disp
        /\ UNCHANGED <<kind, proto, writing, owner, autoSend, toAdd, io>>
    BY <1>4, <2>2, <2>3
  <2>7. Quiet
    BY <2>4, <2>5, <2>6 DEF Quiet
  <2> QED BY <2>2, <2>3, <2>7, QuietStep
<1> QED BY <1>1, <1>3, <1>4

LEMMA StepOnTimeout ==
  ASSUME Inv, NEW c \in Conns, NEW t \in Timers, onTimeout(c, t)
  PROVE  Inv'
<1> DEFINE r == conn[c]
           closed == Handled(closeConnection(closeSocket(r)), t)
<1>0. Types /\ TaskInv /\ r \in ConnRecord /\ io.conn # c /\ t # "operation"
  BY NetworkAssumption DEF Inv, Types, onTimeout, Idle, NetworkAssumption, Timers
<1>1. /\ UNCHANGED <<kind, proto, reading, writing, armed, owner, full, autoSend, toAdd, poolHeld,
                     io, disp, retries>>
      /\ expired' \in [Conns -> SUBSET Timers]
      /\ armed' \in [Conns -> SUBSET Timers]
  BY <1>0 DEF onTimeout, poolVars, Types
<1>2. DispTypes'
  BY <1>0, <1>1 DEF Types, DispTypes
<1>3. \/ conn' = [conn EXCEPT ![c] = closed] /\ tasks' = tasks \o CloseTask(c)
      \/ conn' = [conn EXCEPT ![c] = Handled(r, t)] /\ UNCHANGED tasks
  BY DEF onTimeout
<1>4. CASE conn' = [conn EXCEPT ![c] = closed] /\ tasks' = tasks \o CloseTask(c)
  <2> DEFINE a == closeSocket(r)
             b == closeConnection(a)
  <2>1. /\ a \in ConnRecord /\ Kept(a, r) /\ a.ahead = r.ahead /\ a.state = r.state
        /\ a.socket = IF r.socket = "open" THEN "closed" ELSE r.socket
    BY <1>0, SocketFields
  <2>2. /\ b \in ConnRecord /\ Kept(b, a) /\ b.ahead = a.ahead /\ b.socket = a.socket
        /\ b.state = IF Closable(a) THEN "REQUEST_CLOSE" ELSE a.state
    BY <2>1, CloseFields
  <2>3. /\ closed \in ConnRecord /\ Kept(closed, b) /\ closed.ahead = b.ahead \ {t}
        /\ closed.state = b.state /\ closed.socket = b.socket
    BY <2>2, HandledFields
  <2> HIDE DEF closed, a, b
  <2>4. /\ Kept(closed, r)
        /\ closed.state = IF Closable(r) THEN "REQUEST_CLOSE" ELSE r.state
    BY <2>1, <2>2, <2>3 DEF Kept, Closable
  <2>5. /\ \/ closed.socket = r.socket
           \/ r.socket = "open" /\ closed.socket = "closed" /\ closed.state # "OPEN"
        /\ closed.socket # "open"
    BY <2>1, <2>2, <2>3, <2>4 DEF Closable
  <2>6. "operation" \in conn[c].ahead => "operation" \in closed.ahead
    BY <1>0, <2>1, <2>2, <2>3
  <2> QED BY <1>0, <1>1, <1>2, <1>4, <2>3, <2>4, <2>5, <2>6, ClosingStep
<1>5. CASE conn' = [conn EXCEPT ![c] = Handled(r, t)] /\ UNCHANGED tasks
  <2> DEFINE h == Handled(r, t)
  <2>1. /\ h \in ConnRecord /\ Kept(h, r) /\ h.ahead = r.ahead \ {t} /\ h.state = r.state
        /\ h.socket = r.socket /\ h.pendingWrite = r.pendingWrite
    BY <1>0, HandledFields
  <2> HIDE DEF h
  <2>2. LooksSame(h, r)
    BY <1>0, <2>1 DEF LooksSame
  <2>3. conn' \in [Conns -> ConnRecord] /\ conn'[c] = h /\ \A d \in Conns \ {c} : conn'[d] = conn[d]
    BY <1>0, <1>5, <2>1 DEF h, Types
  <2>4. \A d \in Conns : LooksSame(conn'[d], conn[d])
    BY <1>0, <2>2, <2>3 DEF LooksSame, Kept, Types
  <2>5. Types'
    BY <1>0, <1>1, <1>2, <1>5, <2>3 DEF Types, IoTypes
  <2>6. TaskInv' /\ Pending' = Pending
    BY <1>0, <1>1, <1>5 DEF TaskInv, Pending
  <2>7. Quiet
    BY <1>1, <1>5, <2>4, <2>6 DEF Quiet
  <2> QED BY <2>5, <2>6, <2>7, QuietStep
<1> QED BY <1>3, <1>4, <1>5

LEMMA StepTimerExpires ==
  ASSUME Inv, NEW c \in Conns, NEW t \in Timers, TimerExpires(c, t)
  PROVE  Inv'
<1>1. Types /\ TaskInv
  BY DEF Inv
<1>2. UNCHANGED <<kind, conn, proto, reading, writing, owner, full, autoSend, toAdd, poolHeld,
                  tasks, io, disp, retries>>
  BY DEF TimerExpires, poolVars
<1>3. armed' \in [Conns -> SUBSET Timers] /\ expired' \in [Conns -> SUBSET Timers]
  BY <1>1 DEF TimerExpires, Cancel, Types
<1>4. Types'
  BY <1>1, <1>2, <1>3 DEF Types, IoTypes, DispTypes
<1>5. TaskInv' /\ Pending' = Pending
  BY <1>1, <1>2 DEF TaskInv, Pending
<1>6. \A d \in Conns : LooksSame(conn'[d], conn[d])
  BY <1>1, <1>2 DEF LooksSame, Kept, Types
<1>7. Quiet
  BY <1>2, <1>5, <1>6 DEF Quiet
<1> QED BY <1>4, <1>5, <1>7, QuietStep

LEMMA StepRetryDue ==
  ASSUME Inv, NEW t \in retries, RetryDue(t)
  PROVE  Inv'
<1>1. Types /\ TaskInv /\ t \in Tasks
  BY DEF Inv, Types
<1>2. /\ retries' = retries \ {t} /\ tasks' = tasks \o <<t>>
      /\ UNCHANGED <<kind, conn, proto, reading, writing, armed, expired, owner, full, autoSend,
                     toAdd, poolHeld, io, disp>>
  BY <1>1 DEF RetryDue, ioVars, poolVars, Types
<1>3. /\ tasks' \in Seq(Tasks) /\ Distinct(tasks') /\ ToSet(tasks') = ToSet(tasks) \cup {t}
  <2>1. t \notin ToSet(tasks)
    BY <1>1 DEF TaskInv
  <2>2. <<t>> \in Seq(Tasks) /\ Distinct(<<t>>) /\ ToSet(<<t>>) = {t}
    BY <1>1, SetOfOne
  <2>3. tasks \in Seq(Tasks) /\ Distinct(tasks) /\ ToSet(tasks) \cap ToSet(<<t>>) = {}
    BY <1>1, <2>1, <2>2 DEF Types, TaskInv
  <2> DEFINE u == <<t>>
  <2>4. u \in Seq(Tasks) /\ Distinct(u) /\ ToSet(u) = {t} /\ ToSet(tasks) \cap ToSet(u) = {}
    BY <2>2, <2>3
  <2>5. tasks' = tasks \o u
    BY <1>2
  <2> HIDE DEF u
  <2> QED BY <2>3, <2>4, <2>5, SetOfConcat
<1>4. Types'
  BY <1>1, <1>2, <1>3 DEF Types, IoTypes, DispTypes
<1>5. TaskInv' /\ Pending' = Pending
  BY <1>1, <1>2, <1>3 DEF TaskInv, Pending
<1>6. \A d \in Conns : LooksSame(conn'[d], conn[d])
  BY <1>1, <1>2 DEF LooksSame, Kept, Types
<1>7. \A m : Return(m) # t
  BY <1>1, TaskNames DEF TaskInv
<1>8. Quiet
  BY <1>2, <1>3, <1>5, <1>6, <1>7 DEF Quiet
<1> QED BY <1>4, <1>5, <1>8, QuietStep

LEMMA StepFill ==
  ASSUME Inv, NEW c \in Conns, Fill(c)
  PROVE  Inv'
<1>1. Types /\ TaskInv /\ disp.msg = None
  BY DEF Inv, Types, DispTypes, Fill, InTask
<1>2. /\ full' = full \cup {proto[c].buffer} /\ proto[c].buffer # None
      /\ UNCHANGED <<kind, conn, proto, reading, writing, armed, expired, owner, autoSend,
                     toAdd, poolHeld, tasks, io, retries>>
      /\ Ends
  BY DEF Fill, ioVars
<1>3. DispTypes' /\ disp'.msg = None
  BY <1>2, EndsTypes
<1>4. proto[c].buffer \in Msgs
  BY <1>1, <1>2 DEF Types, ProtoRecord
<1>5. Types'
  BY <1>1, <1>2, <1>3, <1>4 DEF Types, IoTypes
<1>6. TaskInv' /\ Pending' = Pending
  BY <1>1, <1>2 DEF TaskInv, Pending
<1>7. \A d \in Conns : LooksSame(conn'[d], conn[d])
  BY <1>1, <1>2 DEF LooksSame, Kept, Types
<1>8. Quiet
  BY <1>1, <1>2, <1>3, <1>6, <1>7 DEF Quiet
<1> QED BY <1>5, <1>6, <1>8, QuietStep

LEMMA StepSkipNext ==
  ASSUME Inv, SkipNext
  PROVE  Inv'
<1>1. Types /\ TaskInv /\ disp.msg = None
  BY DEF Inv, Types, DispTypes, SkipNext
<1>2. /\ UNCHANGED <<kind, conn, proto, reading, writing, armed, expired, owner, full, autoSend,
                     toAdd, tasks, io, retries>>
      /\ disp.at = "sendAll" /\ NextMessage(disp.pos + 1)
  BY DEF SkipNext, ioVars
<1>3. DispTypes' /\ disp'.msg = None /\ poolHeld' \in BOOLEAN
  <2>1. /\ disp' = IF disp.pos + 1 <= Len(autoSend) THEN [disp EXCEPT !.pos = disp.pos + 1] ELSE DispIdle
        /\ poolHeld' \in BOOLEAN
    BY <1>2 DEF NextMessage
  <2>2. disp.pos \in Nat /\ Len(autoSend) \in Nat /\ DOMAIN autoSend = 1 .. Len(autoSend)
    BY <1>1 DEF Types, DispTypes
  <2>5. /\ disp \in [at : {"idle", "unref", "end", "sendAll"}, pos : Nat,
                     msg : Msgs \cup {None}, read : Nat]
        /\ disp.at = "sendAll" /\ disp.msg = None
    BY <1>1, <1>2 DEF Types, DispTypes
  <2>3. CASE disp.pos + 1 <= Len(autoSend)
    <3>1. disp' = [disp EXCEPT !.pos = disp.pos + 1] /\ disp.pos + 1 \in DOMAIN autoSend
      BY <2>1, <2>2, <2>3
    <3>2. /\ disp' \in [at : {"idle", "unref", "end", "sendAll"}, pos : Nat,
                         msg : Msgs \cup {None}, read : Nat]
          /\ disp'.at = "sendAll" /\ disp'.msg = None /\ disp'.pos = disp.pos + 1
      BY <2>2, <2>5, <3>1
    <3> QED BY <1>2, <2>1, <3>1, <3>2 DEF DispTypes
  <2>4. CASE ~ (disp.pos + 1 <= Len(autoSend))
    BY <2>1, <2>4 DEF DispIdle, DispTypes
  <2> QED BY <2>3, <2>4
<1>4. Types'
  BY <1>1, <1>2, <1>3 DEF Types, IoTypes
<1>5. TaskInv' /\ Pending' = Pending
  BY <1>1, <1>2 DEF TaskInv, Pending
<1>6. \A d \in Conns : LooksSame(conn'[d], conn[d])
  BY <1>1, <1>2 DEF LooksSame, Kept, Types
<1>7. Quiet
  BY <1>1, <1>2, <1>3, <1>5, <1>6 DEF Quiet
<1> QED BY <1>4, <1>5, <1>7, QuietStep

LEMMA StepStutter ==
  ASSUME Inv, UNCHANGED vars
  PROVE  Inv'
<1>1. Types /\ TaskInv
  BY DEF Inv
<1>2. UNCHANGED <<kind, conn, proto, reading, writing, armed, expired, owner, full, autoSend,
                  toAdd, poolHeld, tasks, io, disp, retries>>
  BY DEF vars, ioVars, poolVars
<1>3. Types' /\ TaskInv' /\ Pending' = Pending
  BY <1>1, <1>2 DEF Types, IoTypes, DispTypes, TaskInv, Pending
<1>4. \A d \in Conns : LooksSame(conn'[d], conn[d])
  BY <1>1, <1>2 DEF LooksSame, Kept, Types
<1>5. Quiet
  BY <1>1, <1>2, <1>3, <1>4 DEF Quiet
<1> QED BY <1>3, <1>5, QuietStep

LEMMA StepDisconnect ==
  ASSUME Inv, NEW c \in Conns, Disconnect(c)
  PROVE  Inv'
<1> DEFINE r == closeConnection(conn[c])
<1>1. Types /\ TaskInv /\ disp.msg = None /\ conn[c] \in ConnRecord
  BY DEF Inv, Types, DispTypes, Disconnect, InTask
<1>2. /\ conn' = [conn EXCEPT ![c] = r] /\ tasks' = tasks \o CloseTask(c) /\ Ends /\ io.conn # c
      /\ UNCHANGED <<kind, proto, reading, writing, armed, expired, owner, full, autoSend, toAdd,
                     poolHeld, retries, io>>
  BY DEF Disconnect, ioVars, poolVars, Unlocked
<1>3. DispTypes' /\ disp'.msg = None
  BY <1>2, EndsTypes
<1>4. /\ r \in ConnRecord /\ Kept(r, conn[c]) /\ r.ahead = conn[c].ahead
      /\ r.state = IF Closable(conn[c]) THEN "REQUEST_CLOSE" ELSE conn[c].state
      /\ r.socket = conn[c].socket /\ r.pendingWrite = conn[c].pendingWrite
  BY <1>1, CloseFields
<1>5. armed' \in [Conns -> SUBSET Timers] /\ expired' \in [Conns -> SUBSET Timers]
  BY <1>1, <1>2 DEF Types
<1> HIDE DEF r
<1> QED BY <1>1, <1>2, <1>3, <1>4, <1>5, ClosingStep

LEMMA StepOnStopOperation ==
  ASSUME Inv, NEW c \in Conns, onStopOperation(c)
  PROVE  Inv'
<1> DEFINE a == [conn[c] EXCEPT !.stop = FALSE]
           b == [a EXCEPT !.socket = "deleted"]
           r == [b EXCEPT !.listed = FALSE]
<1>0. Types /\ TaskInv /\ MsgInv /\ ConnInv /\ CountInv /\ OrderInv
  BY DEF Inv
<1>1. Closing(c) /\ Writes(c) /\ First(c) /\ conn[c] \in ConnRecord
  BY <1>0 DEF ConnInv, Types
<1>2. /\ UNCHANGED <<kind, proto, reading, writing, expired, owner, full, autoSend, toAdd, poolHeld,
                     tasks, io, disp, retries>>
      /\ armed' = [armed EXCEPT ![c] = {}]
      /\ conn[c].stop /\ conn[c].ahead = {} /\ io.conn # c
  BY NetworkAssumption DEF onStopOperation, poolVars, Idle, NetworkAssumption
<1>3. /\ r \in ConnRecord /\ ~ r.stop /\ ~ r.listed /\ r.socket = "deleted"
      /\ r.state = conn[c].state /\ r.protocol = conn[c].protocol /\ r.refs = conn[c].refs
      /\ r.receivedFirst = conn[c].receivedFirst
  <2>1. a \in ConnRecord /\ ~ a.stop
    BY <1>1 DEF ConnRecord
  <2>2. b \in ConnRecord /\ ~ b.stop /\ b.socket = "deleted"
    <3> HIDE DEF a
    <3> QED BY <2>1 DEF ConnRecord
  <2>3. r \in ConnRecord /\ ~ r.stop /\ ~ r.listed /\ r.socket = "deleted"
    <3> HIDE DEF b
    <3> QED BY <2>2 DEF ConnRecord
  <2> QED BY <1>1, <2>3 DEF ConnRecord
<1>4. conn' = [conn EXCEPT ![c] = r]
  BY <1>0, <1>1 DEF onStopOperation, Types, ConnRecord
<1> HIDE DEF r
<1>5. conn' \in [Conns -> ConnRecord] /\ conn'[c] = r /\ \A d \in Conns \ {c} : conn'[d] = conn[d]
  BY <1>0, <1>3, <1>4 DEF Types
<1>6. Types'
  BY <1>0, <1>2, <1>5 DEF Types, IoTypes, DispTypes
<1>7. TaskInv' /\ Pending' = Pending
  BY <1>0, <1>2 DEF TaskInv, Pending
<1>8. MsgInv'
  BY <1>0, <1>2, SameMessages DEF Types, DispTypes
<1>9. ConnInv'
  <2>1. Closing(c)'
    BY <1>1, <1>2, <1>3, <1>5, <1>7 DEF Closing
  <2>2. Writes(c)'
    BY <1>3, <1>5 DEF Writes
  <2>3. First(c)'
    BY <1>1, <1>2, <1>3, <1>5 DEF First, Owned
  <2>4. \A d \in Conns : Owned(d)' = Owned(d)
    BY <1>2 DEF Owned
  <2> QED BY <1>0, <1>2, <1>5, <1>7, <2>1, <2>2, <2>3, <2>4, OneConn
<1>10. CountInv'
  <2>1. \A d \in Conns : Owned(d)' = Owned(d)
    BY <1>2 DEF Owned
  <2>2. ASSUME Steady(c) PROVE Counted(c)'
    <3>1. Counted(c) /\ Owned(c) = {}
      BY <1>0, <1>2, <2>2 DEF CountInv, Counted
    <3> QED BY <1>2, <1>3, <1>5, <2>1, <3>1 DEF Counted
  <2> QED BY <1>0, <1>2, <1>5, <2>1, <2>2, OneCount
<1>11. OrderInv'
  <2>1. \A d \in Conns : SameOrder(d)
    BY <1>2, <1>3, <1>5 DEF SameOrder
  <2> QED BY <1>0, <1>2, <2>1, SameOrders DEF Waiting
<1> QED BY <1>6, <1>7, <1>8, <1>9, <1>10, <1>11 DEF Inv

\* The packet is read: reply is what the protocol does with it.
Parsed(c, reply) ==
    LET served == [conn[c] EXCEPT !.receivedFirst = TRUE, !.protocol = TRUE]
        r == IF reply = "refuse" THEN closeConnection(served) ELSE served
        answers == reply \in {"answer", "answerAndClose"}
    IN  /\ conn' = [conn EXCEPT ![c] = r]
        /\ proto' = Serve(c, reply)
        /\ io' = IF answers
                 THEN [conn |-> c, step |-> "alloc", msg |-> None, read |-> 0,
                       close |-> reply = "answerAndClose"]
                 ELSE ParseIdle
        /\ reading' = [reading EXCEPT ![c] = IF answers THEN @ ELSE "header"]
        /\ IF answers THEN Cancel(c, "read") ELSE Rearm(c, "read")
        /\ tasks' = tasks \o IF reply = "refuse" THEN CloseTask(c) ELSE <<>>
        /\ UNCHANGED <<kind, writing, expired, poolVars, disp, reads, retries>>

LEMMA StepParsed ==
  ASSUME Inv, NEW c \in Conns, Idle, reading[c] = "packet", conn[c].state = "OPEN",
         NEW reply \in Replies(kind[c], ~ conn[c].receivedFirst), Parsed(c, reply)
  PROVE  Inv'
<1> DEFINE a == [conn[c] EXCEPT !.receivedFirst = TRUE]
           served == [a EXCEPT !.protocol = TRUE]
           r == IF reply = "refuse" THEN closeConnection(served) ELSE served
           answers == reply \in {"answer", "answerAndClose"}
           p == [proto[c] EXCEPT !.life = "live"]
           q == [p EXCEPT !.linked = TRUE]
           pr == [q EXCEPT !.served = @ \/ reply = "task"]
<1>0. Types /\ TaskInv /\ MsgInv /\ ConnInv /\ CountInv /\ OrderInv
  BY DEF Inv
<1>1. /\ Closing(c) /\ Writes(c) /\ First(c) /\ conn[c] \in ConnRecord /\ proto[c] \in ProtoRecord
      /\ kind[c] \in {"game", "login", "admin"}
      /\ io.conn = None /\ io.msg = None /\ c # None
  BY <1>0, NetworkAssumption DEF ConnInv, Types, IoTypes, NetworkAssumption, Idle
<1>2. /\ conn' = [conn EXCEPT ![c] = r]
      /\ io' = IF answers
               THEN [conn |-> c, step |-> "alloc", msg |-> None, read |-> 0,
                     close |-> reply = "answerAndClose"]
               ELSE ParseIdle
      /\ reading' = [reading EXCEPT ![c] = IF answers THEN @ ELSE "header"]
      /\ armed' \in {[armed EXCEPT ![c] = @ \ {"read"}], [armed EXCEPT ![c] = @ \cup {"read"}]}
      /\ tasks' = tasks \o IF reply = "refuse" THEN CloseTask(c) ELSE <<>>
      /\ UNCHANGED <<kind, writing, expired, owner, full, autoSend, toAdd, poolHeld, disp, retries>>
  BY DEF Parsed, poolVars, Cancel, Rearm
<1>3. proto' = [proto EXCEPT ![c] = pr]
  BY <1>0, <1>1 DEF Parsed, Serve, Types, ProtoRecord
<1>4. /\ r \in ConnRecord /\ r.protocol /\ r.receivedFirst
      /\ r.refs = conn[c].refs /\ r.stop = conn[c].stop /\ r.listed = conn[c].listed
      /\ r.socket = conn[c].socket /\ r.pendingWrite = conn[c].pendingWrite
      /\ r.state = IF reply = "refuse" THEN "REQUEST_CLOSE" ELSE "OPEN"
  <2>1. /\ a \in ConnRecord /\ a.receivedFirst
        /\ a.refs = conn[c].refs /\ a.stop = conn[c].stop /\ a.listed = conn[c].listed
        /\ a.socket = conn[c].socket /\ a.pendingWrite = conn[c].pendingWrite /\ a.state = "OPEN"
    BY <1>1 DEF ConnRecord
  <2> HIDE DEF a
  <2>2. /\ served \in ConnRecord /\ served.receivedFirst /\ served.protocol
        /\ served.refs = conn[c].refs /\ served.stop = conn[c].stop /\ served.listed = conn[c].listed
        /\ served.socket = conn[c].socket /\ served.pendingWrite = conn[c].pendingWrite
        /\ served.state = "OPEN"
    BY <2>1 DEF ConnRecord
  <2> HIDE DEF served
  <2>3. /\ closeConnection(served) \in ConnRecord /\ Kept(closeConnection(served), served)
        /\ closeConnection(served).state = "REQUEST_CLOSE"
        /\ closeConnection(served).socket = served.socket
        /\ closeConnection(served).pendingWrite = served.pendingWrite
    BY <2>2, CloseFields DEF Closable
  <2> QED BY <2>2, <2>3 DEF Kept
<1>5. /\ pr \in ProtoRecord /\ pr.life = "live" /\ pr.linked /\ pr.buffer = proto[c].buffer
      /\ pr.served = (proto[c].served \/ reply = "task")
  <2>1. p \in ProtoRecord /\ p.life = "live" /\ p.buffer = proto[c].buffer /\ p.served = proto[c].served
    BY <1>1 DEF ProtoRecord
  <2> HIDE DEF p
  <2>2. /\ q \in ProtoRecord /\ q.life = "live" /\ q.linked /\ q.buffer = proto[c].buffer
        /\ q.served = proto[c].served
    BY <2>1 DEF ProtoRecord
  <2> HIDE DEF q
  <2>3. (q.served \/ reply = "task") \in BOOLEAN
    OBVIOUS
  <2> QED BY <2>2, <2>3 DEF ProtoRecord
<1> HIDE DEF r, pr
<1>6. /\ conn' \in [Conns -> ConnRecord] /\ conn'[c] = r /\ \A d \in Conns \ {c} : conn'[d] = conn[d]
      /\ proto' \in [Conns -> ProtoRecord] /\ proto'[c] = pr /\ \A d \in Conns \ {c} : proto'[d] = proto[d]
      /\ reading' \in [Conns -> {"none", "header", "packet"}]
      /\ reading'[c] = (IF answers THEN "packet" ELSE "header")
      /\ \A d \in Conns \ {c} : reading'[d] = reading[d]
  BY <1>0, <1>2, <1>3, <1>4, <1>5 DEF Types
<1>7. /\ tasks' \in Seq(Tasks) /\ Distinct(tasks')
      /\ ToSet(tasks') = ToSet(tasks) \cup IF reply = "refuse" THEN {Close(c)} ELSE {}
  <2>1. CASE reply = "refuse"
    <3>1. Closable(conn[c])
      BY DEF Closable
    <3> QED BY <1>0, <1>1, <1>2, <2>1, <3>1, AddClose DEF Types
  <2>2. CASE reply # "refuse"
    <3>1. tasks' = tasks
      BY <1>0, <1>2, <2>2 DEF Types
    <3> QED BY <1>0, <2>2, <3>1 DEF Types, TaskInv
  <2> QED BY <2>1, <2>2
<1>8. IoTypes' /\ io'.msg = None /\ (io'.conn = IF answers THEN c ELSE None)
      /\ (answers => io'.step = "alloc" /\ (io'.close <=> reply = "answerAndClose"))
  <2>1. CASE answers
    <3> DEFINE closes == reply = "answerAndClose"
    <3>2. closes \in BOOLEAN /\ (closes <=> reply = "answerAndClose")
      OBVIOUS
    <3>3. io' = [conn |-> c, step |-> "alloc", msg |-> None, read |-> 0, close |-> closes]
      BY <1>2, <2>1
    <3> HIDE DEF closes
    <3> QED BY <1>1, <2>1, <3>2, <3>3 DEF IoTypes
  <2>2. CASE ~ answers
    BY <1>2, <2>2 DEF IoTypes, ParseIdle
  <2> QED BY <2>1, <2>2
<1>9. Types'
  <2>1. armed' \in [Conns -> SUBSET Timers]
    <3>1. armed \in [Conns -> SUBSET Timers] /\ "read" \in Timers
      BY <1>0 DEF Types, Timers
    <3> QED BY <1>2, <3>1
  <2>2. DispTypes'
    BY <1>0, <1>2 DEF Types, DispTypes
  <2> QED BY <1>0, <1>2, <1>6, <1>7, <1>8, <2>1, <2>2 DEF Types
<1>10. TaskInv'
  <2>1. Close(c) \notin retries
    BY <1>0, TaskNames DEF TaskInv
  <2> QED BY <1>0, <1>2, <1>7, <2>1 DEF TaskInv
<1>11. /\ \A m : Return(m) \in ToSet(tasks') => Return(m) \in ToSet(tasks)
       /\ \A d : Finish(d) \in Pending' => Finish(d) \in Pending
       /\ \A d : Forget(d) \in Pending' => Forget(d) \in Pending
       /\ \A d : Close(d) \in Pending' => Close(d) \in Pending \/ (d = c /\ reply = "refuse")
  BY <1>2, <1>7, TaskNames DEF Pending
<1>12. MsgInv'
  <2>1. \A d \in Conns : proto'[d].buffer \in {proto[d].buffer, None}
    BY <1>5, <1>6
  <2> QED BY <1>0, <1>1, <1>2, <1>8, <1>11, <2>1, SameMessages DEF Types, DispTypes
<1>13. \A d \in Conns : Owned(d)' = Owned(d)
  BY <1>2 DEF Owned
<1>14. ConnInv'
  <2>1. Closing(c)'
    BY <1>1, <1>4, <1>5, <1>6, <1>11 DEF Closing
  <2>2. Writes(c)'
    BY <1>1, <1>2, <1>4, <1>6 DEF Writes
  <2>3. First(c)'
    BY <1>1, <1>4, <1>5, <1>6, <1>8 DEF First
  <2>4. \A d \in Conns : io'.conn = d => d = c
    BY <1>8, NetworkAssumption DEF NetworkAssumption
  <2> QED BY <1>0, <1>2, <1>6, <1>11, <1>13, <2>1, <2>2, <2>3, <2>4, OneConn
<1>15. CountInv'
  <2>1. ASSUME Steady(c) PROVE Counted(c)'
    <3>1. Counted(c)
      BY <1>0, <2>1 DEF CountInv
    <3>2. ASSUME io'.conn = c
          PROVE  ~ proto'[c].served /\ Owned(c)' = {} /\ io'.step = "alloc" /\ io'.close
      <4>1. answers
        BY <1>1, <1>8, <3>2
      <4>2. reply = "answerAndClose" /\ ~ conn[c].receivedFirst
        BY <1>1, <2>1, <4>1 DEF Replies, Steady
      <4> QED BY <1>1, <1>5, <1>6, <1>8, <1>13, <4>1, <4>2 DEF First
    <3>3. Owned(c)' # {} => proto'[c].life = "live"
      BY <1>5, <1>6
    <3> QED BY <1>2, <1>4, <1>6, <1>13, <3>1, <3>2, <3>3 DEF Counted
  <2>2. \A d \in Conns : io'.conn = d => d = c
    BY <1>8, NetworkAssumption DEF NetworkAssumption
  <2> QED BY <1>0, <1>2, <1>6, <1>13, <2>1, <2>2, OneCount
<1>16. OrderInv'
  <2>1. \A d \in Conns : SameOrder(d)
    BY <1>4, <1>5, <1>6 DEF SameOrder
  <2> QED BY <1>0, <1>2, <2>1, SameOrders DEF Waiting
<1> QED BY <1>9, <1>10, <1>12, <1>14, <1>15, <1>16 DEF Inv

LEMMA StepParsePacket ==
  ASSUME Inv, NEW c \in Conns, parsePacket(c)
  PROVE  Inv'
<1>1. PICK outcome \in Outcomes(c) :
         IF outcome # "ok" \/ Unusable(conn[c], conn[c].readError)
         THEN StopReading(c, outcome)
         ELSE \E reply \in Replies(kind[c], ~ conn[c].receivedFirst) : Parsed(c, reply)
  BY DEF parsePacket, Parsed
<1>2. outcome \in {"ok", "failed", "aborted"} /\ Idle /\ reading[c] = "packet"
  BY DEF Outcomes, parsePacket
<1>3. CASE StopReading(c, outcome)
  BY <1>2, <1>3, StepStopReading
<1>4. CASE /\ ~ Unusable(conn[c], conn[c].readError)
           /\ \E reply \in Replies(kind[c], ~ conn[c].receivedFirst) : Parsed(c, reply)
  <2>1. conn[c].state = "OPEN"
    BY <1>4 DEF Unusable
  <2> QED BY <1>2, <1>4, <2>1, StepParsed
<1> QED BY <1>1, <1>3, <1>4

\* A write is over: what becomes of the record.
LEMMA WrittenFields ==
  ASSUME NEW r \in ConnRecord, NEW failed \in BOOLEAN,
         r.state = "OPEN" => r.pendingWrite = 1
  PROVE  LET e == IF failed THEN [closeConnection(r) EXCEPT !.writeError = TRUE] ELSE r
             done == Unusable(e, failed \/ e.writeError)
             s == IF done THEN closeConnection(closeSocket(e)) ELSE [e EXCEPT !.pendingWrite = @ - 1]
         IN  /\ s \in ConnRecord /\ Kept(s, r) /\ s.ahead = r.ahead
             /\ done => /\ s.state = IF Closable(r) THEN "REQUEST_CLOSE" ELSE r.state
                        /\ s.socket = IF r.socket = "open" THEN "closed" ELSE r.socket
             /\ ~ done => /\ s.state = "OPEN" /\ r.state = "OPEN" /\ s.socket = r.socket
                          /\ s.pendingWrite = 0
<1> DEFINE e == IF failed THEN [closeConnection(r) EXCEPT !.writeError = TRUE] ELSE r
           done == Unusable(e, failed \/ e.writeError)
           x == closeSocket(e)
           y == closeConnection(x)
           z == [e EXCEPT !.pendingWrite = @ - 1]
<1>1. /\ e \in ConnRecord /\ Kept(e, r) /\ e.ahead = r.ahead /\ e.socket = r.socket
      /\ e.pendingWrite = r.pendingWrite
      /\ failed => e.state = IF Closable(r) THEN "REQUEST_CLOSE" ELSE r.state
      /\ ~ failed => e.state = r.state
  <2>1. CASE failed
    <3> DEFINE b == closeConnection(r)
    <3>1. /\ b \in ConnRecord /\ Kept(b, r) /\ b.ahead = r.ahead /\ b.socket = r.socket
          /\ b.pendingWrite = r.pendingWrite
          /\ b.state = IF Closable(r) THEN "REQUEST_CLOSE" ELSE r.state
      BY CloseFields
    <3>2. e = [b EXCEPT !.writeError = TRUE]
      BY <2>1
    <3> HIDE DEF b, e
    <3> QED BY <2>1, <3>1, <3>2 DEF ConnRecord, Kept
  <2>2. CASE ~ failed
    BY <2>2 DEF Kept
  <2> QED BY <2>1, <2>2
<1> HIDE DEF e
<1>2. CASE done
  <2>1. /\ x \in ConnRecord /\ Kept(x, e) /\ x.ahead = e.ahead /\ x.state = e.state
        /\ x.socket = IF e.socket = "open" THEN "closed" ELSE e.socket
    BY <1>1, SocketFields
  <2>2. /\ y \in ConnRecord /\ Kept(y, x) /\ y.ahead = x.ahead /\ y.socket = x.socket
        /\ y.state = IF Closable(x) THEN "REQUEST_CLOSE" ELSE x.state
    BY <2>1, CloseFields
  <2> HIDE DEF x, y
  <2>3. /\ y.ahead = r.ahead /\ Kept(y, r)
        /\ y.socket = IF r.socket = "open" THEN "closed" ELSE r.socket
    BY <1>1, <2>1, <2>2 DEF Kept
  <2>4. y.state = IF Closable(r) THEN "REQUEST_CLOSE" ELSE r.state
    BY <1>1, <2>1, <2>2 DEF Closable
  <2> QED BY <1>2, <2>2, <2>3, <2>4 DEF x, y, e
<1>3. CASE ~ done
  <2>1. e.state = "OPEN" /\ ~ failed
    BY <1>3 DEF Unusable
  <2>2. r.state = "OPEN" /\ e.pendingWrite = 1
    BY <1>1, <2>1
  <2>3. z = [e EXCEPT !.pendingWrite = 0]
    BY <2>2
  <2>4. z \in ConnRecord /\ Kept(z, r) /\ z.ahead = r.ahead /\ z.state = "OPEN" /\ z.socket = r.socket
        /\ z.pendingWrite = 0
    <3> HIDE DEF z
    <3> QED BY <1>1, <2>1, <2>3 DEF ConnRecord, Kept
  <2> HIDE DEF z
  <2> QED BY <1>3, <2>2, <2>4 DEF z, e
<1> QED BY <1>2, <1>3 DEF e

LEMMA StepOnWriteOperation ==
  ASSUME Inv, NEW c \in Conns, onWriteOperation(c)
  PROVE  Inv'
<1>0. Types /\ TaskInv /\ MsgInv /\ ConnInv /\ CountInv /\ OrderInv
  BY DEF Inv
<1>1. /\ Closing(c) /\ Writes(c) /\ First(c) /\ conn[c] \in ConnRecord
      /\ io.conn = None /\ io.msg = None /\ c # None
  BY <1>0, NetworkAssumption DEF ConnInv, Types, IoTypes, NetworkAssumption, Idle, onWriteOperation
<1> DEFINE r == conn[c]
           e(failed) == IF failed THEN [closeConnection(r) EXCEPT !.writeError = TRUE] ELSE r
           over(failed) == Unusable(e(failed), failed \/ e(failed).writeError)
           t(failed) == IF over(failed) THEN closeConnection(closeSocket(e(failed)))
                                        ELSE [e(failed) EXCEPT !.pendingWrite = @ - 1]
<1>2. PICK m \in writing[c], failed \in BOOLEAN :
         /\ conn' = [conn EXCEPT ![c] = t(failed)]
         /\ writing' = [writing EXCEPT ![c] = @ \ {m}]
         /\ armed' = [armed EXCEPT ![c] = @ \ {"write"}]
         /\ UNCHANGED <<kind, proto, reading, expired, owner, full, autoSend, toAdd, poolHeld,
                        io, disp, retries>>
         /\ Post(tasks \o IF over(failed) THEN CloseTask(c) ELSE <<>>)
  <2>1. PICK m \in writing[c], outcome \in Outcomes(c) :
           LET failed == outcome # "ok"
           IN  /\ conn' = [conn EXCEPT ![c] = t(failed)]
               /\ writing' = [writing EXCEPT ![c] = @ \ {m}]
               /\ armed' = [armed EXCEPT ![c] = @ \ {"write"}]
               /\ UNCHANGED <<kind, proto, reading, expired, owner, full, autoSend, toAdd, poolHeld,
                              io, disp, retries>>
               /\ Post(tasks \o IF over(failed) THEN CloseTask(c) ELSE <<>>)
    <3> HIDE DEF r
    <3> QED BY DEF onWriteOperation, Cancel, poolVars, r
  <2> HIDE DEF t, over
  <2>2. CASE outcome = "ok"
    BY <2>1, <2>2
  <2>3. CASE outcome # "ok"
    BY <2>1, <2>3
  <2> QED BY <2>2, <2>3
<1> DEFINE done == over(failed)
           n == t(failed)
<1>3. r.state = "OPEN" => r.pendingWrite = 1
  <2>1. r.state = "OPEN" => r.socket = "open" /\ r.pendingWrite # 0
    BY <1>1, <1>2 DEF Closing, Writes
  <2>2. r.pendingWrite \in 0 .. 1
    BY <1>1 DEF ConnRecord
  <2> QED BY <2>1, <2>2
<1>4. /\ n \in ConnRecord /\ Kept(n, r) /\ n.ahead = r.ahead
      /\ done => /\ n.state = IF Closable(r) THEN "REQUEST_CLOSE" ELSE r.state
                 /\ n.socket = IF r.socket = "open" THEN "closed" ELSE r.socket
      /\ ~ done => /\ n.state = "OPEN" /\ r.state = "OPEN" /\ n.socket = r.socket
                   /\ n.pendingWrite = 0
  BY <1>1, <1>3, WrittenFields
<1> HIDE DEF n, done, t, over, e
<1>5. /\ conn' = [conn EXCEPT ![c] = n] /\ writing' = [writing EXCEPT ![c] = @ \ {m}]
      /\ armed' = [armed EXCEPT ![c] = @ \ {"write"}]
      /\ UNCHANGED <<kind, proto, reading, expired, owner, full, autoSend, toAdd, poolHeld,
                     io, disp, retries>>
      /\ Post(tasks \o IF done THEN CloseTask(c) ELSE <<>>)
  BY <1>2 DEF n, done
<1>6. /\ conn' \in [Conns -> ConnRecord] /\ conn'[c] = n /\ \A d \in Conns \ {c} : conn'[d] = conn[d]
      /\ writing' \in [Conns -> SUBSET Msgs] /\ writing'[c] = writing[c] \ {m}
      /\ \A d \in Conns \ {c} : writing'[d] = writing[d]
      /\ m \in Msgs
  BY <1>0, <1>2, <1>4, <1>5 DEF Types
<1>7. /\ owner[m] = c /\ m \notin Waiting /\ Waiting' = Waiting
      /\ \A d \in Conns : m \notin writing'[d]
      /\ \A d \in Conns : \A k \in Msgs : k \in writing[d] /\ k # m => k \in writing'[d]
  BY <1>0, <1>2, <1>5, <1>6 DEF MsgInv, Waiting
<1>8. Held \ Held' = {m} /\ m \in Held
  <2>1. HeldIn /\ HeldIn'
    BY <1>0, <1>5, <1>7, WhoHolds, WhoHoldsNext DEF MsgInv
  <2>2. m \in Held /\ m \notin Held'
    BY <1>1, <1>2, <1>5, <1>6, <1>7, <2>1, NetworkAssumption DEF HeldIn, NetworkAssumption
  <2>3. \A k \in Msgs : k \in Held /\ k # m => k \in Held'
    BY <1>5, <1>7, <2>1 DEF HeldIn
  <2>4. \A k \in Held : k \in Msgs
    BY DEF Held
  <2> QED BY <2>2, <2>3, <2>4
<1>9. LET rest == tasks \o IF done THEN CloseTask(c) ELSE <<>>
      IN  /\ rest \in Seq(Tasks) /\ Distinct(rest)
          /\ ToSet(rest) = ToSet(tasks) \cup IF done /\ Closable(r) THEN {Close(c)} ELSE {}
  <2>1. CASE done
    BY <1>0, <1>1, <2>1, AddClose DEF Types
  <2>2. CASE ~ done
    <3>1. tasks \o <<>> = tasks
      BY <1>0 DEF Types
    <3> QED BY <1>0, <2>2, <3>1 DEF Types, TaskInv
  <2> QED BY <2>1, <2>2
<1>10. /\ tasks' \in Seq(Tasks) /\ Distinct(tasks')
       /\ ToSet(tasks') = ToSet(tasks) \cup (IF done /\ Closable(r) THEN {Close(c)} ELSE {})
                                       \cup {Return(m)}
  <2> DEFINE rest == tasks \o IF done THEN CloseTask(c) ELSE <<>>
  <2>1. Return(m) \notin ToSet(rest)
    <3>1. Return(m) \notin ToSet(tasks)
      BY <1>0, <1>6, <1>8 DEF MsgInv
    <3>2. Return(m) # Close(c)
      BY TaskNames
    <3> QED BY <1>9, <3>1, <3>2
  <2>2. Post(rest) /\ rest \in Seq(Tasks) /\ Distinct(rest)
    BY <1>5, <1>9
  <2>3. ToSet(rest) = ToSet(tasks) \cup IF done /\ Closable(r) THEN {Close(c)} ELSE {}
    BY <1>9
  <2> HIDE DEF rest
  <2>4. tasks' \in Seq(Tasks) /\ Distinct(tasks') /\ ToSet(tasks') = ToSet(rest) \cup {Return(m)}
    BY <1>6, <1>8, <2>1, <2>2, PostOne
  <2> QED BY <2>3, <2>4
<1>11. Types'
  BY <1>0, <1>5, <1>6, <1>10 DEF Types, IoTypes, DispTypes
<1>12. TaskInv'
  <2>1. Close(c) \notin retries /\ Return(m) \notin retries
    BY <1>0, TaskNames DEF TaskInv
  <2> QED BY <1>0, <1>5, <1>10, <2>1 DEF TaskInv
<1>13. /\ \A k : Return(k) \in ToSet(tasks') => Return(k) \in ToSet(tasks) \/ k = m
       /\ \A d : Finish(d) \in Pending' => Finish(d) \in Pending
       /\ \A d : Forget(d) \in Pending' => Forget(d) \in Pending
       /\ \A d : Close(d) \in Pending' => Close(d) \in Pending \/ (d = c /\ done /\ Closable(r))
  BY <1>5, <1>10, TaskNames DEF Pending
<1>14. MsgInv'
  <2>1. \A k \in Msgs : k \in Held' => k \in Held /\ k # m
    <3>1. HeldIn /\ HeldIn'
      BY <1>0, <1>5, <1>7, WhoHolds, WhoHoldsNext DEF MsgInv
    <3>2. m \notin Held'
      BY <1>8
    <3> QED BY <1>5, <1>6, <1>7, <3>1, <3>2 DEF HeldIn
  <2>2. \A d \in Conns : writing'[d] \subseteq writing[d]
    BY <1>6
  <2>3. \A k \in Msgs : Return(k) \in ToSet(tasks') => owner'[k] # None /\ k \notin Held'
    BY <1>0, <1>1, <1>5, <1>7, <1>13, <2>1 DEF MsgInv
  <2>4. disp.msg # None =>
          owner[disp.msg] # None /\ disp.msg \notin Held' /\ Return(disp.msg) \notin ToSet(tasks')
    <3>1. disp.msg # None => disp.msg \in Msgs
      BY <1>0 DEF Types, DispTypes
    <3> QED BY <1>0, <1>8, <1>13, <2>1, <3>1 DEF MsgInv
  <2> QED BY <1>0, <1>1, <1>5, <1>7, <2>2, <2>3, <2>4 DEF MsgInv
<1>15. \A d \in Conns : Owned(d)' = Owned(d)
  BY <1>5 DEF Owned
<1>16. ConnInv'
  <2>1. Closing(c)'
    <3>1. n.socket # "open" => n.state # "OPEN"
      BY <1>1, <1>4 DEF Closing, Closable
    <3> QED BY <1>1, <1>4, <1>5, <1>6, <1>13, <3>1 DEF Closing, Kept, Closable
  <2>2. Writes(c)'
    <3>1. CASE done
      <4>1. n.socket # "open"
        BY <1>4, <3>1
      <4> QED BY <1>6, <4>1 DEF Writes
    <3>2. CASE ~ done
      <4>1. r.socket = "open"
        BY <1>1, <1>4, <3>2 DEF Closing
      <4>2. writing'[c] = {}
        BY <1>1, <1>2, <1>6, <4>1 DEF Writes
      <4> QED BY <4>2 DEF Writes
    <3> QED BY <3>1, <3>2
  <2>3. First(c)'
    BY <1>1, <1>4, <1>5, <1>6, <1>15 DEF First, Kept
  <2> QED BY <1>0, <1>5, <1>6, <1>13, <1>15, <2>1, <2>2, <2>3, OneConn
<1>17. CountInv'
  <2>1. ASSUME Steady(c) PROVE Counted(c)'
    <3>1. Counted(c)
      BY <1>0, <2>1 DEF CountInv
    <3> QED BY <1>4, <1>5, <1>6, <1>15, <3>1, SameCount DEF Kept
  <2> QED BY <1>0, <1>5, <1>6, <1>15, <2>1, OneCount
<1>18. OrderInv'
  <2>1. \A d \in Conns : SameOrder(d)
    BY <1>4, <1>5, <1>6 DEF SameOrder, Closable
  <2> QED BY <1>0, <1>5, <1>7, <2>1, SameOrders
<1> QED BY <1>11, <1>12, <1>14, <1>16, <1>17, <1>18 DEF Inv

-----------------------------------------------------------------------------
(* Messages are sent.                                                      *)

\* Where the message m is after Connection::send, and what became of the buffer
Delivered(c, m) ==
    LET fate == Fate(conn[c])
    IN  /\ proto' \in [Conns -> ProtoRecord]
        /\ \A d \in Conns \ {c} : proto'[d] = proto[d]
        /\ proto'[c].linked = proto[c].linked /\ proto'[c].life = proto[c].life
        /\ proto'[c].served = proto[c].served
        /\ proto'[c].buffer = IF fate # "queued" /\ proto[c].buffer = m THEN None ELSE proto[c].buffer
        /\ writing' \in [Conns -> SUBSET Msgs]
        /\ \A d \in Conns \ {c} : writing'[d] = writing[d]
        /\ writing'[c] = writing[c] \cup (IF fate = "written" THEN {m} ELSE {})
        /\ toAdd' \in Seq(Msgs) /\ Distinct(toAdd')
        /\ ToSet(toAdd') = ToSet(toAdd) \cup (IF fate = "queued" THEN {m} ELSE {})
        /\ armed' \in [Conns -> SUBSET Timers]
        /\ fate \in {"dropped", "written", "queued"}

LEMMA SendFields ==
  ASSUME Types, NEW c \in Conns, NEW m \in Msgs, NEW timers \in SUBSET Timers,
         Distinct(toAdd), m \notin ToSet(toAdd), Send(c, m, timers)
  PROVE  Delivered(c, m)
<1> DEFINE fate == Fate(conn[c])
           p == onSendMessage(c, m)
<1>1. fate \in {"dropped", "written", "queued"}
  BY DEF Fate
<1>2. /\ writing' = [writing EXCEPT ![c] = @ \cup IF fate = "written" THEN {m} ELSE {}]
      /\ armed' = [armed EXCEPT ![c] = @ \cup timers \cup IF fate = "written" THEN {"write"} ELSE {}]
      /\ toAdd' = toAdd \o IF fate = "queued" THEN <<m>> ELSE <<>>
      /\ proto' = IF fate = "queued" THEN proto ELSE p
  BY DEF Send
<1>3. /\ p \in [Conns -> ProtoRecord] /\ \A d \in Conns \ {c} : p[d] = proto[d]
      /\ p[c].linked = proto[c].linked /\ p[c].life = proto[c].life /\ p[c].served = proto[c].served
      /\ p[c].buffer = IF proto[c].buffer = m THEN None ELSE proto[c].buffer
  <2>1. CASE proto[c].buffer = m
    <3>1. p = [proto EXCEPT ![c].buffer = None] /\ proto \in [Conns -> ProtoRecord]
      BY <2>1 DEF onSendMessage, Types
    <3>2. [proto[c] EXCEPT !.buffer = None] \in ProtoRecord
      BY <3>1 DEF ProtoRecord
    <3>3. p = [proto EXCEPT ![c] = [proto[c] EXCEPT !.buffer = None]]
      BY <3>1
    <3>4. p \in [Conns -> ProtoRecord] /\ \A d \in Conns \ {c} : p[d] = proto[d]
      BY <3>1, <3>2, <3>3
    <3>5. p[c] = [proto[c] EXCEPT !.buffer = None]
      BY <3>1, <3>3
    <3>6. proto[c] \in ProtoRecord
      BY <3>1
    <3> QED BY <2>1, <3>4, <3>5, <3>6 DEF ProtoRecord
  <2>2. CASE proto[c].buffer # m
    BY <2>2 DEF onSendMessage, Types
  <2> QED BY <2>1, <2>2
<1> HIDE DEF fate, p
<1>4. /\ writing' \in [Conns -> SUBSET Msgs]
      /\ \A d \in Conns \ {c} : writing'[d] = writing[d]
      /\ writing'[c] = writing[c] \cup (IF fate = "written" THEN {m} ELSE {})
  BY <1>2 DEF Types
<1>5. armed' \in [Conns -> SUBSET Timers]
  <2>1. armed \in [Conns -> SUBSET Timers] /\ "write" \in Timers
    BY DEF Types, Timers
  <2> QED BY <1>2, <2>1
<1>6. /\ toAdd' \in Seq(Msgs) /\ Distinct(toAdd')
      /\ ToSet(toAdd') = ToSet(toAdd) \cup (IF fate = "queued" THEN {m} ELSE {})
  <2> DEFINE u == <<m>>
  <2>1. u \in Seq(Msgs) /\ Distinct(u) /\ ToSet(u) = {m}
    BY SetOfOne
  <2>2. toAdd' = IF fate = "queued" THEN toAdd \o u ELSE toAdd
    BY <1>2 DEF Types
  <2> HIDE DEF u
  <2>3. toAdd \in Seq(Msgs) /\ ToSet(toAdd) \cap ToSet(u) = {}
    BY <2>1 DEF Types
  <2>4. toAdd \o u \in Seq(Msgs) /\ Distinct(toAdd \o u) /\ ToSet(toAdd \o u) = ToSet(toAdd) \cup {m}
    BY <2>1, <2>3, SetOfConcat
  <2> QED BY <2>2, <2>3, <2>4
<1>7. /\ proto' \in [Conns -> ProtoRecord]
      /\ \A d \in Conns \ {c} : proto'[d] = proto[d]
      /\ proto'[c].linked = proto[c].linked /\ proto'[c].life = proto[c].life
      /\ proto'[c].served = proto[c].served
      /\ proto'[c].buffer = IF fate # "queued" /\ proto[c].buffer = m THEN None ELSE proto[c].buffer
  BY <1>2, <1>3 DEF Types
<1> QED BY <1>1, <1>4, <1>5, <1>6, <1>7 DEF Delivered, fate

\* The message m was in no list but autoSend, and in nobody's hands but io's.
Sendable(c, m) ==
    /\ owner'[m] = c
    /\ \A k \in Msgs \ {m} : owner'[k] = owner[k]
    /\ m \notin ToSet(toAdd)
    /\ \A d \in Conns : m \notin writing[d] /\ (proto[d].buffer = m => d = c)
    /\ autoSend' \in Seq(Msgs) /\ Distinct(autoSend') /\ ToSet(autoSend') = ToSet(autoSend) \ {m}
    /\ (io' = io /\ io.msg # m) \/ (io.msg = m /\ io'.msg = None)
    /\ Return(m) \notin ToSet(tasks)

LEMMA SendHeld ==
  ASSUME Types, MsgInv, NEW c \in Conns, NEW m \in Msgs, Sendable(c, m), Delivered(c, m)
  PROVE  /\ HeldIn'
         /\ Waiting' = (Waiting \ {m}) \cup (IF Fate(conn[c]) = "queued" THEN {m} ELSE {})
         /\ m \in Held' <=> Fate(conn[c]) # "dropped"
         /\ \A k \in Msgs \ {m} : k \in Held' <=> k \in Held
         /\ \A d \in Conns : proto'[d].buffer # None => proto'[d].buffer \in Waiting' /\ owner'[proto'[d].buffer] = d
<1>1. m # None
  BY NetworkAssumption DEF NetworkAssumption
<1>2. Waiting' = (Waiting \ {m}) \cup (IF Fate(conn[c]) = "queued" THEN {m} ELSE {})
  BY DEF Waiting, Sendable, Delivered
<1>3. ASSUME NEW d \in Conns, proto'[d].buffer # None
      PROVE  proto'[d].buffer \in Waiting' /\ owner'[proto'[d].buffer] = d
  <2>1. proto'[d].buffer = proto[d].buffer
    BY <1>3 DEF Delivered
  <2>2. proto[d].buffer \in Waiting /\ owner[proto[d].buffer] = d /\ proto[d].buffer \in Msgs
    BY <1>3, <2>1, WaitingSet DEF MsgInv
  <2>3. CASE proto[d].buffer # m
    BY <1>2, <2>1, <2>2, <2>3 DEF Sendable
  <2>4. CASE proto[d].buffer = m
    <3>1. d = c /\ Fate(conn[c]) = "queued"
      BY <1>3, <2>1, <2>4 DEF Sendable, Delivered
    <3> QED BY <1>2, <2>1, <2>4, <3>1 DEF Sendable
  <2> QED BY <2>3, <2>4
<1>4. HeldIn /\ HeldIn'
  BY <1>3, WhoHolds, WhoHoldsNext DEF MsgInv
<1>5. m \in Held' <=> Fate(conn[c]) # "dropped"
  <2>1. m # io'.msg
    BY <1>1 DEF Sendable
  <2>2. m \in Waiting' <=> Fate(conn[c]) = "queued"
    BY <1>2
  <2>3. (\E d \in Conns : m \in writing'[d]) <=> Fate(conn[c]) = "written"
    BY DEF Sendable, Delivered
  <2> QED BY <1>4, <2>1, <2>2, <2>3 DEF HeldIn, Delivered
<1>6. ASSUME NEW k \in Msgs \ {m} PROVE k \in Held' <=> k \in Held
  <2>1. k \in Waiting' <=> k \in Waiting
    BY <1>2
  <2>2. \A d \in Conns : k \in writing'[d] <=> k \in writing[d]
    BY DEF Delivered
  <2>3. k = io'.msg <=> k = io.msg
    BY NetworkAssumption DEF Sendable, NetworkAssumption
  <2> QED BY <1>4, <2>1, <2>2, <2>3 DEF HeldIn
<1> QED BY <1>2, <1>3, <1>4, <1>5, <1>6

LEMMA SendMessages ==
  ASSUME Types, MsgInv, NEW c \in Conns, NEW m \in Msgs, Sendable(c, m), Delivered(c, m),
         \A k \in Msgs : Return(k) \in ToSet(tasks') =>
            Return(k) \in ToSet(tasks) \/ (k = m /\ Fate(conn[c]) = "dropped"),
         disp'.msg # None => disp'.msg = disp.msg /\ disp.msg # m
  PROVE  MsgInv'
<1>1. /\ HeldIn'
      /\ Waiting' = (Waiting \ {m}) \cup (IF Fate(conn[c]) = "queued" THEN {m} ELSE {})
      /\ m \in Held' <=> Fate(conn[c]) # "dropped"
      /\ \A k \in Msgs \ {m} : k \in Held' <=> k \in Held
      /\ \A d \in Conns : proto'[d].buffer # None => proto'[d].buffer \in Waiting' /\ owner'[proto'[d].buffer] = d
  BY SendHeld
<1>2. m # None /\ None \notin Conns /\ None \notin Msgs
  BY NetworkAssumption DEF NetworkAssumption
<1>3. Waiting \subseteq Msgs
  BY WaitingSet
<1>4. Distinct(autoSend') /\ Distinct(toAdd') /\ ToSet(autoSend') \cap ToSet(toAdd') = {}
  BY DEF Sendable, Delivered, MsgInv
<1>5. \A k \in Waiting' : owner'[k] # None
  BY <1>1, <1>2, <1>3 DEF Sendable, MsgInv
<1>6. ASSUME NEW d \in Conns, NEW k \in writing'[d] PROVE owner'[k] = d /\ k \notin Waiting'
  <2>1. CASE k = m
    BY <1>1, <1>6, <2>1 DEF Sendable, Delivered
  <2>2. CASE k # m
    <3>1. k \in writing[d] /\ k \in Msgs
      BY <1>6, <2>2 DEF Delivered, Types
    <3> QED BY <1>1, <2>2, <3>1 DEF Sendable, MsgInv
  <2> QED BY <2>1, <2>2
<1>7. ASSUME io'.msg # None
      PROVE  /\ io'.msg \notin Waiting' /\ \A d \in Conns : io'.msg \notin writing'[d]
             /\ owner'[io'.msg] = IF io'.step = "count" THEN None ELSE io'.conn
  <2>1. io' = io /\ io.msg # m /\ io.msg \in Msgs
    BY <1>7 DEF Sendable, Types, IoTypes
  <2>2. /\ io.msg \notin Waiting /\ \A d \in Conns : io.msg \notin writing[d]
        /\ owner[io.msg] = IF io.step = "count" THEN None ELSE io.conn
    BY <1>7, <2>1 DEF MsgInv
  <2>3. \A d \in Conns : io.msg \notin writing'[d]
    BY <2>1, <2>2 DEF Delivered
  <2> QED BY <1>1, <2>1, <2>2, <2>3 DEF Sendable
<1>8. ASSUME NEW k \in Msgs, Return(k) \in ToSet(tasks') PROVE owner'[k] # None /\ k \notin Held'
  <2>1. CASE k = m
    BY <1>1, <1>2, <1>8, <2>1 DEF Sendable
  <2>2. CASE k # m
    BY <1>1, <1>8, <2>2 DEF Sendable, MsgInv
  <2> QED BY <2>1, <2>2
<1>9. ASSUME disp'.msg # None
      PROVE  owner'[disp'.msg] # None /\ disp'.msg \notin Held' /\ Return(disp'.msg) \notin ToSet(tasks')
  <2>1. disp.msg \in Msgs \ {m} /\ disp'.msg = disp.msg
    BY <1>9 DEF Types, DispTypes
  <2> QED BY <1>1, <1>9, <2>1 DEF Sendable, MsgInv
<1> QED BY <1>1, <1>4, <1>5, <1>6, <1>7, <1>8, <1>9 DEF MsgInv

\* A message was sent on the connection c, which may be asked to close with it.
LEMMA SentOn ==
  ASSUME NEW c \in Conns, NEW m \in Msgs, Closing(c), Writes(c), Delivered(c, m),
         conn'[c].protocol = conn[c].protocol, conn'[c].stop = conn[c].stop,
         conn'[c].listed = conn[c].listed, conn'[c].socket = conn[c].socket,
         conn'[c].ahead = conn[c].ahead,
         \/ conn'[c].state = conn[c].state
         \/ Closable(conn[c]) /\ conn'[c].state = "REQUEST_CLOSE",
         Fate(conn[c]) = "written" => conn[c].state = "OPEN" /\ conn[c].pendingWrite = 0
                                      /\ conn'[c].pendingWrite = 1,
         Fate(conn[c]) # "written" => conn'[c].pendingWrite = conn[c].pendingWrite,
         reading'[c] = reading[c] \/ conn[c].state = "OPEN",
         Finish(c) \in Pending' => Finish(c) \in Pending,
         Forget(c) \in Pending' => Forget(c) \in Pending,
         Close(c) \in Pending' => Close(c) \in Pending \/ conn'[c].state = "REQUEST_CLOSE"
  PROVE  Closing(c)' /\ Writes(c)'
<1>1. /\ proto'[c].linked = proto[c].linked /\ proto'[c].life = proto[c].life
      /\ writing'[c] = writing[c] \cup (IF Fate(conn[c]) = "written" THEN {m} ELSE {})
  BY DEF Delivered
<1>2. Closing(c)'
  BY <1>1 DEF Closing, Closable
<1>3. Writes(c)'
  <2>1. CASE Fate(conn[c]) = "written"
    <3>1. writing[c] = {}
      BY <2>1 DEF Closing, Writes
    <3> QED BY <1>1, <2>1, <3>1 DEF Writes
  <2>2. CASE Fate(conn[c]) # "written"
    BY <1>1, <2>2 DEF Writes
  <2> QED BY <2>1, <2>2
<1> QED BY <1>2, <1>3

\* What the message is counted for stays counted.
SentRecord(s, r) ==
    /\ s \in ConnRecord
    /\ s.protocol = r.protocol /\ s.receivedFirst = r.receivedFirst
    /\ s.stop = r.stop /\ s.listed = r.listed /\ s.socket = r.socket /\ s.ahead = r.ahead
    /\ Fate(r) = "written" => r.state = "OPEN" /\ r.pendingWrite = 0 /\ s.pendingWrite = 1
    /\ Fate(r) # "written" => s.pendingWrite = r.pendingWrite

LEMMA SentRecords ==
  ASSUME NEW r \in ConnRecord
  PROVE  /\ SentRecord(Sent(r), r) /\ Sent(r).refs = r.refs /\ Sent(r).state = r.state
         /\ LET s == closeConnection(Sent(r))
            IN  /\ SentRecord(s, r) /\ s.refs = r.refs
                /\ s.state = IF Closable(r) THEN "REQUEST_CLOSE" ELSE r.state
<1> DEFINE a == Sent(r)
           s == closeConnection(a)
<1>1. /\ a \in ConnRecord /\ Kept(a, r) /\ a.ahead = r.ahead
      /\ a.state = r.state /\ a.socket = r.socket
      /\ Fate(r) = "written" => r.state = "OPEN" /\ r.pendingWrite = 0 /\ a.pendingWrite = 1
      /\ Fate(r) # "written" => a = r
  BY SentFields
<1>2. /\ s \in ConnRecord /\ Kept(s, a) /\ s.ahead = a.ahead
      /\ s.state = IF Closable(a) THEN "REQUEST_CLOSE" ELSE a.state
      /\ s.socket = a.socket /\ s.pendingWrite = a.pendingWrite
  BY <1>1, CloseFields
<1> HIDE DEF a, s
<1>3. SentRecord(a, r) /\ a.refs = r.refs /\ a.state = r.state
  BY <1>1 DEF SentRecord, Kept
<1>4. SentRecord(s, r) /\ s.refs = r.refs /\ s.state = IF Closable(r) THEN "REQUEST_CLOSE" ELSE r.state
  BY <1>1, <1>2 DEF SentRecord, Kept, Closable
<1> QED BY <1>3, <1>4 DEF a, s

LEMMA StepAnswerAlloc ==
  ASSUME Inv, AnswerAlloc
  PROVE  Inv'
<1>0. Types /\ TaskInv /\ MsgInv /\ ConnInv /\ CountInv /\ OrderInv
  BY DEF Inv
<1>1. PICK m \in Free :
        /\ io' = [io EXCEPT !.step = "count", !.msg = m, !.read = conn[io.conn].refs]
        /\ poolHeld' = TRUE
        /\ UNCHANGED <<kind, conn, proto, reading, writing, armed, expired, owner, full, autoSend,
                       toAdd, tasks, disp, retries>>
        /\ io.step = "alloc"
  BY DEF AnswerAlloc, ioVars
<1>c. PICK c \in Conns : c = io.conn
  BY <1>0, <1>1 DEF Types, IoTypes
<1>2. /\ c \in Conns /\ io.msg = None /\ c # None /\ m \in Msgs /\ m # None /\ owner[m] = None
      /\ conn[c] \in ConnRecord
  BY <1>0, <1>1, <1>c, NetworkAssumption DEF Types, IoTypes, Free, NetworkAssumption
<1>3. /\ io' \in [conn : Conns \cup {None}, step : {"idle", "alloc", "count", "send"},
                  msg : Msgs \cup {None}, read : Nat, close : BOOLEAN]
      /\ io'.conn = c /\ io'.step = "count" /\ io'.msg = m /\ io'.read = conn[c].refs
      /\ io'.close = io.close
  <2>1. /\ io \in [conn : Conns \cup {None}, step : {"idle", "alloc", "count", "send"},
                   msg : Msgs \cup {None}, read : Nat, close : BOOLEAN]
        /\ conn[c].refs \in Nat
    BY <1>0, <1>2 DEF Types, IoTypes, ConnRecord
  <2> QED BY <1>1, <1>2, <1>c, <2>1
<1>4. Types'
  BY <1>0, <1>1, <1>2, <1>3 DEF Types, IoTypes, DispTypes
<1>5. TaskInv' /\ Pending' = Pending
  BY <1>0, <1>1 DEF TaskInv, Pending
<1>6. MsgInv'
  <2>1. Waiting' = Waiting
    BY <1>1 DEF Waiting
  <2>2. \A k \in Msgs : k \in Held' => k \in Held \/ k = m
    BY <1>1, <1>3, <2>1 DEF Held
  <2>3. m \notin Waiting /\ \A d \in Conns : m \notin writing[d]
    BY <1>0, <1>2, NetworkAssumption DEF MsgInv, NetworkAssumption
  <2>4. Return(m) \notin ToSet(tasks) /\ disp.msg # m
    BY <1>0, <1>2 DEF MsgInv
  <2>5. disp.msg # None => disp.msg \in Msgs
    BY <1>0 DEF Types, DispTypes
  <2> QED BY <1>0, <1>1, <1>2, <1>3, <2>1, <2>2, <2>3, <2>4, <2>5 DEF MsgInv
<1>7. \A d \in Conns : Owned(d)' = Owned(d)
  BY <1>1 DEF Owned
<1>8. ConnInv'
  <2> SUFFICES ASSUME NEW d \in Conns PROVE Closing(d)' /\ Writes(d)' /\ First(d)'
    BY DEF ConnInv
  <2>1. Closing(d) /\ Writes(d) /\ First(d)
    BY <1>0 DEF ConnInv
  <2> QED BY <1>1, <1>3, <1>5, <1>7, <1>c, <2>1, OtherConn
<1>9. CountInv'
  <2>1. ASSUME Steady(c) PROVE Counted(c)'
    <3>1. Counted(c)
      BY <1>0, <1>2, <2>1 DEF CountInv
    <3>2. Owned(c) = {}
      BY <1>2, <1>c, <3>1, NetworkAssumption DEF Counted, Owned, NetworkAssumption
    <3>3. conn[c].refs = 0
      BY <3>1, <3>2, FS_EmptySet DEF Counted
    <3> QED BY <1>1, <1>3, <1>7, <1>c, <3>1, <3>2, <3>3 DEF Counted
  <2> QED BY <1>0, <1>1, <1>2, <1>3, <1>7, <1>c, <2>1, OneCount
<1>10. OrderInv'
  BY <1>0, <1>1, SameOrders DEF SameOrder, Waiting
<1> QED BY <1>4, <1>5, <1>6, <1>8, <1>9, <1>10 DEF Inv

LEMMA StepAnswerCount ==
  ASSUME Inv, AnswerCount
  PROVE  Inv'
<1>0. Types /\ TaskInv /\ MsgInv /\ ConnInv /\ CountInv /\ OrderInv
  BY DEF Inv
<1>c. PICK c \in Conns, m \in Msgs : c = io.conn /\ m = io.msg
  BY <1>0 DEF Types, IoTypes, AnswerCount
<1> DEFINE r == [conn[c] EXCEPT !.refs = io.read + 1]
<1>1. /\ owner' = [owner EXCEPT ![m] = c] /\ conn' = [conn EXCEPT ![c] = r]
      /\ poolHeld' = FALSE /\ io' = [io EXCEPT !.step = "send"] /\ io.step = "count"
      /\ UNCHANGED <<kind, proto, reading, writing, armed, expired, full, autoSend, toAdd, tasks,
                     disp, retries>>
  BY <1>c DEF AnswerCount, ioVars
<1>2. /\ c \in Conns /\ c # None /\ m \in Msgs /\ m # None /\ owner[m] = None
      /\ conn[c] \in ConnRecord /\ io.read \in Nat
  BY <1>0, <1>1, <1>c, NetworkAssumption DEF Types, IoTypes, MsgInv, NetworkAssumption
<1>3. /\ io' \in [conn : Conns \cup {None}, step : {"idle", "alloc", "count", "send"},
                  msg : Msgs \cup {None}, read : Nat, close : BOOLEAN]
      /\ io'.conn = c /\ io'.step = "send" /\ io'.msg = m /\ io'.close = io.close
  BY <1>0, <1>1, <1>c DEF Types, IoTypes
<1>4. /\ r \in ConnRecord /\ r.refs = io.read + 1 /\ r.protocol = conn[c].protocol
      /\ r.receivedFirst = conn[c].receivedFirst /\ r.stop = conn[c].stop /\ r.listed = conn[c].listed
      /\ r.state = conn[c].state /\ r.socket = conn[c].socket /\ r.pendingWrite = conn[c].pendingWrite
      /\ r.ahead = conn[c].ahead
  BY <1>2 DEF ConnRecord
<1> HIDE DEF r
<1>5. /\ conn' \in [Conns -> ConnRecord] /\ conn'[c] = r /\ \A d \in Conns \ {c} : conn'[d] = conn[d]
      /\ owner' \in [Msgs -> Conns \cup {None}] /\ owner'[m] = c
      /\ \A k \in Msgs \ {m} : owner'[k] = owner[k]
  BY <1>0, <1>1, <1>2, <1>4 DEF Types
<1>6. Types'
  BY <1>0, <1>1, <1>2, <1>3, <1>5 DEF Types, IoTypes, DispTypes
<1>7. TaskInv' /\ Pending' = Pending
  BY <1>0, <1>1 DEF TaskInv, Pending
<1>8. MsgInv'
  <2>1. Waiting' = Waiting /\ Waiting \subseteq Msgs /\ m \notin Waiting
    BY <1>0, <1>1, <1>2, <1>c, WaitingSet DEF Waiting, MsgInv
  <2>2. \A k \in Msgs : k \in Held' => k \in Held
    BY <1>1, <1>3, <1>c, <2>1 DEF Held
  <2>3. \A d \in Conns : m \notin writing[d] /\ proto[d].buffer # m
    BY <1>0, <1>2, <1>c, <2>1 DEF MsgInv
  <2>4. \A k \in Waiting : owner'[k] # None
    BY <1>0, <1>5, <2>1 DEF MsgInv
  <2>5. \A d \in Conns : \A k \in writing[d] : owner'[k] = d /\ k \notin Waiting
    BY <1>0, <1>5, <2>3 DEF MsgInv, Types
  <2>6. \A d \in Conns : proto[d].buffer # None => proto[d].buffer \in Waiting /\ owner'[proto[d].buffer] = d
    BY <1>0, <1>5, <2>1 DEF MsgInv
  <2>7. \A k \in Msgs : Return(k) \in ToSet(tasks) => owner'[k] # None /\ k \notin Held'
    BY <1>0, <1>2, <1>5, <2>2 DEF MsgInv
  <2>8. disp.msg # None =>
          owner'[disp.msg] # None /\ disp.msg \notin Held' /\ Return(disp.msg) \notin ToSet(tasks)
    <3>1. disp.msg # None => disp.msg \in Msgs
      BY <1>0 DEF Types, DispTypes
    <3> QED BY <1>0, <1>2, <1>5, <2>2, <3>1 DEF MsgInv
  <2>9. /\ io'.msg \notin Waiting /\ \A d \in Conns : io'.msg \notin writing[d]
        /\ owner'[io'.msg] = IF io'.step = "count" THEN None ELSE io'.conn
    BY <1>3, <1>5, <2>1, <2>3
  <2> QED BY <1>0, <1>1, <2>1, <2>4, <2>5, <2>6, <2>7, <2>8, <2>9 DEF MsgInv
<1>9. /\ \A d \in Conns \ {c} : Owned(d)' = Owned(d)
      /\ Owned(c)' = Owned(c) \cup {m}
  <2>1. ASSUME NEW d \in Conns \ {c}, NEW k \in Msgs PROVE owner'[k] = d <=> owner[k] = d
    BY <1>2, <1>5, NetworkAssumption DEF NetworkAssumption
  <2>2. ASSUME NEW k \in Msgs PROVE owner'[k] = c <=> (owner[k] = c \/ k = m)
    BY <1>5
  <2>3. Owned(c)' \subseteq Owned(c) \cup {m} /\ Owned(c) \cup {m} \subseteq Owned(c)'
    BY <1>2, <2>2 DEF Owned
  <2> QED BY <2>1, <2>3 DEF Owned
<1>10. Closing(c) /\ Writes(c) /\ First(c)
  BY <1>0, <1>2 DEF ConnInv
<1>11. ConnInv'
  <2>1. Closing(c)'
    BY <1>1, <1>4, <1>5, <1>7, <1>10 DEF Closing
  <2>2. Writes(c)'
    BY <1>1, <1>4, <1>5, <1>10 DEF Writes
  <2>3. First(c)'
    BY <1>1, <1>3, <1>4, <1>5, <1>10, <1>c DEF First
  <2> QED BY <1>0, <1>1, <1>2, <1>3, <1>5, <1>7, <1>9, <1>c, <2>1, <2>2, <2>3, OneConn
<1>12. CountInv'
  <2>1. ASSUME Steady(c) PROVE Counted(c)'
    <3>1. Counted(c)
      BY <1>0, <1>2, <2>1 DEF CountInv
    <3>2. Owned(c) = {} /\ ~ proto[c].served /\ io.read = 0 /\ io.close
      <4>1. io.conn = c
        BY <1>c
      <4>2. Owned(c) \subseteq {m} /\ ~ proto[c].served /\ io.read = 0 /\ io.close
        BY <1>1, <1>c, <3>1, <4>1 DEF Counted
      <4>3. m \notin Owned(c)
        BY <1>2 DEF Owned
      <4> QED BY <4>2, <4>3
    <3>3. Owned(c)' = {m} /\ Cardinality({m}) = 1
      BY <1>9, <3>2, FS_Singleton
    <3>4. conn'[c].refs = 1
      BY <1>4, <1>5, <3>2
    <3>5. proto[c].life = "live" /\ ~ conn[c].stop /\ conn[c].listed
      BY <1>10, <1>c DEF First, Closing
    <3>6. disp.msg # None => owner'[disp.msg] # c
      <4>1. disp.msg # None => disp.msg \in Msgs /\ owner[disp.msg] # None
        BY <1>0 DEF Types, DispTypes, MsgInv
      <4>2. disp.msg # None => disp.msg \notin Owned(c) /\ disp.msg # m
        BY <1>2, <3>2, <4>1
      <4> QED BY <1>5, <4>1, <4>2 DEF Owned
    <3> QED BY <1>1, <1>3, <1>4, <1>5, <1>c, <3>2, <3>3, <3>4, <3>5, <3>6 DEF Counted
  <2>2. disp.msg # None => owner'[disp.msg] = owner[disp.msg]
    <3>1. disp.msg # None => disp.msg \in Msgs /\ owner[disp.msg] # None
      BY <1>0 DEF Types, DispTypes, MsgInv
    <3> QED BY <1>2, <1>5, <3>1
  <2> QED BY <1>0, <1>1, <1>2, <1>3, <1>5, <1>9, <1>c, <2>1, <2>2, OneCount
<1>13. OrderInv'
  <2>1. \A d \in Conns : SameOrder(d)
    BY <1>1, <1>4, <1>5 DEF SameOrder
  <2>2. \A k \in Waiting : owner'[k] = owner[k]
    BY <1>0, <1>2, <1>5, <1>c, WaitingSet DEF MsgInv
  <2> QED BY <1>0, <1>1, <2>1, <2>2, SameOrders DEF Waiting
<1> QED BY <1>6, <1>7, <1>8, <1>11, <1>12, <1>13 DEF Inv

LEMMA StepAnswerSend ==
  ASSUME Inv, AnswerSend
  PROVE  Inv'
<1>0. Types /\ TaskInv /\ MsgInv /\ ConnInv /\ CountInv /\ OrderInv
  BY DEF Inv
<1>c. PICK c \in Conns, m \in Msgs : c = io.conn /\ m = io.msg
  BY <1>0 DEF Types, IoTypes, AnswerSend
<1> DEFINE n == IF io.close THEN closeConnection(Sent(conn[c])) ELSE Sent(conn[c])
           rest == tasks \o IF io.close THEN CloseTask(c) ELSE <<>>
<1>1. /\ Send(c, m, {"read"}) /\ conn' = [conn EXCEPT ![c] = n]
      /\ reading' = [reading EXCEPT ![c] = "header"]
      /\ io' = ParseIdle /\ io.step = "send"
      /\ UNCHANGED <<kind, expired, owner, full, autoSend, poolHeld, disp, retries>>
      /\ Post(rest)
  BY <1>c DEF AnswerSend
<1>2. /\ conn[c] \in ConnRecord /\ conn[c].state = "OPEN" /\ proto[c].linked /\ conn[c].receivedFirst
      /\ Closing(c) /\ Writes(c) /\ First(c)
      /\ m # None /\ m \notin Waiting /\ (\A d \in Conns : m \notin writing[d]) /\ owner[m] = c
  BY <1>0, <1>1, <1>c, NetworkAssumption DEF Types, ConnInv, First, MsgInv, NetworkAssumption
<1>3. /\ SentRecord(n, conn[c]) /\ n.refs = conn[c].refs
      /\ n.state = IF io.close THEN "REQUEST_CLOSE" ELSE "OPEN"
  BY <1>2, SentRecords DEF Closable
<1> HIDE DEF n
<1>4. /\ conn' \in [Conns -> ConnRecord] /\ conn'[c] = n /\ \A d \in Conns \ {c} : conn'[d] = conn[d]
      /\ reading' \in [Conns -> {"none", "header", "packet"}] /\ reading'[c] = "header"
      /\ \A d \in Conns \ {c} : reading'[d] = reading[d]
  BY <1>0, <1>1, <1>3 DEF Types, SentRecord
<1>5. IoTypes' /\ io'.msg = None /\ io'.conn = None
  BY <1>1 DEF IoTypes, ParseIdle
<1>6. m \notin ToSet(toAdd) /\ m \notin ToSet(autoSend)
  BY <1>2 DEF Waiting
<1>7. Delivered(c, m)
  <2>1. {"read"} \in SUBSET Timers /\ Distinct(toAdd)
    BY <1>0 DEF Timers, MsgInv
  <2> QED BY <1>0, <1>1, <1>6, <2>1, SendFields
<1>8. m \in Held /\ Return(m) \notin ToSet(tasks)
  <2>1. m \in Held
    BY <1>c DEF Held
  <2> QED BY <1>0, <2>1 DEF MsgInv
<1>9. Sendable(c, m)
  <2>1. \A d \in Conns : proto[d].buffer # m
    BY <1>0, <1>2 DEF MsgInv
  <2>2. autoSend' \in Seq(Msgs) /\ Distinct(autoSend') /\ ToSet(autoSend') = ToSet(autoSend) \ {m}
    BY <1>0, <1>1, <1>6 DEF Types, MsgInv
  <2> QED BY <1>1, <1>2, <1>5, <1>6, <1>8, <1>c, <2>1, <2>2 DEF Sendable
<1>10. /\ Waiting' = (Waiting \ {m}) \cup (IF Fate(conn[c]) = "queued" THEN {m} ELSE {})
       /\ m \in Held' <=> Fate(conn[c]) # "dropped"
       /\ \A k \in Msgs \ {m} : k \in Held' <=> k \in Held
  BY <1>0, <1>7, <1>9, SendHeld
<1>11. /\ rest \in Seq(Tasks) /\ Distinct(rest)
       /\ ToSet(rest) = ToSet(tasks) \cup IF io.close THEN {Close(c)} ELSE {}
  <2>1. CASE io.close
    <3>1. Closable(conn[c])
      BY <1>2 DEF Closable
    <3> QED BY <1>0, <1>2, <2>1, <3>1, AddClose DEF Types
  <2>2. CASE ~ io.close
    <3>1. rest = tasks
      BY <1>0, <2>2 DEF Types
    <3> QED BY <1>0, <2>2, <3>1 DEF Types, TaskInv
  <2> QED BY <2>1, <2>2
<1> HIDE DEF rest
<1>12. Return(m) \notin ToSet(rest)
  <2>1. Return(m) # Close(c)
    BY TaskNames
  <2> QED BY <1>8, <1>11, <2>1
<1>13. /\ tasks' \in Seq(Tasks) /\ Distinct(tasks')
       /\ ToSet(tasks') = ToSet(rest) \cup IF Fate(conn[c]) = "dropped" THEN {Return(m)} ELSE {}
  <2>1. Held \subseteq Msgs /\ Held' \subseteq Msgs
    BY DEF Held
  <2>2. CASE Fate(conn[c]) = "dropped"
    <3>1. Held \ Held' = {m}
      <4>1. m \in Held \ Held'
        BY <1>8, <1>10, <2>2
      <4>2. \A k \in Held \ Held' : k = m
        BY <1>10, <2>1
      <4> QED BY <4>1, <4>2
    <3> QED BY <1>1, <1>11, <1>12, <2>2, <3>1, PostOne
  <2>3. CASE Fate(conn[c]) # "dropped"
    <3>1. Held \ Held' = {}
      <4>1. m \in Held'
        BY <1>10, <2>3
      <4> QED BY <1>10, <2>1, <4>1
    <3> QED BY <1>1, <1>11, <2>3, <3>1, PostNothing
  <2> QED BY <2>2, <2>3
<1>14. Types'
  BY <1>0, <1>1, <1>4, <1>5, <1>7, <1>13 DEF Types, DispTypes, Delivered
<1>15. TaskInv'
  <2>1. Close(c) \notin retries /\ Return(m) \notin retries
    BY <1>0, TaskNames DEF TaskInv
  <2> QED BY <1>0, <1>1, <1>11, <1>13, <2>1 DEF TaskInv
<1>16. /\ \A k : Return(k) \in ToSet(tasks') =>
             Return(k) \in ToSet(tasks) \/ (k = m /\ Fate(conn[c]) = "dropped")
       /\ \A d : Finish(d) \in Pending' => Finish(d) \in Pending
       /\ \A d : Forget(d) \in Pending' => Forget(d) \in Pending
       /\ \A d : Close(d) \in Pending' => Close(d) \in Pending \/ (d = c /\ io.close)
  BY <1>1, <1>11, <1>13, TaskNames DEF Pending
<1>17. MsgInv'
  <2>1. disp.msg # m
    BY <1>0, <1>2, <1>8 DEF MsgInv
  <2> QED BY <1>0, <1>1, <1>7, <1>9, <1>16, <2>1, SendMessages
<1>18. \A d \in Conns : Owned(d)' = Owned(d)
  BY <1>1 DEF Owned
<1>19. ConnInv'
  <2>1. Closing(c)' /\ Writes(c)'
    BY <1>2, <1>3, <1>4, <1>7, <1>16, SentOn DEF SentRecord, Closable
  <2>2. First(c)'
    <3>1. conn'[c].receivedFirst
      BY <1>2, <1>3, <1>4 DEF SentRecord
    <3>2. io'.conn # c
      BY <1>5, NetworkAssumption DEF NetworkAssumption
    <3> QED BY <3>1, <3>2 DEF First
  <2>3. \A d \in Conns : io'.conn # d
    BY <1>5, NetworkAssumption DEF NetworkAssumption
  <2> QED BY <1>0, <1>4, <1>7, <1>16, <1>18, <2>1, <2>2, <2>3, OneConn DEF Delivered
<1>20. CountInv'
  <2>1. \A d \in Conns : io'.conn # d
    BY <1>5, NetworkAssumption DEF NetworkAssumption
  <2>2. ASSUME Steady(c) PROVE Counted(c)'
    <3>1. Counted(c)
      BY <1>0, <2>2 DEF CountInv
    <3> QED BY <1>1, <1>3, <1>4, <1>7, <1>18, <2>1, <3>1 DEF Counted, SentRecord, Delivered
  <2> QED BY <1>0, <1>1, <1>4, <1>7, <1>18, <2>1, <2>2, OneCount DEF Delivered
<1>21. OrderInv'
  <2> SUFFICES ASSUME NEW d \in Conns
               PROVE  /\ kind[d] # "game" => proto'[d].buffer = None
                      /\ Steady(d) /\ conn'[d].state = "OPEN" =>
                            \A k \in Waiting' : owner[k] = d => k = proto'[d].buffer \/ k \in full
    BY <1>1 DEF OrderInv, Steady
  <2>1. /\ kind[d] # "game" => proto[d].buffer = None
        /\ Steady(d) /\ conn[d].state = "OPEN" =>
              \A k \in Waiting : owner[k] = d => k = proto[d].buffer \/ k \in full
    BY <1>0 DEF OrderInv
  <2>2. CASE d # c
    BY <1>2, <1>4, <1>7, <1>10, <2>1, <2>2 DEF Delivered
  <2>3. CASE d = c
    <3>1. Steady(c) => io.close
      BY <1>0, <1>c DEF CountInv, Counted
    <3> QED BY <1>3, <1>4, <1>7, <2>1, <2>3, <3>1 DEF Delivered
  <2> QED BY <2>2, <2>3
<1> QED BY <1>14, <1>15, <1>17, <1>19, <1>20, <1>21 DEF Inv

LEMMA StepSendNext ==
  ASSUME Inv, SendNext
  PROVE  Inv'
<1>0. Types /\ TaskInv /\ MsgInv /\ ConnInv /\ CountInv /\ OrderInv
  BY DEF Inv
<1>c. PICK m \in Msgs, c \in Conns : m = autoSend[disp.pos] /\ c = owner[m] /\ m \in ToSet(autoSend)
  <2>1. disp.pos \in DOMAIN autoSend
    BY <1>0 DEF SendNext, Types, DispTypes
  <2>2. autoSend[disp.pos] \in Msgs /\ autoSend[disp.pos] \in ToSet(autoSend)
    BY <1>0, <2>1 DEF Types, ToSet
  <2>3. owner[autoSend[disp.pos]] \in Conns
    BY <1>0, <2>2 DEF Types, MsgInv, Waiting
  <2> QED BY <2>2, <2>3
<1> DEFINE n == Sent(conn[c])
<1>1. /\ Send(c, m, {}) /\ conn' = [conn EXCEPT ![c] = n] /\ io.conn # c
      /\ autoSend' = RemoveAt(autoSend, disp.pos) /\ NextMessage(disp.pos)
      /\ UNCHANGED <<kind, reading, expired, owner, full, io, retries>>
      /\ Post(tasks) /\ disp.at = "sendAll"
  BY <1>c DEF SendNext, Unlocked
<1>2. /\ conn[c] \in ConnRecord /\ Closing(c) /\ Writes(c) /\ First(c)
      /\ m # None /\ m \in Waiting /\ m \notin ToSet(toAdd) /\ (\A d \in Conns : m \notin writing[d])
      /\ m # io.msg /\ disp.msg = None
  BY <1>0, <1>1, <1>c, NetworkAssumption
  DEF Types, ConnInv, MsgInv, Waiting, DispTypes, NetworkAssumption
<1>3. SentRecord(n, conn[c]) /\ n.refs = conn[c].refs /\ n.state = conn[c].state
  BY <1>2, SentRecords
<1> HIDE DEF n
<1>4. conn' \in [Conns -> ConnRecord] /\ conn'[c] = n /\ \A d \in Conns \ {c} : conn'[d] = conn[d]
  BY <1>0, <1>1, <1>3 DEF Types, SentRecord
<1>5. /\ autoSend' \in Seq(Msgs) /\ Distinct(autoSend') /\ ToSet(autoSend') = ToSet(autoSend) \ {m}
      /\ Len(autoSend') \in Nat /\ DOMAIN autoSend' = 1 .. Len(autoSend')
  <2>1. autoSend \in Seq(Msgs) /\ Distinct(autoSend) /\ disp.pos \in DOMAIN autoSend
    BY <1>0, <1>1 DEF Types, DispTypes, MsgInv
  <2>2. autoSend' \in Seq(Msgs) /\ Distinct(autoSend') /\ ToSet(autoSend') = ToSet(autoSend) \ {m}
    BY <1>1, <1>c, <2>1, SetOfRemoveAt
  <2> QED BY <2>2
<1>6. DispTypes' /\ disp'.msg = None /\ poolHeld' \in BOOLEAN
  <2>1. /\ disp' = IF disp.pos <= Len(autoSend') THEN [disp EXCEPT !.pos = disp.pos] ELSE DispIdle
        /\ poolHeld' \in BOOLEAN
    BY <1>1 DEF NextMessage
  <2>2. /\ disp \in [at : {"idle", "unref", "end", "sendAll"}, pos : Nat,
                     msg : Msgs \cup {None}, read : Nat]
        /\ disp.pos \in 1 .. Len(autoSend) /\ Len(autoSend) \in Nat
    BY <1>0, <1>1 DEF Types, DispTypes
  <2>3. CASE disp.pos <= Len(autoSend')
    <3>1. disp' = [disp EXCEPT !.pos = disp.pos] /\ disp.pos \in DOMAIN autoSend'
      BY <1>5, <2>1, <2>2, <2>3
    <3>2. /\ disp' \in [at : {"idle", "unref", "end", "sendAll"}, pos : Nat,
                         msg : Msgs \cup {None}, read : Nat]
          /\ disp'.at = "sendAll" /\ disp'.msg = None /\ disp'.pos = disp.pos
      BY <1>1, <1>2, <2>2, <3>1
    <3> QED BY <2>1, <3>1, <3>2 DEF DispTypes
  <2>4. CASE ~ (disp.pos <= Len(autoSend'))
    BY <2>1, <2>4 DEF DispIdle, DispTypes
  <2> QED BY <2>3, <2>4
<1>7. Delivered(c, m)
  <2>1. {} \in SUBSET Timers /\ Distinct(toAdd)
    BY <1>0 DEF MsgInv
  <2> QED BY <1>0, <1>1, <1>2, <2>1, SendFields
<1>8. m \in Held /\ Return(m) \notin ToSet(tasks)
  <2>1. m \in Held
    BY <1>2 DEF Held
  <2> QED BY <1>0, <2>1 DEF MsgInv
<1>9. Sendable(c, m)
  <2>1. \A d \in Conns : proto[d].buffer = m => d = c
    BY <1>0, <1>2, <1>c DEF MsgInv
  <2> QED BY <1>1, <1>2, <1>5, <1>8, <1>c, <2>1 DEF Sendable
<1>10. /\ Waiting' = (Waiting \ {m}) \cup (IF Fate(conn[c]) = "queued" THEN {m} ELSE {})
       /\ m \in Held' <=> Fate(conn[c]) # "dropped"
       /\ \A k \in Msgs \ {m} : k \in Held' <=> k \in Held
  BY <1>0, <1>7, <1>9, SendHeld
<1>13. /\ tasks' \in Seq(Tasks) /\ Distinct(tasks')
       /\ ToSet(tasks') = ToSet(tasks) \cup IF Fate(conn[c]) = "dropped" THEN {Return(m)} ELSE {}
  <2>1. Held \subseteq Msgs /\ Held' \subseteq Msgs /\ tasks \in Seq(Tasks) /\ Distinct(tasks)
    BY <1>0 DEF Held, Types, TaskInv
  <2>2. CASE Fate(conn[c]) = "dropped"
    <3>1. Held \ Held' = {m}
      <4>1. m \in Held \ Held'
        BY <1>8, <1>10, <2>2
      <4>2. \A k \in Held \ Held' : k = m
        BY <1>10, <2>1
      <4> QED BY <4>1, <4>2
    <3> QED BY <1>1, <1>8, <2>1, <2>2, <3>1, PostOne
  <2>3. CASE Fate(conn[c]) # "dropped"
    <3>1. Held \ Held' = {}
      <4>1. m \in Held'
        BY <1>10, <2>3
      <4> QED BY <1>10, <2>1, <4>1
    <3> QED BY <1>1, <2>1, <2>3, <3>1, PostNothing
  <2> QED BY <2>2, <2>3
<1>14. Types'
  BY <1>0, <1>1, <1>4, <1>5, <1>6, <1>7, <1>13 DEF Types, IoTypes, Delivered
<1>15. TaskInv'
  <2>1. Return(m) \notin retries
    BY <1>0, TaskNames DEF TaskInv
  <2> QED BY <1>0, <1>1, <1>13, <2>1 DEF TaskInv
<1>16. /\ \A k : Return(k) \in ToSet(tasks') =>
             Return(k) \in ToSet(tasks) \/ (k = m /\ Fate(conn[c]) = "dropped")
       /\ \A d : Finish(d) \in Pending' => Finish(d) \in Pending
       /\ \A d : Forget(d) \in Pending' => Forget(d) \in Pending
       /\ \A d : Close(d) \in Pending' => Close(d) \in Pending
  BY <1>1, <1>13, TaskNames DEF Pending
<1>17. MsgInv'
  BY <1>0, <1>6, <1>7, <1>9, <1>16, SendMessages
<1>18. \A d \in Conns : Owned(d)' = Owned(d)
  BY <1>1 DEF Owned
<1>19. ConnInv'
  <2>1. Closing(c)' /\ Writes(c)'
    BY <1>1, <1>2, <1>3, <1>4, <1>7, <1>16, SentOn DEF SentRecord
  <2>2. First(c)'
    BY <1>1, <1>2, <1>3, <1>4, <1>7, <1>18 DEF First, SentRecord, Delivered
  <2> QED BY <1>0, <1>1, <1>4, <1>7, <1>16, <1>18, <2>1, <2>2, OneConn DEF Delivered
<1>20. CountInv'
  <2>1. ASSUME Steady(c) PROVE Counted(c)'
    <3>1. Counted(c)
      BY <1>0, <2>1 DEF CountInv
    <3> QED BY <1>1, <1>3, <1>4, <1>6, <1>7, <1>18, <3>1 DEF Counted, SentRecord, Delivered
  <2> QED BY <1>0, <1>1, <1>4, <1>6, <1>7, <1>18, <2>1, OneCount DEF Delivered
<1>21. OrderInv'
  <2> SUFFICES ASSUME NEW d \in Conns
               PROVE  /\ kind[d] # "game" => proto'[d].buffer = None
                      /\ Steady(d) /\ conn'[d].state = "OPEN" =>
                            \A k \in Waiting' : owner[k] = d => k = proto'[d].buffer \/ k \in full
    BY <1>1 DEF OrderInv, Steady
  <2>1. /\ kind[d] # "game" => proto[d].buffer = None
        /\ Steady(d) /\ conn[d].state = "OPEN" =>
              \A k \in Waiting : owner[k] = d => k = proto[d].buffer \/ k \in full
    BY <1>0 DEF OrderInv
  <2>2. CASE d # c
    <3>1. proto'[d] = proto[d] /\ conn'[d] = conn[d]
      BY <1>4, <1>7, <2>2 DEF Delivered
    <3>2. \A k \in Waiting' : owner[k] = d => k \in Waiting
      BY <1>c, <1>10, <2>2
    <3> QED BY <2>1, <3>1, <3>2
  <2>3. CASE d = c
    <3>1. proto'[c].buffer = IF Fate(conn[c]) # "queued" /\ proto[c].buffer = m THEN None ELSE proto[c].buffer
      BY <1>7 DEF Delivered
    <3> QED BY <1>2, <1>3, <1>4, <1>10, <2>1, <2>3, <3>1
  <2> QED BY <2>2, <2>3
<1> QED BY <1>14, <1>15, <1>17, <1>19, <1>20, <1>21 DEF Inv

LEMMA StepSpeak ==
  ASSUME Inv, NEW c \in Conns, Speak(c)
  PROVE  Inv'
<1>0. Types /\ TaskInv /\ MsgInv /\ ConnInv /\ CountInv /\ OrderInv
  BY DEF Inv
<1> DEFINE r == [conn[c] EXCEPT !.refs = @ + 1]
           n == IF kind[c] = "game" THEN closeConnection(Sent(r)) ELSE Sent(r)
<1>c. PICK m \in Msgs :
        LET lost == IF Fate(conn[c]) = "dropped" THEN <<[run |-> "release", msg |-> m]>> ELSE <<>>
            rest == lost \o tasks \o IF kind[c] = "game" THEN CloseTask(c) ELSE <<>>
        IN  /\ Take(m)
            /\ owner' = [owner EXCEPT ![m] = c]
            /\ Send(c, m, {})
            /\ conn' = [conn EXCEPT ![c] = n]
            /\ UNCHANGED <<kind, reading, expired, full, autoSend, poolHeld, io, retries>>
            /\ Ends
            /\ Post(rest)
  BY DEF Speak
<1> DEFINE lost == IF Fate(conn[c]) = "dropped" THEN <<Return(m)>> ELSE <<>>
           rest == lost \o tasks \o IF kind[c] = "game" THEN CloseTask(c) ELSE <<>>
<1>1. /\ owner' = [owner EXCEPT ![m] = c] /\ Send(c, m, {}) /\ conn' = [conn EXCEPT ![c] = n]
      /\ UNCHANGED <<kind, reading, expired, full, autoSend, poolHeld, io, retries>>
      /\ Ends /\ Post(rest) /\ m \in Free
  BY <1>c DEF Take, Return
<1>2. /\ conn[c] \in ConnRecord /\ Closing(c) /\ Writes(c) /\ First(c)
      /\ proto[c].linked /\ proto[c].served /\ io.conn # c /\ kind[c] \in {"game", "admin"}
      /\ disp.msg = None
  BY <1>0 DEF Speak, Unlocked, InTask, ConnInv, Types, DispTypes
<1>3. /\ m # None /\ owner[m] = None /\ m # io.msg /\ m \notin Waiting
      /\ \A d \in Conns : m \notin writing[d] /\ proto[d].buffer # m
      /\ Return(m) \notin ToSet(tasks)
  BY <1>0, <1>1, NetworkAssumption DEF Free, MsgInv, NetworkAssumption
<1>4. m \notin Held
  BY <1>3 DEF Held
<1>5. /\ SentRecord(n, conn[c]) /\ n.refs = conn[c].refs + 1
      /\ n.state = IF kind[c] = "game" /\ Closable(conn[c]) THEN "REQUEST_CLOSE" ELSE conn[c].state
  <2>1. /\ r \in ConnRecord /\ r.refs = conn[c].refs + 1 /\ r.protocol = conn[c].protocol
        /\ r.receivedFirst = conn[c].receivedFirst /\ r.stop = conn[c].stop /\ r.listed = conn[c].listed
        /\ r.state = conn[c].state /\ r.socket = conn[c].socket /\ r.pendingWrite = conn[c].pendingWrite
        /\ r.ahead = conn[c].ahead /\ r.writeError = conn[c].writeError
    BY <1>2 DEF ConnRecord
  <2> HIDE DEF r
  <2>2. Fate(r) = Fate(conn[c]) /\ (Closable(r) <=> Closable(conn[c]))
    BY <2>1 DEF Fate, Unusable, Closable
  <2>3. /\ SentRecord(n, r) /\ n.refs = r.refs
        /\ n.state = IF kind[c] = "game" /\ Closable(r) THEN "REQUEST_CLOSE" ELSE r.state
    BY <2>1, SentRecords
  <2> HIDE DEF n
  <2> QED BY <2>1, <2>2, <2>3 DEF SentRecord
<1> HIDE DEF n
<1>6. /\ conn' \in [Conns -> ConnRecord] /\ conn'[c] = n /\ \A d \in Conns \ {c} : conn'[d] = conn[d]
      /\ owner' \in [Msgs -> Conns \cup {None}] /\ owner'[m] = c
      /\ \A k \in Msgs \ {m} : owner'[k] = owner[k]
  BY <1>0, <1>1, <1>5 DEF Types, SentRecord
<1>7. Delivered(c, m)
  <2>1. {} \in SUBSET Timers /\ Distinct(toAdd) /\ m \notin ToSet(toAdd)
    BY <1>0, <1>3 DEF MsgInv, Waiting
  <2> QED BY <1>0, <1>1, <2>1, SendFields
<1>9. Sendable(c, m)
  <2>1. m \notin ToSet(toAdd) /\ m \notin ToSet(autoSend)
    BY <1>3 DEF Waiting
  <2>2. autoSend' \in Seq(Msgs) /\ Distinct(autoSend') /\ ToSet(autoSend') = ToSet(autoSend) \ {m}
    BY <1>0, <1>1, <2>1 DEF Types, MsgInv
  <2> QED BY <1>1, <1>3, <1>6, <2>1, <2>2 DEF Sendable
<1>10. /\ Waiting' = (Waiting \ {m}) \cup (IF Fate(conn[c]) = "queued" THEN {m} ELSE {})
       /\ m \in Held' <=> Fate(conn[c]) # "dropped"
       /\ \A k \in Msgs \ {m} : k \in Held' <=> k \in Held
  BY <1>0, <1>7, <1>9, SendHeld
<1>11. /\ rest \in Seq(Tasks) /\ Distinct(rest)
       /\ ToSet(rest) = ToSet(tasks) \cup (IF Fate(conn[c]) = "dropped" THEN {Return(m)} ELSE {})
                                     \cup (IF kind[c] = "game" /\ Closable(conn[c]) THEN {Close(c)} ELSE {})
  <2> DEFINE u == tasks \o IF kind[c] = "game" THEN CloseTask(c) ELSE <<>>
  <2>1. /\ u \in Seq(Tasks) /\ Distinct(u)
        /\ ToSet(u) = ToSet(tasks) \cup (IF kind[c] = "game" /\ Closable(conn[c]) THEN {Close(c)} ELSE {})
    <3>1. CASE kind[c] = "game"
      BY <1>0, <1>2, <3>1, AddClose DEF Types
    <3>2. CASE kind[c] # "game"
      <4>1. u = tasks
        BY <1>0, <3>2 DEF Types
      <4> QED BY <1>0, <3>2, <4>1 DEF Types, TaskInv
    <3> QED BY <3>1, <3>2
  <2>2. /\ lost \in Seq(Tasks) /\ Distinct(lost)
        /\ ToSet(lost) = IF Fate(conn[c]) = "dropped" THEN {Return(m)} ELSE {}
    <3>1. CASE Fate(conn[c]) = "dropped"
      <4>1. lost = <<Return(m)>> /\ Return(m) \in Tasks
        BY <3>1, TaskNames
      <4> QED BY <3>1, <4>1, SetOfOne
    <3>2. CASE Fate(conn[c]) # "dropped"
      <4>1. lost = <<>>
        BY <3>2
      <4> QED BY <3>2, <4>1, SetOfOne
    <3> QED BY <3>1, <3>2
  <2>3. rest = lost \o u
    <3>1. lost \in Seq(Tasks) /\ tasks \in Seq(Tasks)
      BY <1>0, <2>2 DEF Types
    <3> DEFINE x == IF kind[c] = "game" THEN CloseTask(c) ELSE <<>>
    <3>2. x \in Seq(Tasks)
      <4>1. CASE Closable(conn[c])
        <5>1. CloseTask(c) = <<Close(c)>>
          BY <4>1 DEF CloseTask, Close
        <5> QED BY <5>1, SetOfOne, TaskNames
      <4>2. CASE ~ Closable(conn[c])
        BY <4>2, SetOfOne DEF CloseTask
      <4> QED BY <4>1, <4>2
    <3>3. rest = (lost \o tasks) \o x /\ u = tasks \o x
      OBVIOUS
    <3> HIDE DEF lost, x, rest, u
    <3>4. (lost \o tasks) \o x = lost \o (tasks \o x)
      BY <3>1, <3>2
    <3> QED BY <3>3, <3>4
  <2>4. ToSet(lost) \cap ToSet(u) = {}
    <3>1. Return(m) # Close(c)
      BY TaskNames
    <3> QED BY <1>3, <2>1, <2>2, <3>1
  <2> HIDE DEF lost, u, rest
  <2>5. rest \in Seq(Tasks) /\ Distinct(rest) /\ ToSet(rest) = ToSet(lost) \cup ToSet(u)
    BY <2>1, <2>2, <2>3, <2>4, SetOfConcat
  <2> QED BY <2>1, <2>2, <2>5
<1> HIDE DEF rest
<1>13. tasks' \in Seq(Tasks) /\ Distinct(tasks') /\ ToSet(tasks') = ToSet(rest)
  <2>1. Held \subseteq Msgs
    BY DEF Held
  <2>2. Held \ Held' = {}
    BY <1>4, <1>10, <2>1
  <2> QED BY <1>1, <1>11, <2>2, PostNothing
<1>8. DispTypes' /\ disp'.msg = None
  BY <1>1, EndsTypes
<1>14. Types'
  BY <1>0, <1>1, <1>6, <1>7, <1>8, <1>9, <1>13 DEF Types, IoTypes, Delivered, Sendable
<1>15. TaskInv'
  <2>1. Close(c) \notin retries /\ Return(m) \notin retries
    BY <1>0, TaskNames DEF TaskInv
  <2> QED BY <1>0, <1>1, <1>11, <1>13, <2>1 DEF TaskInv
<1>16. /\ \A k : Return(k) \in ToSet(tasks') =>
             Return(k) \in ToSet(tasks) \/ (k = m /\ Fate(conn[c]) = "dropped")
       /\ \A d : Finish(d) \in Pending' => Finish(d) \in Pending
       /\ \A d : Forget(d) \in Pending' => Forget(d) \in Pending
       /\ \A d : Close(d) \in Pending' =>
             Close(d) \in Pending \/ (d = c /\ kind[c] = "game" /\ Closable(conn[c]))
  <2>1. ToSet(tasks') =
           ToSet(tasks) \cup (IF Fate(conn[c]) = "dropped" THEN {Return(m)} ELSE {})
                        \cup (IF kind[c] = "game" /\ Closable(conn[c]) THEN {Close(c)} ELSE {})
    BY <1>11, <1>13
  <2>2. retries' = retries
    BY <1>1
  <2> QED BY <2>1, <2>2, TaskNames DEF Pending
<1>17. MsgInv'
  BY <1>0, <1>7, <1>8, <1>9, <1>16, SendMessages
<1>18. /\ \A d \in Conns \ {c} : Owned(d)' = Owned(d)
       /\ Owned(c)' = Owned(c) \cup {m} /\ m \notin Owned(c)
  <2>1. ASSUME NEW d \in Conns \ {c}, NEW k \in Msgs PROVE owner'[k] = d <=> owner[k] = d
    BY <1>3, <1>6, NetworkAssumption DEF NetworkAssumption
  <2>2. ASSUME NEW k \in Msgs PROVE owner'[k] = c <=> (owner[k] = c \/ k = m)
    BY <1>6
  <2>3. Owned(c)' \subseteq Owned(c) \cup {m} /\ Owned(c) \cup {m} \subseteq Owned(c)'
    BY <2>2 DEF Owned
  <2>4. m \notin Owned(c)
    BY <1>3, NetworkAssumption DEF Owned, NetworkAssumption
  <2> QED BY <2>1, <2>3, <2>4 DEF Owned
<1>19. ConnInv'
  <2>1. Closing(c)' /\ Writes(c)'
    BY <1>1, <1>2, <1>5, <1>6, <1>7, <1>16, SentOn DEF SentRecord
  <2>2. First(c)'
    <3>1. conn[c].receivedFirst /\ conn'[c].receivedFirst /\ io'.conn # c
      BY <1>1, <1>2, <1>5, <1>6 DEF First, SentRecord
    <3> QED BY <3>1 DEF First
  <2> QED BY <1>0, <1>1, <1>6, <1>7, <1>16, <1>18, <2>1, <2>2, OneConn DEF Delivered
<1>20. CountInv'
  <2>1. ASSUME Steady(c) PROVE Counted(c)'
    <3>1. Counted(c) /\ conn[c].state \notin {"CLOSING", "CLOSED"}
      BY <1>0, <1>2, <2>1 DEF CountInv, Closing
    <3>2. Owned(c)' = Owned(c) \cup {m} /\ m \notin Owned(c) /\ IsFiniteSet(Owned(c))
      BY <1>18, NetworkAssumption, FS_Subset DEF Owned, NetworkAssumption
    <3>3. Cardinality(Owned(c) \cup {m}) = Cardinality(Owned(c)) + 1
      BY <3>2, FS_AddElement
    <3>4. conn'[c].refs = Cardinality(Owned(c)')
      BY <1>5, <1>6, <3>1, <3>2, <3>3 DEF Counted
    <3>5. proto'[c].life = "live" /\ ~ conn'[c].stop /\ conn'[c].listed
      BY <1>2, <1>5, <1>6, <1>7, <3>1 DEF Closing, SentRecord, Delivered
    <3> QED BY <1>1, <1>2, <1>8, <3>4, <3>5 DEF Counted
  <2> QED BY <1>0, <1>1, <1>6, <1>7, <1>8, <1>18, <2>1, OneCount DEF Delivered
<1>21. OrderInv'
  <2> SUFFICES ASSUME NEW d \in Conns
               PROVE  /\ kind[d] # "game" => proto'[d].buffer = None
                      /\ Steady(d) /\ conn'[d].state = "OPEN" =>
                            \A k \in Waiting' : owner'[k] = d => k = proto'[d].buffer \/ k \in full
    BY <1>1 DEF OrderInv, Steady
  <2>1. /\ kind[d] # "game" => proto[d].buffer = None
        /\ Steady(d) /\ conn[d].state = "OPEN" =>
              \A k \in Waiting : owner[k] = d => k = proto[d].buffer \/ k \in full
        /\ Waiting \subseteq Msgs
    BY <1>0, WaitingSet DEF OrderInv
  <2>2. CASE d # c
    BY <1>6, <1>7, <1>10, <2>1, <2>2 DEF Delivered
  <2>3. CASE d = c
    <3>1. Steady(c) => conn'[c].state # "OPEN"
      BY <1>2, <1>5, <1>6 DEF Steady, Closable
    <3> QED BY <1>7, <2>1, <2>3, <3>1 DEF Delivered
  <2> QED BY <2>2, <2>3
<1> QED BY <1>14, <1>15, <1>17, <1>19, <1>20, <1>21 DEF Inv

LEMMA StepWrite ==
  ASSUME Inv, NEW c \in Conns, Write(c)
  PROVE  Inv'
<1>0. Types /\ TaskInv /\ MsgInv /\ ConnInv /\ CountInv /\ OrderInv
  BY DEF Inv
<1>1. PICK m \in Msgs :
        /\ Take(m)
        /\ owner' = [owner EXCEPT ![m] = c]
        /\ autoSend' = Append(autoSend, m)
        /\ proto' = [proto EXCEPT ![c].buffer = m]
  BY DEF Write
<1> DEFINE n == [conn[c] EXCEPT !.refs = @ + 1]
           p == [proto[c] EXCEPT !.buffer = m]
           u == <<m>>
<1>2. /\ conn' = [conn EXCEPT ![c] = n] /\ proto' = [proto EXCEPT ![c] = p]
      /\ UNCHANGED <<kind, reading, writing, armed, expired, full, toAdd, poolHeld, io, retries>>
      /\ Ends /\ Post(tasks)
  BY <1>1 DEF Write, ioVars
<1>3. /\ conn[c] \in ConnRecord /\ proto[c] \in ProtoRecord /\ Closing(c) /\ Writes(c) /\ First(c)
      /\ kind[c] = "game" /\ proto[c].linked /\ proto[c].served /\ disp.msg = None
      /\ proto[c].buffer = None \/ proto[c].buffer \in full
  BY <1>0 DEF Write, InTask, ConnInv, Types, DispTypes
<1>4. io.conn # c
  BY <1>0, <1>3 DEF CountInv, Counted, Steady
<1>5. /\ m # None /\ owner[m] = None /\ m # io.msg /\ m \notin Waiting
      /\ \A d \in Conns : m \notin writing[d] /\ proto[d].buffer # m
      /\ Return(m) \notin ToSet(tasks)
  BY <1>0, <1>1, NetworkAssumption DEF Take, Free, MsgInv, NetworkAssumption
<1>6. /\ n \in ConnRecord /\ n.refs = conn[c].refs + 1 /\ n.protocol = conn[c].protocol
      /\ n.receivedFirst = conn[c].receivedFirst /\ n.stop = conn[c].stop /\ n.listed = conn[c].listed
      /\ n.state = conn[c].state /\ n.socket = conn[c].socket /\ n.pendingWrite = conn[c].pendingWrite
      /\ n.ahead = conn[c].ahead
  BY <1>3 DEF ConnRecord
<1>7. /\ p \in ProtoRecord /\ p.life = proto[c].life /\ p.linked = proto[c].linked
      /\ p.served = proto[c].served /\ p.buffer = m
  BY <1>3 DEF ProtoRecord
<1> HIDE DEF n, p
<1>8. /\ conn' \in [Conns -> ConnRecord] /\ conn'[c] = n /\ \A d \in Conns \ {c} : conn'[d] = conn[d]
      /\ proto' \in [Conns -> ProtoRecord] /\ proto'[c] = p /\ \A d \in Conns \ {c} : proto'[d] = proto[d]
      /\ owner' \in [Msgs -> Conns \cup {None}] /\ owner'[m] = c
      /\ \A k \in Msgs \ {m} : owner'[k] = owner[k]
  <2>1. conn' \in [Conns -> ConnRecord] /\ conn'[c] = n /\ \A d \in Conns \ {c} : conn'[d] = conn[d]
    BY <1>0, <1>2, <1>6 DEF Types
  <2>2. proto' \in [Conns -> ProtoRecord] /\ proto'[c] = p /\ \A d \in Conns \ {c} : proto'[d] = proto[d]
    BY <1>0, <1>2, <1>7 DEF Types
  <2>3. /\ owner' \in [Msgs -> Conns \cup {None}] /\ owner'[m] = c
        /\ \A k \in Msgs \ {m} : owner'[k] = owner[k]
    BY <1>0, <1>1 DEF Types
  <2> QED BY <2>1, <2>2, <2>3
<1>9. /\ autoSend' \in Seq(Msgs) /\ Distinct(autoSend') /\ ToSet(autoSend') = ToSet(autoSend) \cup {m}
  <2>1. u \in Seq(Msgs) /\ Distinct(u) /\ ToSet(u) = {m}
    BY SetOfOne
  <2>2. autoSend' = autoSend \o u
    BY <1>0, <1>1 DEF Types
  <2>3. autoSend \in Seq(Msgs) /\ Distinct(autoSend) /\ m \notin ToSet(autoSend)
    BY <1>0, <1>5 DEF Types, MsgInv, Waiting
  <2> HIDE DEF u
  <2> QED BY <2>1, <2>2, <2>3, SetOfConcat
<1>10. Waiting' = Waiting \cup {m} /\ Waiting \subseteq Msgs
  BY <1>0, <1>2, <1>9, WaitingSet DEF Waiting
<1>11. \A d \in Conns : proto'[d].buffer # None =>
          proto'[d].buffer \in Waiting' /\ owner'[proto'[d].buffer] = d
  <2> SUFFICES ASSUME NEW d \in Conns, proto'[d].buffer # None
               PROVE  proto'[d].buffer \in Waiting' /\ owner'[proto'[d].buffer] = d
    OBVIOUS
  <2>1. CASE d = c
    BY <1>7, <1>8, <1>10, <2>1
  <2>2. CASE d # c
    BY <1>0, <1>5, <1>8, <1>10, <2>2 DEF MsgInv
  <2> QED BY <2>1, <2>2
<1>12. \A k \in Msgs : k \in Held' <=> k \in Held \/ k = m
  <2>1. HeldIn /\ HeldIn'
    BY <1>0, <1>11, WhoHolds, WhoHoldsNext DEF MsgInv
  <2> QED BY <1>2, <1>10, <2>1 DEF HeldIn
<1>13. tasks' \in Seq(Tasks) /\ Distinct(tasks') /\ ToSet(tasks') = ToSet(tasks)
  <2>1. Held \ Held' = {}
    BY <1>12 DEF Held
  <2> QED BY <1>0, <1>2, <2>1, PostNothing DEF Types, TaskInv
<1>14. DispTypes' /\ disp'.msg = None
  BY <1>2, EndsTypes
<1>15. Types'
  BY <1>0, <1>2, <1>8, <1>9, <1>13, <1>14 DEF Types, IoTypes
<1>16. TaskInv' /\ Pending' = Pending
  BY <1>0, <1>2, <1>13 DEF TaskInv, Pending
<1>17. MsgInv'
  <2>1. Distinct(autoSend') /\ Distinct(toAdd') /\ ToSet(autoSend') \cap ToSet(toAdd') = {}
    BY <1>0, <1>2, <1>5, <1>9 DEF MsgInv, Waiting
  <2>2. \A k \in Waiting' : owner'[k] # None
    BY <1>0, <1>8, <1>10, NetworkAssumption DEF MsgInv, NetworkAssumption
  <2>3. \A d \in Conns : \A k \in writing'[d] : owner'[k] = d /\ k \notin Waiting'
    BY <1>0, <1>2, <1>5, <1>8, <1>10 DEF MsgInv, Types
  <2>4. io.msg # None =>
          /\ io.msg \notin Waiting' /\ \A d \in Conns : io.msg \notin writing[d]
          /\ owner'[io.msg] = IF io.step = "count" THEN None ELSE io.conn
    <3>1. io.msg # None => io.msg \in Msgs
      BY <1>0 DEF Types, IoTypes
    <3> QED BY <1>0, <1>5, <1>8, <1>10, <3>1 DEF MsgInv
  <2>5. \A k \in Msgs : Return(k) \in ToSet(tasks') => owner'[k] # None /\ k \notin Held'
    BY <1>0, <1>5, <1>8, <1>12, <1>13 DEF MsgInv
  <2> QED BY <1>2, <1>11, <1>14, <2>1, <2>2, <2>3, <2>4, <2>5 DEF MsgInv
<1>18. /\ \A d \in Conns \ {c} : Owned(d)' = Owned(d)
       /\ Owned(c)' = Owned(c) \cup {m} /\ m \notin Owned(c)
  <2>1. ASSUME NEW d \in Conns \ {c}, NEW k \in Msgs PROVE owner'[k] = d <=> owner[k] = d
    BY <1>5, <1>8, NetworkAssumption DEF NetworkAssumption
  <2>2. ASSUME NEW k \in Msgs PROVE owner'[k] = c <=> (owner[k] = c \/ k = m)
    BY <1>8
  <2>3. Owned(c)' \subseteq Owned(c) \cup {m} /\ Owned(c) \cup {m} \subseteq Owned(c)'
    BY <2>2 DEF Owned
  <2>4. m \notin Owned(c)
    BY <1>5, NetworkAssumption DEF Owned, NetworkAssumption
  <2> QED BY <2>1, <2>3, <2>4 DEF Owned
<1>19. ConnInv'
  <2>1. Closing(c)'
    <3>1. /\ conn'[c].protocol = conn[c].protocol /\ conn'[c].state = conn[c].state
          /\ conn'[c].socket = conn[c].socket /\ conn'[c].stop = conn[c].stop
          /\ conn'[c].listed = conn[c].listed /\ conn'[c].ahead = conn[c].ahead
          /\ proto'[c].linked = proto[c].linked /\ proto'[c].life = proto[c].life
      BY <1>6, <1>7, <1>8
    <3>2. reading'[c] = reading[c] /\ Closing(c) /\ Pending' = Pending
      BY <1>2, <1>3, <1>16
    <3> QED BY <3>1, <3>2 DEF Closing
  <2>2. Writes(c)'
    BY <1>2, <1>3, <1>6, <1>8 DEF Writes
  <2>3. First(c)'
    <3>1. conn'[c].receivedFirst /\ io'.conn # c
      BY <1>2, <1>3, <1>4, <1>6, <1>8 DEF First
    <3> QED BY <3>1 DEF First
  <2> QED BY <1>0, <1>2, <1>8, <1>16, <1>18, <2>1, <2>2, <2>3, OneConn
<1>20. CountInv'
  <2>1. Counted(c)'
    <3>1. Counted(c) /\ conn[c].state \notin {"CLOSING", "CLOSED"}
      BY <1>0, <1>3 DEF CountInv, Closing, Steady
    <3>2. IsFiniteSet(Owned(c))
      BY NetworkAssumption, FS_Subset DEF Owned, NetworkAssumption
    <3>3. Cardinality(Owned(c) \cup {m}) = Cardinality(Owned(c)) + 1
      BY <1>18, <3>2, FS_AddElement
    <3>4. conn'[c].refs = Cardinality(Owned(c)')
      BY <1>6, <1>8, <1>18, <3>1, <3>3 DEF Counted
    <3>5. proto'[c].life = "live" /\ ~ conn'[c].stop /\ conn'[c].listed
      BY <1>3, <1>6, <1>7, <1>8, <3>1 DEF Closing
    <3> QED BY <1>2, <1>4, <1>14, <3>4, <3>5 DEF Counted
  <2> QED BY <1>0, <1>2, <1>8, <1>14, <1>18, <2>1, OneCount
<1>21. OrderInv'
  <2> SUFFICES ASSUME NEW d \in Conns
               PROVE  /\ kind[d] # "game" => proto'[d].buffer = None
                      /\ Steady(d) /\ conn'[d].state = "OPEN" =>
                            \A k \in Waiting' : owner'[k] = d => k = proto'[d].buffer \/ k \in full
    BY <1>2 DEF OrderInv, Steady
  <2>1. /\ kind[d] # "game" => proto[d].buffer = None
        /\ Steady(d) /\ conn[d].state = "OPEN" =>
              \A k \in Waiting : owner[k] = d => k = proto[d].buffer \/ k \in full
    BY <1>0 DEF OrderInv
  <2>2. CASE d # c
    BY <1>8, <1>10, <2>1, <2>2
  <2>3. CASE d = c
    <3>1. \A k \in Waiting : owner'[k] = owner[k] /\ k # None
      BY <1>5, <1>8, <1>10, NetworkAssumption DEF NetworkAssumption
    <3> QED BY <1>3, <1>6, <1>7, <1>8, <1>10, <2>1, <2>3, <3>1
  <2> QED BY <2>2, <2>3
<1> QED BY <1>15, <1>16, <1>17, <1>19, <1>20, <1>21 DEF Inv

-----------------------------------------------------------------------------
(* The tasks of the dispatcher.                                            *)

\* The first task is taken from the list.
LEMMA TaskTaken ==
  ASSUME Types, TaskInv, tasks # <<>>
  PROVE  /\ Task \in Tasks /\ Task \in ToSet(tasks) /\ Task \in Pending
         /\ Tail(tasks) \in Seq(Tasks) /\ Distinct(Tail(tasks))
         /\ ToSet(Tail(tasks)) = ToSet(tasks) \ {Task}
         /\ Task \notin retries
<1>1. /\ Task \in Tasks /\ Task \in ToSet(tasks)
      /\ Tail(tasks) \in Seq(Tasks) /\ Distinct(Tail(tasks))
      /\ ToSet(Tail(tasks)) = ToSet(tasks) \ {Task}
  BY SetOfTail DEF Types, TaskInv, Task
<1> QED BY <1>1 DEF TaskInv, Pending

LEMMA StepUnrefRead ==
  ASSUME Inv, UnrefRead
  PROVE  Inv'
<1>0. Types /\ TaskInv /\ MsgInv /\ ConnInv /\ CountInv /\ OrderInv
  BY DEF Inv
<1>1. /\ disp.at = "idle" /\ tasks # <<>> /\ Task.run = "release"
      /\ disp' = [DispIdle EXCEPT !.at = "unref", !.msg = Task.msg, !.read = conn[owner[Task.msg]].refs]
      /\ tasks' = Tail(tasks)
      /\ UNCHANGED <<kind, conn, proto, reading, writing, armed, expired, owner, full, autoSend,
                     toAdd, poolHeld, io, retries>>
  BY DEF UnrefRead, Starts, ioVars, poolVars
<1>2. /\ tasks' \in Seq(Tasks) /\ Distinct(tasks') /\ ToSet(tasks') = ToSet(tasks) \ {Task}
      /\ Task \in Tasks /\ Task \in ToSet(tasks)
  BY <1>0, <1>1, TaskTaken
<1>3. PICK m \in Msgs : Task = Return(m) /\ m = Task.msg
  BY <1>1, <1>2, TaskKinds
<1>4. owner[m] \in Conns /\ owner[m] # None /\ m # None /\ m \notin Held
  BY <1>0, <1>2, <1>3, NetworkAssumption DEF MsgInv, Types, NetworkAssumption
<1>5. /\ disp' = [at |-> "unref", pos |-> 0, msg |-> m, read |-> conn[owner[m]].refs]
      /\ conn[owner[m]].refs \in Nat
  BY <1>0, <1>1, <1>3, <1>4 DEF DispIdle, Types, ConnRecord
<1>6. Types'
  <2>1. DispTypes'
    BY <1>4, <1>5 DEF DispTypes
  <2> QED BY <1>0, <1>1, <1>2, <2>1 DEF Types, IoTypes
<1>7. /\ TaskInv'
      /\ \A t : t \in Pending' => t \in Pending
      /\ \A k : Return(k) \in ToSet(tasks') => Return(k) \in ToSet(tasks) /\ k # m
  BY <1>0, <1>1, <1>2, <1>3 DEF TaskInv, Pending
<1>8. MsgInv'
  <2>1. Waiting' = Waiting
    BY <1>1 DEF Waiting
  <2>2. \A k \in Msgs : k \in Held' <=> k \in Held
    BY <1>1, <2>1 DEF Held
  <2>3. disp'.msg = m /\ owner[m] # None /\ m \notin Held' /\ Return(m) \notin ToSet(tasks')
    BY <1>4, <1>5, <1>7, <2>2
  <2>4. \A k \in Msgs : Return(k) \in ToSet(tasks') => owner[k] # None /\ k \notin Held'
    BY <1>0, <1>7, <2>2 DEF MsgInv
  <2> QED BY <1>0, <1>1, <2>1, <2>3, <2>4 DEF MsgInv
<1>9. \A d \in Conns : Owned(d)' = Owned(d)
  BY <1>1 DEF Owned
<1>10. ConnInv'
  <2> SUFFICES ASSUME NEW d \in Conns PROVE Closing(d)' /\ Writes(d)' /\ First(d)'
    BY DEF ConnInv
  <2>1. Closing(d) /\ Writes(d) /\ First(d)
    BY <1>0 DEF ConnInv
  <2> QED BY <1>1, <1>7, <1>9, <2>1, OtherConn
<1>11. CountInv'
  <2> SUFFICES ASSUME NEW d \in Conns, Steady(d) PROVE Counted(d)'
    BY <1>1 DEF CountInv, Steady
  <2>1. Counted(d)
    BY <1>0 DEF CountInv
  <2> QED BY <1>1, <1>5, <1>9, <2>1 DEF Counted
<1>12. OrderInv'
  BY <1>0, <1>1, SameOrders DEF SameOrder, Waiting
<1> QED BY <1>6, <1>7, <1>8, <1>10, <1>11, <1>12 DEF Inv

LEMMA StepUnrefWrite ==
  ASSUME Inv, UnrefWrite
  PROVE  Inv'
<1>0. Types /\ TaskInv /\ MsgInv /\ ConnInv /\ CountInv /\ OrderInv
  BY DEF Inv
<1>c. PICK m \in Msgs, c \in Conns : m = disp.msg /\ c = owner[m]
  <2>1. disp.msg \in Msgs /\ disp.msg # None
    BY <1>0 DEF UnrefWrite, Types, DispTypes
  <2>2. owner[disp.msg] \in Conns
    BY <1>0, <2>1 DEF MsgInv, Types
  <2> QED BY <2>1, <2>2
<1> DEFINE v == IF disp.read = 0 THEN MaxCount ELSE disp.read - 1
           n == [conn[c] EXCEPT !.refs = v]
<1>1. /\ conn' = [conn EXCEPT ![c] = n] /\ owner' = [owner EXCEPT ![m] = None]
      /\ full' = full \ {m}
      /\ UNCHANGED <<kind, proto, reading, writing, armed, expired, autoSend, toAdd, poolHeld, tasks,
                     io, retries>>
      /\ Ends
  BY <1>c DEF UnrefWrite, ioVars
<1>2. /\ m # None /\ m \notin Held /\ Return(m) \notin ToSet(tasks) /\ m \notin Waiting
      /\ conn[c] \in ConnRecord /\ Closing(c) /\ Writes(c) /\ First(c)
      /\ \A d \in Conns : m \notin writing[d]
      /\ m # io.msg
  BY <1>0, <1>c, NetworkAssumption DEF MsgInv, Types, ConnInv, Held, NetworkAssumption
<1>3. v \in Nat
  BY <1>0, NetworkAssumption DEF Types, DispTypes, NetworkAssumption
<1> HIDE DEF v
<1>4. /\ n \in ConnRecord /\ n.refs = v /\ n.protocol = conn[c].protocol
      /\ n.receivedFirst = conn[c].receivedFirst /\ n.stop = conn[c].stop /\ n.listed = conn[c].listed
      /\ n.state = conn[c].state /\ n.socket = conn[c].socket /\ n.pendingWrite = conn[c].pendingWrite
      /\ n.ahead = conn[c].ahead
  BY <1>2, <1>3 DEF ConnRecord
<1> HIDE DEF n
<1>5. /\ conn' \in [Conns -> ConnRecord] /\ conn'[c] = n /\ \A d \in Conns \ {c} : conn'[d] = conn[d]
      /\ owner' \in [Msgs -> Conns \cup {None}] /\ owner'[m] = None
      /\ \A k \in Msgs \ {m} : owner'[k] = owner[k]
  BY <1>0, <1>1, <1>4 DEF Types
<1>6. DispTypes' /\ disp'.msg = None
  BY <1>1, EndsTypes
<1>7. Types'
  BY <1>0, <1>1, <1>5, <1>6 DEF Types, IoTypes
<1>8. TaskInv' /\ Pending' = Pending
  BY <1>0, <1>1 DEF TaskInv, Pending
<1>9. Waiting' = Waiting /\ Waiting \subseteq Msgs
  BY <1>0, <1>1, WaitingSet DEF Waiting
<1>10. MsgInv'
  <2>1. \A k \in Msgs : k \in Held' <=> k \in Held
    BY <1>1, <1>9 DEF Held
  <2>2. \A k \in Waiting : owner'[k] # None
    BY <1>0, <1>2, <1>5, <1>9 DEF MsgInv
  <2>3. \A d \in Conns : \A k \in writing[d] : owner'[k] = d /\ k \notin Waiting
    BY <1>0, <1>2, <1>5 DEF MsgInv, Types
  <2>4. io.msg # None => owner'[io.msg] = owner[io.msg]
    BY <1>0, <1>2, <1>5 DEF Types, IoTypes
  <2>5. \A d \in Conns : proto[d].buffer # None => owner'[proto[d].buffer] = d
    BY <1>0, <1>2, <1>5, <1>9 DEF MsgInv
  <2>6. \A k \in Msgs : Return(k) \in ToSet(tasks) => owner'[k] # None
    BY <1>0, <1>2, <1>5 DEF MsgInv
  <2> QED BY <1>0, <1>1, <1>6, <1>9, <2>1, <2>2, <2>3, <2>4, <2>5, <2>6 DEF MsgInv
<1>11. /\ \A d \in Conns \ {c} : Owned(d)' = Owned(d)
       /\ Owned(c)' = Owned(c) \ {m} /\ m \in Owned(c)
  <2>1. ASSUME NEW d \in Conns \ {c}, NEW k \in Msgs PROVE owner'[k] = d <=> owner[k] = d
    BY <1>c, <1>5, NetworkAssumption DEF NetworkAssumption
  <2>2. ASSUME NEW k \in Msgs PROVE owner'[k] = c <=> (owner[k] = c /\ k # m)
    BY <1>5, NetworkAssumption DEF NetworkAssumption
  <2>3. Owned(c)' \subseteq Owned(c) \ {m} /\ Owned(c) \ {m} \subseteq Owned(c)'
    BY <2>2 DEF Owned
  <2> QED BY <1>c, <2>1, <2>3 DEF Owned
<1>12. ConnInv'
  <2>1. Closing(c)'
    BY <1>1, <1>2, <1>4, <1>5, <1>8 DEF Closing
  <2>2. Writes(c)'
    BY <1>1, <1>2, <1>4, <1>5 DEF Writes
  <2>3. First(c)'
    BY <1>1, <1>2, <1>4, <1>5, <1>11 DEF First
  <2> QED BY <1>0, <1>1, <1>5, <1>8, <1>11, <2>1, <2>2, <2>3, OneConn
<1>13. CountInv'
  <2>1. ASSUME Steady(c) PROVE Counted(c)'
    <3>1. Counted(c) /\ IsFiniteSet(Owned(c))
      BY <1>0, <2>1, NetworkAssumption, FS_Subset DEF CountInv, Owned, NetworkAssumption
    <3>2. /\ Cardinality(Owned(c) \ {m}) = Cardinality(Owned(c)) - 1
          /\ Cardinality(Owned(c)) \in Nat
      BY <1>11, <3>1, FS_RemoveElement, FS_CardinalityType
    <3>3. /\ Cardinality(Owned(c) \ {m}) \in Nat
      <4>1. IsFiniteSet(Owned(c) \ {m})
        BY <3>1, FS_RemoveElement
      <4> QED BY <4>1, FS_CardinalityType
    <3>4. disp.read = Cardinality(Owned(c))
      BY <1>c, <1>2, <3>1 DEF Counted
    <3>5. conn'[c].refs = Cardinality(Owned(c)')
      BY <1>4, <1>5, <1>11, <3>2, <3>3, <3>4 DEF v
    <3> QED BY <1>1, <1>4, <1>5, <1>6, <1>11, <3>1, <3>5 DEF Counted
  <2> QED BY <1>0, <1>1, <1>5, <1>6, <1>11, <2>1, OneCount
<1>14. OrderInv'
  <2>1. \A d \in Conns : SameOrder(d)
    BY <1>1, <1>4, <1>5 DEF SameOrder
  <2>2. \A k \in Waiting : owner'[k] = owner[k] /\ (k \in full => k \in full')
    BY <1>1, <1>2, <1>5, <1>9
  <2> QED BY <1>0, <1>1, <1>9, <2>1, <2>2, SameOrders
<1> QED BY <1>7, <1>8, <1>10, <1>12, <1>13, <1>14 DEF Inv

\* A task that lets a connection or its protocol go posts nothing: no message is let go.
LEMMA ReleaseTasks ==
  ASSUME Types, TaskInv, MsgInv, tasks # <<>>, Post(Tail(tasks)),
         UNCHANGED <<autoSend, toAdd, writing>>, io'.msg = io.msg,
         \A d \in Conns : proto'[d].buffer \in {proto[d].buffer, None}
  PROVE  tasks' \in Seq(Tasks) /\ Distinct(tasks') /\ ToSet(tasks') = ToSet(tasks) \ {Task}
<1>1. Waiting' = Waiting
  BY DEF Waiting
<1>2. HeldIn /\ HeldIn'
  BY <1>1, WhoHolds, WhoHoldsNext DEF MsgInv
<1>3. Held \ Held' = {}
  <2>1. \A m \in Msgs : m \in Held => m \in Held'
    BY <1>1, <1>2 DEF HeldIn
  <2> QED BY <2>1 DEF Held
<1> QED BY <1>3, TaskTaken, PostNothing

\* What is common to these tasks: r and p are the records of the connection and of its
\* protocol after the step, again the attempts that are put off.
Releases(c, r, p, again) ==
    /\ UNCHANGED <<kind, reading, writing, armed, expired, owner, full, autoSend, toAdd, poolHeld, io>>
    /\ conn' = [conn EXCEPT ![c] = r] /\ proto' = [proto EXCEPT ![c] = p]
    /\ retries' = retries \cup again
    /\ Ends
    /\ Post(Tail(tasks))
    /\ r \in ConnRecord /\ r.refs = conn[c].refs /\ r.receivedFirst = conn[c].receivedFirst
    /\ p \in ProtoRecord /\ p.served = proto[c].served
    /\ p.buffer \in {proto[c].buffer, None}
    /\ p.life = proto[c].life \/ conn[c].refs = 0
    /\ r.state # "OPEN"
    /\ r.stop \/ ~ r.listed => conn[c].stop \/ ~ conn[c].listed \/ conn[c].refs = 0
    /\ r.socket = "open" => conn[c].socket = "open" /\ r.pendingWrite = conn[c].pendingWrite
    /\ again \subseteq {Finish(c), Forget(c)}
    /\ io.conn # c

LEMMA ReleaseStep ==
  ASSUME Inv, NEW c \in Conns, NEW r, NEW p, NEW again, Releases(c, r, p, again),
         disp.msg = None, tasks # <<>>, Task \in {Close(c), Finish(c), Forget(c)},
         again \cap (Pending \ {Task}) = {},
         tasks' \in Seq(Tasks) /\ Distinct(tasks') /\ ToSet(tasks') = ToSet(tasks) \ {Task}
            => Closing(c)'
  PROVE  Inv'
<1>0. Types /\ TaskInv /\ MsgInv /\ ConnInv /\ CountInv /\ OrderInv
  BY DEF Inv
<1>1. /\ UNCHANGED <<kind, reading, writing, armed, expired, owner, full, autoSend, toAdd, poolHeld, io>>
      /\ retries' = retries \cup again
      /\ conn' \in [Conns -> ConnRecord] /\ conn'[c] = r /\ \A d \in Conns \ {c} : conn'[d] = conn[d]
      /\ proto' \in [Conns -> ProtoRecord] /\ proto'[c] = p /\ \A d \in Conns \ {c} : proto'[d] = proto[d]
  BY <1>0 DEF Releases, Types
<1>2. Closing(c) /\ Writes(c) /\ First(c)
  BY <1>0 DEF ConnInv
<1>3. \A d \in Conns : proto'[d].buffer \in {proto[d].buffer, None}
  BY <1>1 DEF Releases
<1>4. tasks' \in Seq(Tasks) /\ Distinct(tasks') /\ ToSet(tasks') = ToSet(tasks) \ {Task}
  BY <1>0, <1>1, <1>3, ReleaseTasks DEF Releases
<1>5. DispTypes' /\ disp'.msg = None
  BY EndsTypes DEF Releases
<1>6. again \subseteq Tasks /\ again \subseteq {Finish(c), Forget(c)}
  BY TaskNames DEF Releases
<1>7. Types'
  BY <1>0, <1>1, <1>4, <1>5, <1>6 DEF Types, IoTypes
<1>8. TaskInv'
  <2>1. ToSet(tasks') \cap retries' = {}
    BY <1>0, <1>1, <1>4 DEF TaskInv, Pending
  <2>2. \A t \in retries' : \E d \in Conns : t \in {Finish(d), Forget(d)}
    BY <1>0, <1>1, <1>6 DEF TaskInv
  <2> QED BY <1>4, <2>1, <2>2 DEF TaskInv
<1>9. \A d \in Conns \ {c} : \A t \in {Close(d), Finish(d), Forget(d)} : t \in Pending' => t \in Pending
  BY <1>1, <1>4, <1>6, TaskNames DEF Pending
<1>10. MsgInv'
  <2>1. \A m \in Msgs : Return(m) \in ToSet(tasks') => Return(m) \in ToSet(tasks)
    BY <1>4
  <2> QED BY <1>0, <1>1, <1>3, <1>5, <2>1, SameMessages
<1>11. \A d \in Conns : Owned(d)' = Owned(d)
  BY <1>1 DEF Owned
<1>12. ConnInv'
  <2>1. Writes(c)'
    BY <1>1, <1>2 DEF Writes, Releases
  <2>2. First(c)'
    BY <1>1, <1>2, <1>11 DEF First, Releases
  <2> QED BY <1>0, <1>1, <1>2, <1>4, <1>9, <1>11, <2>1, <2>2, OneConn
<1>13. CountInv'
  <2>1. ASSUME Steady(c) PROVE Counted(c)'
    <3>1. Counted(c) /\ IsFiniteSet(Owned(c))
      BY <1>0, <2>1, NetworkAssumption, FS_Subset DEF CountInv, Owned, NetworkAssumption
    <3>2. conn[c].refs = 0 => Owned(c) = {}
      BY <3>1, FS_EmptySet DEF Counted
    <3> QED BY <1>1, <1>5, <1>11, <3>1, <3>2 DEF Counted, Releases
  <2> QED BY <1>0, <1>1, <1>5, <1>11, <2>1, OneCount
<1>14. OrderInv'
  <2>1. \A d \in Conns : SameOrder(d)
    BY <1>1, <1>3 DEF SameOrder, Releases
  <2> QED BY <1>0, <1>1, <2>1, SameOrders DEF Waiting
<1> QED BY <1>7, <1>8, <1>10, <1>12, <1>13, <1>14 DEF Inv

LEMMA ReleaseProtocolFields ==
  ASSUME NEW p \in ProtoRecord, NEW refs
  PROVE  LET q == ReleaseProtocol(p, refs)
         IN  /\ q \in ProtoRecord /\ q.served = p.served /\ q.buffer \in {p.buffer, None}
             /\ q.life = p.life \/ refs = 0
             /\ q.linked => p.linked /\ q.life = p.life
<1>1. CASE refs = 0
  <2> DEFINE a == [p EXCEPT !.life = "deleted"]
             b == [a EXCEPT !.linked = FALSE]
             q == [b EXCEPT !.buffer = None]
  <2>1. a \in ProtoRecord /\ a.served = p.served /\ a.buffer = p.buffer
    BY DEF ProtoRecord
  <2> HIDE DEF a
  <2>2. b \in ProtoRecord /\ b.served = p.served /\ b.buffer = p.buffer /\ ~ b.linked
    BY <2>1 DEF ProtoRecord
  <2> HIDE DEF b
  <2>3. q \in ProtoRecord /\ q.served = p.served /\ q.buffer = None /\ ~ q.linked
    BY <2>2 DEF ProtoRecord
  <2>4. ReleaseProtocol(p, refs) = q
    BY <1>1 DEF ReleaseProtocol, a, b
  <2> QED BY <1>1, <2>3, <2>4
<1>2. CASE refs # 0
  BY <1>2 DEF ReleaseProtocol
<1> QED BY <1>1, <1>2

LEMMA ReleaseConnectionFields ==
  ASSUME NEW c \in Conns, expired[c] \in SUBSET Timers, NEW r \in ConnRecord
  PROVE  LET s == ReleaseConnection(c, r)
         IN  /\ s \in ConnRecord /\ s.refs = r.refs /\ s.receivedFirst = r.receivedFirst
             /\ s.protocol = r.protocol /\ s.state = r.state /\ s.socket = r.socket
             /\ s.listed = r.listed /\ s.pendingWrite = r.pendingWrite
             /\ s.stop = (r.stop \/ r.refs = 0)
             /\ r.refs = 0 /\ reading[c] # "none" => "operation" \in s.ahead
             /\ r.refs # 0 => s.ahead = r.ahead
<1>1. CASE r.refs = 0
  <2> DEFINE x == expired[c] \cup IF reading[c] = "none" THEN {} ELSE {"operation"}
             a == [r EXCEPT !.stop = TRUE]
             s == [a EXCEPT !.ahead = x]
  <2>1. x \in SUBSET (Timers \cup {"operation"}) /\ (reading[c] # "none" => "operation" \in x)
    OBVIOUS
  <2>2. /\ a \in ConnRecord /\ a.refs = r.refs /\ a.receivedFirst = r.receivedFirst
        /\ a.protocol = r.protocol /\ a.state = r.state /\ a.socket = r.socket
        /\ a.listed = r.listed /\ a.pendingWrite = r.pendingWrite /\ a.stop = TRUE
    BY DEF ConnRecord
  <2> HIDE DEF a, x
  <2>3. /\ s \in ConnRecord /\ s.refs = r.refs /\ s.receivedFirst = r.receivedFirst
        /\ s.protocol = r.protocol /\ s.state = r.state /\ s.socket = r.socket
        /\ s.listed = r.listed /\ s.pendingWrite = r.pendingWrite /\ s.stop = TRUE /\ s.ahead = x
    BY <2>1, <2>2 DEF ConnRecord
  <2>4. ReleaseConnection(c, r) = s
    BY <1>1 DEF ReleaseConnection, a, x
  <2> HIDE DEF s
  <2> QED BY <1>1, <2>1, <2>3, <2>4
<1>2. CASE r.refs # 0
  <2>1. r.stop \in BOOLEAN
    BY DEF ConnRecord
  <2> QED BY <1>2, <2>1 DEF ReleaseConnection
<1> QED BY <1>1, <1>2

LEMMA StepReleaseConnection ==
  ASSUME Inv, releaseConnection
  PROVE  Inv'
<1>0. Types /\ TaskInv /\ MsgInv /\ ConnInv /\ CountInv /\ OrderInv
  BY DEF Inv
<1>1. /\ disp.at = "idle" /\ tasks # <<>> /\ Task.run = "releaseConnection"
      /\ UNCHANGED <<kind, proto, reading, writing, armed, expired, owner, full, autoSend, toAdd,
                     poolHeld, io>>
      /\ Ends /\ Post(Tail(tasks))
  BY DEF releaseConnection, Starts, ioVars, poolVars
<1>2. Task \in Tasks /\ Task \in Pending /\ Task \notin retries
  BY <1>0, <1>1, TaskTaken
<1>c. PICK c \in Conns : c = Task.conn /\ Task = Finish(c)
  BY <1>1, <1>2, TaskKinds
<1> DEFINE r == ReleaseConnection(c, conn[c])
           p == proto[c]
           again == Retry("releaseConnection", c, conn[c].refs)
<1>3. conn' = [conn EXCEPT ![c] = r] /\ retries' = retries \cup again /\ proto' = [proto EXCEPT ![c] = p]
  BY <1>0, <1>1, <1>c DEF releaseConnection, Types
<1>4. /\ Closing(c) /\ conn[c] \in ConnRecord /\ proto[c] \in ProtoRecord /\ expired[c] \in SUBSET Timers
      /\ conn[c].state = "CLOSED" /\ ~ conn[c].stop /\ conn[c].listed /\ conn[c].refs \in Nat
      /\ ~ proto[c].linked
  BY <1>0, <1>2, <1>c DEF ConnInv, Types, Closing, ConnRecord
<1>5. io.conn # c
  BY <1>0, <1>4 DEF ConnInv, First
<1>6. /\ r \in ConnRecord /\ r.refs = conn[c].refs /\ r.receivedFirst = conn[c].receivedFirst
      /\ r.protocol = conn[c].protocol /\ r.state = conn[c].state /\ r.socket = conn[c].socket
      /\ r.listed = conn[c].listed /\ r.pendingWrite = conn[c].pendingWrite
      /\ r.stop = (conn[c].refs = 0)
      /\ conn[c].refs = 0 /\ reading[c] # "none" => "operation" \in r.ahead
  BY <1>4, ReleaseConnectionFields
<1>7. /\ again \subseteq {Finish(c)} /\ (Finish(c) \in again => conn[c].refs # 0)
  BY <1>4 DEF Retry, Finish
<1> HIDE DEF r, again
<1>8. Releases(c, r, p, again)
  BY <1>1, <1>3, <1>4, <1>5, <1>6, <1>7 DEF Releases
<1>9. again \cap (Pending \ {Task}) = {} /\ disp.msg = None
  BY <1>0, <1>1, <1>c, <1>7 DEF Types, DispTypes
<1>10. ASSUME ToSet(tasks') = ToSet(tasks) \ {Task} PROVE Closing(c)'
  <2>1. conn'[c] = r /\ proto'[c] = proto[c] /\ reading'[c] = reading[c]
    BY <1>0, <1>1, <1>3 DEF Types
  <2>2. /\ Close(c) \in Pending' => Close(c) \in Pending
        /\ Forget(c) \in Pending' => Forget(c) \in Pending
    BY <1>3, <1>7, <1>10, TaskNames DEF Pending
  <2>3. Finish(c) \in Pending' => conn[c].refs # 0
    BY <1>2, <1>3, <1>c, <1>7, <1>10 DEF Pending
  <2> QED BY <1>4, <1>6, <2>1, <2>2, <2>3 DEF Closing
<1> QED BY <1>1, <1>8, <1>9, <1>10, <1>c, ReleaseStep

LEMMA StepReleaseProtocol ==
  ASSUME Inv, releaseProtocol
  PROVE  Inv'
<1>0. Types /\ TaskInv /\ MsgInv /\ ConnInv /\ CountInv /\ OrderInv
  BY DEF Inv
<1>1. /\ disp.at = "idle" /\ tasks # <<>> /\ Task.run = "releaseProtocol"
      /\ UNCHANGED <<kind, conn, reading, writing, armed, expired, owner, full, autoSend, toAdd,
                     poolHeld, io>>
      /\ Ends /\ Post(Tail(tasks))
  BY DEF releaseProtocol, Starts, ioVars, poolVars
<1>2. Task \in Tasks /\ Task \in Pending /\ Task \notin retries
  BY <1>0, <1>1, TaskTaken
<1>c. PICK c \in Conns : c = Task.conn /\ Task = Forget(c)
  BY <1>1, <1>2, TaskKinds
<1> DEFINE r == conn[c]
           p == ReleaseProtocol(proto[c], conn[c].refs)
           again == Retry("releaseProtocol", c, conn[c].refs)
<1>3. conn' = [conn EXCEPT ![c] = r] /\ retries' = retries \cup again /\ proto' = [proto EXCEPT ![c] = p]
  BY <1>0, <1>1, <1>c DEF releaseProtocol, Types
<1>4. /\ Closing(c) /\ conn[c] \in ConnRecord /\ proto[c] \in ProtoRecord
      /\ ~ proto[c].linked /\ conn[c].state # "OPEN"
  BY <1>0, <1>2, <1>c DEF ConnInv, Types, Closing
<1>5. io.conn # c
  BY <1>0, <1>4 DEF ConnInv, First
<1>6. /\ p \in ProtoRecord /\ p.served = proto[c].served /\ p.buffer \in {proto[c].buffer, None}
      /\ p.life = proto[c].life \/ conn[c].refs = 0
      /\ ~ p.linked /\ p.linked \in BOOLEAN
  <2>1. p \in ProtoRecord /\ (p.linked => proto[c].linked)
    BY <1>4, ReleaseProtocolFields
  <2> QED BY <1>4, <2>1, ReleaseProtocolFields DEF ProtoRecord
<1>7. again \subseteq {Forget(c)}
  BY DEF Retry, Forget
<1> HIDE DEF p, again
<1>8. Releases(c, r, p, again)
  BY <1>1, <1>3, <1>4, <1>5, <1>6, <1>7 DEF Releases
<1>9. again \cap (Pending \ {Task}) = {} /\ disp.msg = None
  BY <1>0, <1>1, <1>c, <1>7 DEF Types, DispTypes
<1>10. ASSUME ToSet(tasks') = ToSet(tasks) \ {Task} PROVE Closing(c)'
  <2>1. conn'[c] = conn[c] /\ proto'[c] = p /\ reading'[c] = reading[c]
    BY <1>0, <1>1, <1>3 DEF Types
  <2>2. /\ Close(c) \in Pending' => Close(c) \in Pending
        /\ Finish(c) \in Pending' => Finish(c) \in Pending
    BY <1>3, <1>7, <1>10, TaskNames DEF Pending
  <2>3. proto'[c].linked = FALSE /\ conn'[c].state # "OPEN" /\ conn[c].protocol = FALSE
    <3>1. conn[c].protocol \in BOOLEAN
      BY <1>4 DEF ConnRecord
    <3> QED BY <1>4, <1>6, <2>1, <3>1 DEF Closing
  <2> QED BY <1>4, <2>1, <2>2, <2>3 DEF Closing
<1> QED BY <1>1, <1>8, <1>9, <1>10, <1>c, ReleaseStep

LEMMA StepCloseConnectionTask ==
  ASSUME Inv, closeConnectionTask
  PROVE  Inv'
<1>0. Types /\ TaskInv /\ MsgInv /\ ConnInv /\ CountInv /\ OrderInv
  BY DEF Inv
<1>1. /\ disp.at = "idle" /\ tasks # <<>> /\ Task.run = "close"
      /\ UNCHANGED <<kind, reading, writing, armed, expired, owner, full, autoSend, toAdd,
                     poolHeld, io>>
      /\ Ends /\ Post(Tail(tasks))
  BY DEF closeConnectionTask, Starts, ioVars, poolVars
<1>2. Task \in Tasks /\ Task \in Pending /\ Task \notin retries
  BY <1>0, <1>1, TaskTaken
<1>c. PICK c \in Conns : c = Task.conn /\ Task = Close(c)
  BY <1>1, <1>2, TaskKinds
<1>4. /\ Closing(c) /\ conn[c] \in ConnRecord /\ proto[c] \in ProtoRecord /\ expired[c] \in SUBSET Timers
      /\ conn[c].state = "REQUEST_CLOSE" /\ conn[c].refs \in Nat /\ conn[c].protocol \in BOOLEAN
      /\ proto[c].linked \in BOOLEAN /\ conn[c].stop = FALSE /\ conn[c].listed
      /\ Finish(c) \notin Pending
  <2>1. /\ Closing(c) /\ conn[c] \in ConnRecord /\ proto[c] \in ProtoRecord /\ expired[c] \in SUBSET Timers
        /\ conn[c].state = "REQUEST_CLOSE"
    BY <1>0, <1>2, <1>c DEF ConnInv, Types, Closing
  <2>2. conn[c].refs \in Nat /\ conn[c].protocol \in BOOLEAN /\ proto[c].linked \in BOOLEAN
        /\ conn[c].stop \in BOOLEAN
    BY <2>1 DEF ConnRecord, ProtoRecord
  <2> QED BY <2>1, <2>2 DEF Closing
<1>5. io.conn # c
  BY <1>0, <1>4 DEF ConnInv, First
<1> DEFINE had == conn[c].protocol
           a == [conn[c] EXCEPT !.protocol = FALSE]
           now == ClosesNow(a)
           x == closeSocket(a)
           y == ReleaseConnection(c, x)
           r == IF now THEN [y EXCEPT !.state = "CLOSED"] ELSE [a EXCEPT !.state = "CLOSING"]
           q == [proto[c] EXCEPT !.linked = FALSE]
           p == IF had THEN ReleaseProtocol(q, a.refs) ELSE proto[c]
           again == (IF had THEN Retry("releaseProtocol", c, a.refs) ELSE {})
                    \cup (IF now THEN Retry("releaseConnection", c, a.refs) ELSE {})
<1>6. /\ a \in ConnRecord /\ a.refs = conn[c].refs /\ a.receivedFirst = conn[c].receivedFirst
      /\ a.protocol = FALSE /\ a.state = conn[c].state /\ a.socket = conn[c].socket
      /\ a.listed = conn[c].listed /\ a.pendingWrite = conn[c].pendingWrite
      /\ a.stop = conn[c].stop /\ a.ahead = conn[c].ahead
  BY <1>4 DEF ConnRecord
<1>3. conn' = [conn EXCEPT ![c] = r] /\ retries' = retries \cup again /\ proto' = [proto EXCEPT ![c] = p]
  <2>1. /\ proto' = IF had THEN [proto EXCEPT ![c] = ReleaseProtocol(q, a.refs)] ELSE proto
        /\ conn' = [conn EXCEPT ![c] = r]
        /\ retries' = retries \cup (IF had THEN Retry("releaseProtocol", c, a.refs) ELSE {})
                              \cup (IF now THEN Retry("releaseConnection", c, a.refs) ELSE {})
    <3>1. a.state = "REQUEST_CLOSE"
      BY <1>4, <1>6
    <3> QED BY <1>0, <1>c, <3>1 DEF closeConnectionTask, Types
  <2> HIDE DEF r
  <2>2. proto' = [proto EXCEPT ![c] = p]
    <3>1. CASE had
      BY <2>1, <3>1
    <3>2. CASE ~ had
      <4>1. p = proto[c] /\ proto' = proto
        BY <2>1, <3>2
      <4> HIDE DEF p
      <4> QED BY <1>0, <4>1 DEF Types
    <3> QED BY <3>1, <3>2
  <2> QED BY <2>1, <2>2
<1> HIDE DEF a
<1>7. /\ x \in ConnRecord /\ Kept(x, a) /\ x.ahead = a.ahead /\ x.state = a.state
      /\ x.socket = IF a.socket = "open" THEN "closed" ELSE a.socket
  BY <1>6, SocketFields
<1> HIDE DEF x
<1>8. /\ y \in ConnRecord /\ y.refs = x.refs /\ y.receivedFirst = x.receivedFirst
      /\ y.protocol = x.protocol /\ y.socket = x.socket /\ y.listed = x.listed
      /\ y.stop = (x.stop \/ x.refs = 0)
      /\ x.refs = 0 /\ reading[c] # "none" => "operation" \in y.ahead
  BY <1>4, <1>7, ReleaseConnectionFields
<1> HIDE DEF y
<1>9. /\ r \in ConnRecord /\ r.refs = conn[c].refs /\ r.receivedFirst = conn[c].receivedFirst
      /\ r.protocol = FALSE /\ r.listed = conn[c].listed
      /\ now => /\ r.state = "CLOSED" /\ r.socket = (IF conn[c].socket = "open" THEN "closed" ELSE conn[c].socket)
                /\ r.stop = (conn[c].refs = 0)
                /\ conn[c].refs = 0 /\ reading[c] # "none" => "operation" \in r.ahead
      /\ ~ now => /\ r.state = "CLOSING" /\ r.socket = conn[c].socket /\ r.stop = FALSE
                  /\ r.pendingWrite = conn[c].pendingWrite
  <2>1. CASE now
    <3>1. r = [y EXCEPT !.state = "CLOSED"]
      BY <2>1
    <3> HIDE DEF r
    <3>2. /\ r \in ConnRecord /\ r.state = "CLOSED" /\ r.refs = y.refs /\ r.receivedFirst = y.receivedFirst
          /\ r.protocol = y.protocol /\ r.socket = y.socket /\ r.listed = y.listed /\ r.stop = y.stop
          /\ r.ahead = y.ahead
      BY <1>8, <3>1 DEF ConnRecord, States
    <3> QED BY <1>4, <1>6, <1>7, <1>8, <2>1, <3>2 DEF Kept
  <2>2. CASE ~ now
    <3>1. r = [a EXCEPT !.state = "CLOSING"]
      BY <2>2
    <3> HIDE DEF r
    <3> QED BY <1>4, <1>6, <2>2, <3>1 DEF ConnRecord, States
  <2> QED BY <2>1, <2>2
<1>10. /\ p \in ProtoRecord /\ p.served = proto[c].served /\ p.buffer \in {proto[c].buffer, None}
       /\ p.life = proto[c].life \/ conn[c].refs = 0
       /\ p.linked = FALSE
  <2>1. CASE had
    <3>1. q \in ProtoRecord /\ q.served = proto[c].served /\ q.buffer = proto[c].buffer
          /\ q.life = proto[c].life /\ ~ q.linked
      BY <1>4 DEF ProtoRecord
    <3> DEFINE z == ReleaseProtocol(q, a.refs)
    <3>2. /\ z \in ProtoRecord /\ z.served = q.served /\ z.buffer \in {q.buffer, None}
          /\ z.life = q.life \/ a.refs = 0
          /\ z.linked => q.linked
      BY <3>1, ReleaseProtocolFields
    <3>3. p = z
      BY <2>1
    <3> HIDE DEF z, p, q
    <3>4. z.linked \in BOOLEAN
      BY <3>2 DEF ProtoRecord
    <3> QED BY <1>6, <3>1, <3>2, <3>3, <3>4
  <2>2. CASE ~ had
    <3>1. proto[c].linked = FALSE
      BY <1>4, <2>2 DEF Closing
    <3> QED BY <1>4, <2>2, <3>1
  <2> QED BY <2>1, <2>2
<1>11. /\ again \subseteq {Finish(c), Forget(c)}
       /\ Finish(c) \in again => now /\ conn[c].refs # 0
       /\ Forget(c) \in again => had
  <2>1. /\ Retry("releaseProtocol", c, a.refs) \subseteq {Forget(c)}
        /\ Retry("releaseConnection", c, a.refs) \subseteq {Finish(c)}
        /\ Finish(c) \in Retry("releaseConnection", c, a.refs) => conn[c].refs # 0
    BY <1>4, <1>6 DEF Retry, Finish, Forget
  <2> QED BY <2>1, TaskNames
<1> HIDE DEF r, p, again, now
<1>12. Releases(c, r, p, again)
  <2>1. r.state # "OPEN"
    BY <1>9
  <2>2. r.stop \/ ~ r.listed => conn[c].stop \/ ~ conn[c].listed \/ conn[c].refs = 0
    BY <1>4, <1>9
  <2>3. r.socket = "open" => conn[c].socket = "open" /\ r.pendingWrite = conn[c].pendingWrite
    BY <1>9
  <2> QED BY <1>1, <1>3, <1>5, <1>9, <1>10, <1>11, <2>1, <2>2, <2>3 DEF Releases
<1>13. again \cap (Pending \ {Task}) = {} /\ disp.msg = None
  <2>1. disp.msg = None
    BY <1>0, <1>1 DEF Types, DispTypes
  <2>2. Finish(c) \notin Pending /\ (had => Forget(c) \notin Pending)
    BY <1>4 DEF Closing
  <2> QED BY <1>11, <2>1, <2>2
<1>14. ASSUME ToSet(tasks') = ToSet(tasks) \ {Task} PROVE Closing(c)'
  <2>1. conn'[c] = r /\ proto'[c] = p /\ reading'[c] = reading[c]
    BY <1>0, <1>1, <1>3 DEF Types
  <2>2. Close(c) \notin Pending'
    BY <1>2, <1>c, <1>3, <1>11, <1>14, TaskNames DEF Pending
  <2>3. Finish(c) \in Pending' => now /\ conn[c].refs # 0
    BY <1>3, <1>4, <1>11, <1>14 DEF Pending
  <2>4. r.socket # "deleted" /\ r.listed
    BY <1>4, <1>9 DEF Closing
  <2>5. r.state \in {"CLOSED", "CLOSING"} /\ (r.stop => now) /\ (now => r.state = "CLOSED")
        /\ (r.stop /\ reading[c] # "none" => "operation" \in r.ahead)
        /\ (now /\ conn[c].refs # 0 => ~ r.stop)
    BY <1>9
  <2> QED BY <1>9, <1>10, <2>1, <2>2, <2>3, <2>4, <2>5 DEF Closing
<1> QED BY <1>1, <1>12, <1>13, <1>14, <1>c, ReleaseStep

LEMMA StepSendAll ==
  ASSUME Inv, SendAll
  PROVE  Inv'
<1>0. Types /\ TaskInv /\ MsgInv /\ ConnInv /\ CountInv /\ OrderInv
  BY DEF Inv
<1>1. PICK young \in Selections(toAdd) :
         LET kept == [i \in DOMAIN young |-> toAdd[young[i]]]
             old == ToSet(toAdd) \ ToSet(kept)
         IN  /\ autoSend' = autoSend \o kept
             /\ toAdd' = <<>>
             /\ proto' = [c \in Conns |->
                             [proto[c] EXCEPT !.buffer = IF @ \in old THEN None ELSE @]]
  BY DEF SendAll
<1> DEFINE kept == [i \in DOMAIN young |-> toAdd[young[i]]]
           old == ToSet(toAdd) \ ToSet(kept)
<1>2. /\ autoSend' = autoSend \o kept /\ toAdd' = <<>>
      /\ proto' = [c \in Conns |-> [proto[c] EXCEPT !.buffer = IF @ \in old THEN None ELSE @]]
      /\ disp.at = "end"
      /\ poolHeld' \in BOOLEAN
      /\ disp' = IF autoSend' = <<>> THEN DispIdle ELSE [DispIdle EXCEPT !.at = "sendAll", !.pos = 1]
      /\ UNCHANGED <<kind, conn, reading, writing, armed, expired, owner, full, io, retries>>
      /\ Post(tasks)
  BY <1>1 DEF SendAll, ioVars
<1>3. kept \in Seq(Msgs) /\ Distinct(kept) /\ ToSet(kept) \subseteq ToSet(toAdd)
  BY <1>0, SetOfSelection DEF Types, MsgInv
<1> HIDE DEF kept
<1>4. old \subseteq ToSet(toAdd) /\ ToSet(toAdd) = ToSet(kept) \cup old /\ ToSet(kept) \cap old = {}
  BY <1>3
<1> HIDE DEF old
<1>5. /\ autoSend' \in Seq(Msgs) /\ Distinct(autoSend') /\ ToSet(autoSend') = ToSet(autoSend) \cup ToSet(kept)
  BY <1>0, <1>2, <1>3, SetOfConcat DEF Types, MsgInv
<1>6. toAdd' \in Seq(Msgs) /\ Distinct(toAdd') /\ ToSet(toAdd') = {}
  BY <1>2, SetOfOne
<1>7. Waiting \subseteq Msgs /\ Waiting' = Waiting \ old /\ old \subseteq Waiting
  <2>1. ToSet(autoSend) \cap ToSet(toAdd) = {} /\ Waiting \subseteq Msgs
    BY <1>0, WaitingSet DEF MsgInv
  <2>2. Waiting' = ToSet(autoSend) \cup ToSet(kept)
    BY <1>5, <1>6 DEF Waiting
  <2>3. Waiting = ToSet(autoSend) \cup ToSet(kept) \cup old
    BY <1>4 DEF Waiting
  <2> QED BY <1>4, <2>1, <2>2, <2>3
<1>8. /\ proto' \in [Conns -> ProtoRecord]
      /\ \A c \in Conns : /\ proto'[c].linked = proto[c].linked /\ proto'[c].life = proto[c].life
                          /\ proto'[c].served = proto[c].served
                          /\ proto'[c].buffer = IF proto[c].buffer \in old THEN None ELSE proto[c].buffer
  <2>1. ASSUME NEW c \in Conns
        PROVE  /\ proto'[c] \in ProtoRecord
               /\ proto'[c].linked = proto[c].linked /\ proto'[c].life = proto[c].life
               /\ proto'[c].served = proto[c].served
               /\ proto'[c].buffer = IF proto[c].buffer \in old THEN None ELSE proto[c].buffer
    <3>1. proto[c] \in ProtoRecord
      BY <1>0 DEF Types
    <3>2. proto'[c] = [proto[c] EXCEPT !.buffer = IF proto[c].buffer \in old THEN None ELSE proto[c].buffer]
      BY <1>2, <3>1 DEF ProtoRecord
    <3> DEFINE b == IF proto[c].buffer \in old THEN None ELSE proto[c].buffer
    <3>3. b \in Msgs \cup {None}
      BY <3>1 DEF ProtoRecord
    <3>4. proto'[c] = [proto[c] EXCEPT !.buffer = b]
      BY <3>2
    <3> HIDE DEF b
    <3>5. /\ proto'[c] \in ProtoRecord
          /\ proto'[c].linked = proto[c].linked /\ proto'[c].life = proto[c].life
          /\ proto'[c].served = proto[c].served /\ proto'[c].buffer = b
      BY <3>1, <3>3, <3>4 DEF ProtoRecord
    <3> QED BY <3>5 DEF b
  <2>2. proto' = [c \in Conns |-> proto'[c]]
    BY <1>2
  <2> QED BY <2>1, <2>2
<1>9. \A c \in Conns : proto'[c].buffer # None =>
         proto'[c].buffer \in Waiting' /\ owner'[proto'[c].buffer] = c
  BY <1>0, <1>2, <1>7, <1>8 DEF MsgInv
<1>10. \A k \in Msgs : k \in Held' <=> k \in Held /\ k \notin old
  <2>1. HeldIn /\ HeldIn'
    BY <1>0, <1>9, WhoHolds, WhoHoldsNext DEF MsgInv
  <2>2. \A k \in old : k # io.msg /\ \A c \in Conns : k \notin writing[c]
    BY <1>0, <1>7, NetworkAssumption DEF MsgInv, NetworkAssumption
  <2> QED BY <1>2, <1>7, <2>1, <2>2 DEF HeldIn
<1>11. Held \ Held' = old
  <2>1. Held \subseteq Msgs /\ Held' \subseteq Msgs /\ old \subseteq Held
    BY <1>7 DEF Held
  <2> QED BY <1>10, <2>1
<1>12. tasks' \in Seq(Tasks) /\ Distinct(tasks') /\ ToSet(tasks') = ToSet(tasks) \cup {Return(m) : m \in old}
  <2>1. \A m \in old : Return(m) \notin ToSet(tasks)
    BY <1>0, <1>7 DEF MsgInv, Held
  <2>2. old \in SUBSET Msgs /\ tasks \in Seq(Tasks) /\ Distinct(tasks) /\ Post(tasks)
    BY <1>0, <1>2, <1>7 DEF Types, TaskInv
  <2> QED BY <1>11, <2>1, <2>2, PostTasks
<1>13. DispTypes' /\ disp.msg = None /\ disp'.msg = None
  <2>1. disp.msg = None
    BY <1>0, <1>2 DEF Types, DispTypes
  <2>2. CASE autoSend' = <<>>
    BY <1>2, <2>1, <2>2 DEF DispIdle, DispTypes
  <2>3. CASE autoSend' # <<>>
    <3>1. disp' = [at |-> "sendAll", pos |-> 1, msg |-> None, read |-> 0]
      BY <1>2, <2>3 DEF DispIdle
    <3>2. 1 \in DOMAIN autoSend'
      BY <1>5, <2>3
    <3> QED BY <2>1, <3>1, <3>2 DEF DispTypes
  <2> QED BY <2>2, <2>3
<1>14. Types'
  BY <1>0, <1>2, <1>5, <1>6, <1>8, <1>12, <1>13 DEF Types, IoTypes
<1>15. TaskInv'
  <2>1. \A m : Return(m) \notin retries
    BY <1>0, TaskNames DEF TaskInv
  <2> QED BY <1>0, <1>2, <1>12, <2>1 DEF TaskInv
<1>16. /\ \A k : Return(k) \in ToSet(tasks') => Return(k) \in ToSet(tasks) \/ k \in old
       /\ \A d \in Conns : \A t \in {Close(d), Finish(d), Forget(d)} : t \in Pending' => t \in Pending
  BY <1>2, <1>12, TaskNames DEF Pending
<1>17. MsgInv'
  <2>1. Distinct(autoSend') /\ Distinct(toAdd') /\ ToSet(autoSend') \cap ToSet(toAdd') = {}
    BY <1>5, <1>6
  <2>2. \A k \in Waiting' : owner'[k] # None
    BY <1>0, <1>2, <1>7 DEF MsgInv
  <2>3. \A d \in Conns : \A k \in writing'[d] : owner'[k] = d /\ k \notin Waiting'
    BY <1>0, <1>2, <1>7 DEF MsgInv
  <2>4. io.msg # None =>
          /\ io.msg \notin Waiting' /\ \A d \in Conns : io.msg \notin writing[d]
          /\ owner'[io.msg] = IF io.step = "count" THEN None ELSE io.conn
    BY <1>0, <1>2, <1>7 DEF MsgInv
  <2>5. \A k \in Msgs : Return(k) \in ToSet(tasks') => owner'[k] # None /\ k \notin Held'
    BY <1>0, <1>2, <1>7, <1>10, <1>16 DEF MsgInv
  <2> QED BY <1>2, <1>9, <1>13, <2>1, <2>2, <2>3, <2>4, <2>5 DEF MsgInv
<1>18. \A d \in Conns : Owned(d)' = Owned(d)
  BY <1>2 DEF Owned
<1>19. ConnInv'
  <2> SUFFICES ASSUME NEW d \in Conns PROVE Closing(d)' /\ Writes(d)' /\ First(d)'
    BY DEF ConnInv
  <2>1. Closing(d) /\ Writes(d) /\ First(d)
    BY <1>0 DEF ConnInv
  <2> QED BY <1>2, <1>8, <1>16, <1>18, <2>1, OtherConn
<1>20. CountInv'
  <2> SUFFICES ASSUME NEW d \in Conns, Steady(d) PROVE Counted(d)'
    BY <1>2 DEF CountInv, Steady
  <2>1. Counted(d)
    BY <1>0 DEF CountInv
  <2> QED BY <1>2, <1>8, <1>13, <1>18, <2>1, SameCount
<1>21. OrderInv'
  <2> SUFFICES ASSUME NEW d \in Conns
               PROVE  /\ kind[d] # "game" => proto'[d].buffer = None
                      /\ Steady(d) /\ conn[d].state = "OPEN" =>
                            \A k \in Waiting' : owner[k] = d => k = proto'[d].buffer \/ k \in full
    BY <1>2 DEF OrderInv, Steady
  <2>1. /\ kind[d] # "game" => proto[d].buffer = None
        /\ Steady(d) /\ conn[d].state = "OPEN" =>
              \A k \in Waiting : owner[k] = d => k = proto[d].buffer \/ k \in full
    BY <1>0 DEF OrderInv
  <2> QED BY <1>7, <1>8, <2>1
<1> QED BY <1>14, <1>15, <1>17, <1>19, <1>20, <1>21 DEF Inv

-----------------------------------------------------------------------------
(* The invariant.                                                          *)

LEMMA InitInv == Init => Inv
<1> SUFFICES ASSUME Init PROVE Inv
  OBVIOUS
<1>1. \A c \in Conns : Accepted(kind[c]) \in ConnRecord
  BY DEF Init, Accepted, ConnRecord, States, Timers
<1>2. /\ conn \in [Conns -> ConnRecord]
      /\ \A c \in Conns : conn[c] = Accepted(kind[c])
  BY <1>1 DEF Init
<1>3. /\ proto \in [Conns -> ProtoRecord]
      /\ \A c \in Conns : /\ proto[c].buffer = None /\ ~ proto[c].served
                          /\ proto[c].linked = (kind[c] = "game")
                          /\ kind[c] = "game" => proto[c].life = "live"
  <2>1. /\ proto \in [Conns -> ProtoRecord]
    BY DEF Init, ProtoRecord
  <2>2. ASSUME NEW c \in Conns
        PROVE  /\ proto[c].buffer = None /\ ~ proto[c].served
               /\ proto[c].linked = (kind[c] = "game")
               /\ kind[c] = "game" => proto[c].life = "live"
    BY DEF Init
  <2> QED BY <2>1, <2>2
<1>4. /\ tasks = <<>> /\ retries = {} /\ autoSend = <<>> /\ toAdd = <<>>
      /\ ToSet(tasks) = {} /\ Waiting = {} /\ Pending = {} /\ Distinct(<<>>)
      /\ \A S : <<>> \in Seq(S)
  BY SetOfOne DEF Init, Waiting, Pending
<1>5. io = ParseIdle /\ disp = DispIdle
  BY DEF Init
<1>6. Types
  <2>1. IoTypes /\ DispTypes
    BY <1>5 DEF IoTypes, DispTypes, ParseIdle, DispIdle
  <2>2. /\ kind \in [Conns -> Kinds]
        /\ reading \in [Conns -> {"none", "header", "packet"}]
        /\ writing \in [Conns -> SUBSET Msgs]
        /\ armed \in [Conns -> SUBSET Timers] /\ expired \in [Conns -> SUBSET Timers]
        /\ owner \in [Msgs -> Conns \cup {None}]
        /\ full \subseteq Msgs /\ poolHeld \in BOOLEAN
    BY DEF Init, Timers
  <2> QED BY <1>2, <1>3, <1>4, <2>1, <2>2 DEF Types
<1>7. TaskInv
  BY <1>4 DEF TaskInv
<1>8. MsgInv
  <2>1. io.msg = None /\ disp.msg = None /\ \A c \in Conns : writing[c] = {}
    BY <1>5 DEF ParseIdle, DispIdle, Init
  <2> QED BY <1>3, <1>4, <2>1 DEF MsgInv
<1>9. \A c \in Conns : Owned(c) = {}
  BY NetworkAssumption DEF Init, Owned, NetworkAssumption
<1>10. \A c \in Conns : io.conn # c
  BY <1>5, NetworkAssumption DEF ParseIdle, NetworkAssumption
<1>11. ConnInv
  <2> SUFFICES ASSUME NEW c \in Conns PROVE Closing(c) /\ Writes(c) /\ First(c)
    BY DEF ConnInv
  <2>1. /\ conn[c].state = "OPEN" /\ conn[c].socket = "open" /\ conn[c].protocol = (kind[c] = "game")
        /\ conn[c].stop = FALSE /\ conn[c].listed /\ writing[c] = {}
    BY <1>2 DEF Accepted, Init
  <2> QED BY <1>3, <1>4, <1>9, <1>10, <2>1 DEF Closing, Writes, First
<1>12. CountInv
  <2> SUFFICES ASSUME NEW c \in Conns PROVE Counted(c)
    BY DEF CountInv
  <2>1. conn[c].refs = 0 /\ disp.msg = None
    BY <1>2, <1>5 DEF Accepted, DispIdle
  <2> QED BY <1>9, <1>10, <2>1, FS_EmptySet DEF Counted
<1>13. OrderInv
  BY <1>3, <1>4 DEF OrderInv
<1> QED BY <1>6, <1>7, <1>8, <1>11, <1>12, <1>13 DEF Inv

LEMMA InvInductive == Inv /\ [Next]_vars => Inv'
<1> SUFFICES ASSUME Inv, [Next]_vars PROVE Inv'
  OBVIOUS
<1>1. CASE UNCHANGED vars
  BY <1>1, StepStutter
<1>2. CASE \E c \in Conns :
             \/ parseHeader(c) \/ parsePacket(c) \/ onWriteOperation(c)
             \/ \E t \in Timers : onTimeout(c, t)
             \/ onStopOperation(c)
  BY <1>2, StepParseHeader, StepParsePacket, StepOnWriteOperation, StepOnTimeout, StepOnStopOperation
<1>3. CASE Answer
  BY <1>3, StepAnswerAlloc, StepAnswerCount, StepAnswerSend DEF Answer
<1>4. CASE TakeTask
  BY <1>4, StepCloseConnectionTask, StepReleaseConnection, StepReleaseProtocol DEF TakeTask
<1>5. CASE UnrefRead \/ UnrefWrite
  BY <1>5, StepUnrefRead, StepUnrefWrite
<1>6. CASE \E c \in Conns : Write(c) \/ Fill(c) \/ Speak(c) \/ Disconnect(c)
  BY <1>6, StepWrite, StepFill, StepSpeak, StepDisconnect
<1>7. CASE SendAll \/ SendNext \/ SkipNext
  BY <1>7, StepSendAll, StepSendNext, StepSkipNext
<1>8. CASE Environment
  BY <1>8, StepTimerExpires, StepRetryDue DEF Environment
<1> QED BY <1>1, <1>2, <1>3, <1>4, <1>5, <1>6, <1>7, <1>8
        DEF Next, NetworkThread, DispatcherThread

\* Whatever the two threads, the peers and the timers do, messages, connections and the
\* tasks of the dispatcher fit together (connection.cpp, outputmessage.cpp, protocol.cpp).
THEOREM NetworkInvariant == Spec => []Inv
  BY InitInv, InvInductive, PTL DEF Spec

-----------------------------------------------------------------------------
(* What follows at once.                                                   *)

\* What is deleted is not used any more: a message keeps the protocol and the
\* connection it is for (releaseProtocol and releaseConnection try again while there
\* are references), a task names a connection that is still listed, and after
\* onStopOperation no handler finds work.
THEOREM NothingDeletedIsUsed == Spec => []NothingUsedIsDeleted
<1>1. Inv => NothingUsedIsDeleted
  <2> SUFFICES ASSUME Inv, NEW c \in Conns, Steady(c)
               PROVE  /\ (\E m \in Msgs : owner[m] = c) => proto[c].life = "live" /\ conn[c].socket # "deleted"
                      /\ conn[c].protocol \/ proto[c].linked => proto[c].life = "live"
                      /\ \A i \in DOMAIN tasks :
                            tasks[i].run \in {"close", "releaseConnection"} /\ tasks[i].conn = c => conn[c].listed
                      /\ conn[c].socket = "deleted" =>
                            /\ writing[c] = {}
                            /\ \A t \in expired[c] : Alive(c) => ~ Overdue(conn[c], t)
    BY DEF NothingUsedIsDeleted
  <2>1. Types /\ MsgInv /\ Closing(c) /\ Counted(c)
    BY DEF Inv, ConnInv, CountInv
  <2>2. (\E m \in Msgs : owner[m] = c) => proto[c].life = "live" /\ conn[c].socket # "deleted"
    BY <2>1 DEF Counted, Owned, Closing
  <2>3. conn[c].protocol \/ proto[c].linked => proto[c].life = "live"
    BY <2>1 DEF Closing
  <2>4. ASSUME NEW i \in DOMAIN tasks, tasks[i].run \in {"close", "releaseConnection"}, tasks[i].conn = c
        PROVE  conn[c].listed
    <3>1. tasks[i] \in Tasks /\ tasks[i] \in Pending
      BY <2>1 DEF Types, Pending, ToSet
    <3>2. tasks[i] \in {Close(c), Finish(c)}
      BY <2>4, <3>1, TaskKinds
    <3> QED BY <2>1, <3>1, <3>2 DEF Closing
  <2>5. ASSUME conn[c].socket = "deleted" PROVE writing[c] = {} /\ ~ Alive(c)
    <3>1. /\ ~ conn[c].listed /\ conn[c].state = "CLOSED" /\ ~ conn[c].stop
          /\ reading[c] = "none" /\ ~ proto[c].linked
      BY <2>1, <2>5 DEF Closing
    <3>2. Owned(c) = {}
      BY <2>1, <3>1 DEF Counted
    <3>3. writing[c] = {}
      BY <2>1, <3>2 DEF MsgInv, Types, Owned
    <3> QED BY <3>1, <3>2, <3>3 DEF Alive, Owned
  <2> QED BY <2>2, <2>3, <2>4, <2>5
<1> QED BY <1>1, NetworkInvariant, PTL

\* sendAll, which holds the pool, never comes to a message for the connection a
\* network thread holds while it waits for the pool: the first packet is answered
\* before any task writes to that client.
THEOREM LocksAreNotCyclic == Spec => []NoLockCycle
<1>1. Inv => NoLockCycle
  <2> SUFFICES ASSUME Inv, io.step \in {"alloc", "send"}, Steady(io.conn),
                      NEW i \in DOMAIN autoSend, owner[autoSend[i]] = io.conn
               PROVE  FALSE
    BY DEF NoLockCycle
  <2>1. Types /\ MsgInv /\ CountInv
    BY DEF Inv
  <2>2. PICK c \in Conns : c = io.conn
    BY <2>1 DEF Types, IoTypes
  <2>3. Counted(c)
    BY <2>1, <2>2 DEF CountInv
  <2>4. autoSend[i] \in Msgs /\ autoSend[i] \in Waiting
    BY <2>1 DEF Types, Waiting, ToSet
  <2>5. autoSend[i] = io.msg
    BY <2>2, <2>3, <2>4 DEF Counted, Owned
  <2> QED BY <2>1, <2>4, <2>5, NetworkAssumption DEF MsgInv, NetworkAssumption
<1> QED BY <1>1, NetworkInvariant, PTL

-----------------------------------------------------------------------------
(* What a step does to the socket and to what is written.                  *)

\* Where a step closes no socket
SocketsStay == \A c \in Conns : conn'[c].socket = conn[c].socket

\* Most steps leave the sockets alone.
LEMMA SocketSteps ==
  ASSUME Inv, NEW d \in Conns,
         \/ parseHeader(d) \/ parsePacket(d) \/ Disconnect(d) \/ Write(d) \/ Fill(d) \/ Speak(d)
         \/ AnswerAlloc \/ AnswerCount \/ AnswerSend
         \/ releaseConnection \/ releaseProtocol \/ UnrefRead \/ UnrefWrite
         \/ SendAll \/ SendNext \/ SkipNext \/ Environment \/ UNCHANGED vars
  PROVE  SocketsStay
<1>0. Types /\ MsgInv
  BY DEF Inv
<1>1. ASSUME NEW c \in Conns, NEW r, conn' = [conn EXCEPT ![c] = r], r.socket = conn[c].socket
      PROVE  SocketsStay
  BY <1>0, <1>1 DEF SocketsStay, Types
<1>2. ASSUME UNCHANGED conn PROVE SocketsStay
  BY <1>2 DEF SocketsStay
<1>3. ASSUME NEW c \in Conns, NEW outcome \in {"ok", "failed", "aborted"}, StopReading(c, outcome)
      PROVE  SocketsStay
  <2> DEFINE a == AfterRead(c, outcome)
             b == closeConnection(a)
             r == Handled(b, "operation")
  <2>1. conn[c] \in ConnRecord
    BY <1>0 DEF Types
  <2>2. a \in ConnRecord /\ a.socket = conn[c].socket
    <3> DEFINE x == closeConnection(conn[c])
    <3>1. x \in ConnRecord /\ x.socket = conn[c].socket
      BY <2>1, CloseFields
    <3>2. a \in {conn[c], [x EXCEPT !.readError = TRUE], [conn[c] EXCEPT !.readError = TRUE]}
      BY DEF AfterRead
    <3> HIDE DEF a, x
    <3> QED BY <2>1, <3>1, <3>2 DEF ConnRecord
  <2> HIDE DEF a
  <2>3. b \in ConnRecord /\ b.socket = a.socket
    BY <2>2, CloseFields
  <2> HIDE DEF b
  <2>4. r.socket = b.socket
    BY <2>3, HandledFields
  <2>5. conn' = [conn EXCEPT ![c] = r]
    BY <1>3 DEF StopReading, a, b
  <2> HIDE DEF r
  <2> QED BY <1>1, <2>2, <2>3, <2>4, <2>5
<1>4. CASE parseHeader(d)
  <2>1. PICK outcome \in Outcomes(d) : StopReading(d, outcome) \/ UNCHANGED conn
    BY <1>4 DEF parseHeader
  <2>2. outcome \in {"ok", "failed", "aborted"}
    BY DEF Outcomes
  <2> QED BY <1>2, <1>3, <2>1, <2>2
<1>5. CASE parsePacket(d)
  <2>1. PICK outcome \in Outcomes(d) :
           \/ StopReading(d, outcome)
           \/ \E reply \in Replies(kind[d], ~ conn[d].receivedFirst) : Parsed(d, reply)
    BY <1>5 DEF parsePacket, Parsed
  <2>2. outcome \in {"ok", "failed", "aborted"}
    BY DEF Outcomes
  <2>3. CASE \E reply \in Replies(kind[d], ~ conn[d].receivedFirst) : Parsed(d, reply)
    <3>1. PICK reply \in Replies(kind[d], ~ conn[d].receivedFirst) : Parsed(d, reply)
      BY <2>3
    <3> DEFINE a == [conn[d] EXCEPT !.receivedFirst = TRUE]
               served == [a EXCEPT !.protocol = TRUE]
               r == IF reply = "refuse" THEN closeConnection(served) ELSE served
    <3>2. conn' = [conn EXCEPT ![d] = r]
      BY <3>1 DEF Parsed
    <3>0. conn[d] \in ConnRecord
      BY <1>0 DEF Types
    <3>3. a \in ConnRecord /\ a.socket = conn[d].socket
      BY <3>0 DEF ConnRecord
    <3> HIDE DEF a
    <3>4. served \in ConnRecord /\ served.socket = a.socket
      BY <3>3 DEF ConnRecord
    <3> HIDE DEF served
    <3>5. r.socket = served.socket
      BY <3>4, CloseFields
    <3> HIDE DEF r
    <3> QED BY <1>1, <3>2, <3>3, <3>4, <3>5
  <2> QED BY <1>3, <2>1, <2>2, <2>3
<1>6. CASE Disconnect(d)
  <2>1. conn' = [conn EXCEPT ![d] = closeConnection(conn[d])] /\ conn[d] \in ConnRecord
    BY <1>0, <1>6 DEF Disconnect, Types
  <2> QED BY <1>1, <2>1, CloseFields
<1>7. CASE Write(d)
  <2>1. conn' = [conn EXCEPT ![d] = [conn[d] EXCEPT !.refs = @ + 1]] /\ conn[d] \in ConnRecord
    BY <1>0, <1>7 DEF Write, Types
  <2> DEFINE r == [conn[d] EXCEPT !.refs = @ + 1]
  <2>2. r.socket = conn[d].socket
    BY <2>1 DEF ConnRecord
  <2> HIDE DEF r
  <2> QED BY <1>1, <2>1, <2>2 DEF r
<1>8. CASE Speak(d)
  <2> DEFINE q == [conn[d] EXCEPT !.refs = @ + 1]
             r == IF kind[d] = "game" THEN closeConnection(Sent(q)) ELSE Sent(q)
  <2>1. conn' = [conn EXCEPT ![d] = r] /\ conn[d] \in ConnRecord
    BY <1>0, <1>8 DEF Speak, Types
  <2>2. q \in ConnRecord /\ q.socket = conn[d].socket
    BY <2>1 DEF ConnRecord
  <2> HIDE DEF q
  <2>3. r.socket = q.socket
    BY <2>2, SentRecords DEF SentRecord
  <2> HIDE DEF r
  <2> QED BY <1>1, <2>1, <2>2, <2>3
<1>9. CASE AnswerCount
  <2>1. PICK c \in Conns : c = io.conn
    BY <1>0, <1>9 DEF Types, IoTypes, AnswerCount
  <2> DEFINE r == [conn[c] EXCEPT !.refs = io.read + 1]
  <2>2. conn' = [conn EXCEPT ![c] = r] /\ r.socket = conn[c].socket
    BY <1>0, <1>9, <2>1 DEF AnswerCount, Types, ConnRecord
  <2> HIDE DEF r
  <2> QED BY <1>1, <2>2
<1>10. CASE AnswerSend
  <2>1. PICK c \in Conns : c = io.conn
    BY <1>0, <1>10 DEF Types, IoTypes, AnswerSend
  <2> DEFINE r == IF io.close THEN closeConnection(Sent(conn[c])) ELSE Sent(conn[c])
  <2>2. conn' = [conn EXCEPT ![c] = r] /\ conn[c] \in ConnRecord
    BY <1>0, <1>10, <2>1 DEF AnswerSend, Types
  <2>3. r.socket = conn[c].socket
    BY <2>2, SentRecords DEF SentRecord
  <2> HIDE DEF r
  <2> QED BY <1>1, <2>2, <2>3
<1>11. CASE releaseConnection
  <2>1. PICK c \in Conns : c = Task.conn
    <3>1. tasks # <<>> /\ Task.run = "releaseConnection"
      BY <1>11 DEF releaseConnection, Starts
    <3>2. Task \in Tasks
      BY <1>0, <3>1 DEF Types, Task
    <3> QED BY <3>1, <3>2, TaskKinds
  <2> DEFINE r == ReleaseConnection(c, conn[c])
  <2>2. conn' = [conn EXCEPT ![c] = r] /\ conn[c] \in ConnRecord /\ expired[c] \in SUBSET Timers
    BY <1>0, <1>11, <2>1 DEF releaseConnection, Types
  <2>3. r.socket = conn[c].socket
    BY <2>2, ReleaseConnectionFields
  <2> HIDE DEF r
  <2> QED BY <1>1, <2>2, <2>3
<1>12. CASE UnrefWrite
  <2>1. PICK c \in Conns : c = owner[disp.msg]
    BY <1>0, <1>12 DEF Types, DispTypes, MsgInv, UnrefWrite
  <2> DEFINE r == [conn[c] EXCEPT !.refs = IF disp.read = 0 THEN MaxCount ELSE disp.read - 1]
  <2>2. conn' = [conn EXCEPT ![c] = r] /\ r.socket = conn[c].socket
    BY <1>0, <1>12, <2>1 DEF UnrefWrite, Types, ConnRecord
  <2> HIDE DEF r
  <2> QED BY <1>1, <2>2
<1>13. CASE SendNext
  <2>1. PICK c \in Conns : c = owner[autoSend[disp.pos]]
    <3>1. disp.pos \in DOMAIN autoSend
      BY <1>0, <1>13 DEF SendNext, Types, DispTypes
    <3>2. autoSend[disp.pos] \in Msgs /\ autoSend[disp.pos] \in ToSet(autoSend)
      BY <1>0, <3>1 DEF Types, ToSet
    <3> QED BY <1>0, <3>2 DEF Types, MsgInv, Waiting
  <2> DEFINE r == Sent(conn[c])
  <2>2. conn' = [conn EXCEPT ![c] = r] /\ conn[c] \in ConnRecord
    BY <1>0, <1>13, <2>1 DEF SendNext, Types
  <2>3. r.socket = conn[c].socket
    BY <2>2, SentFields
  <2> HIDE DEF r
  <2> QED BY <1>1, <2>2, <2>3
<1>14. CASE \/ Fill(d) \/ AnswerAlloc \/ releaseProtocol \/ UnrefRead \/ SendAll \/ SkipNext
            \/ Environment \/ UNCHANGED vars
  BY <1>2, <1>14 DEF Fill, AnswerAlloc, releaseProtocol, UnrefRead, SendAll, SkipNext,
                     Environment, TimerExpires, RetryDue, vars
<1> QED BY <1>4, <1>5, <1>6, <1>7, <1>8, <1>9, <1>10, <1>11, <1>12, <1>13, <1>14

\* The server closes a socket under a message that is being written only when a
\* deadline passed or the write failed: closeConnectionTask waits for the write, and
\* onWriteOperation closes the socket once the one that was pending is over.
THEOREM MessagesAreNotCutOff == Spec => LastWordsAreSent
<1>1. ASSUME Inv, [Next]_vars, NEW c \in Conns,
             conn[c].socket = "open", conn'[c].socket # "open", writing'[c] # {}
      PROVE  conn[c].writeError \/ expired'[c] # expired[c]
  <2>1. Types /\ Closing(c) /\ Writes(c)
    BY <1>1 DEF Inv, ConnInv
  <2>2. ~ SocketsStay
    BY <1>1 DEF SocketsStay
  <2>3. \/ \E d \in Conns : onWriteOperation(d) \/ onStopOperation(d) \/ \E t \in Timers : onTimeout(d, t)
        \/ closeConnectionTask
    BY <1>1, <2>2, SocketSteps
    DEF Next, NetworkThread, DispatcherThread, Answer, TakeTask
  <2>4. ASSUME NEW d \in Conns, onWriteOperation(d) PROVE FALSE
    <3>1. PICK m \in writing[d] : writing' = [writing EXCEPT ![d] = @ \ {m}]
      BY <2>4 DEF onWriteOperation
    <3>2. \E r : conn' = [conn EXCEPT ![d] = r]
      BY <2>4 DEF onWriteOperation
    <3>3. d = c
      BY <1>1, <2>1, <3>2 DEF Types
    <3>4. writing'[c] = writing[c] \ {m}
      BY <2>1, <3>1, <3>3 DEF Types
    <3> QED BY <1>1, <2>1, <3>1, <3>3, <3>4 DEF Writes
  <2>5. ASSUME NEW d \in Conns, onStopOperation(d) PROVE FALSE
    <3>1. conn[d].stop /\ \E r : conn' = [conn EXCEPT ![d] = r]
      BY <2>5 DEF onStopOperation
    <3>2. d = c
      BY <1>1, <2>1, <3>1 DEF Types
    <3> QED BY <1>1, <2>1, <3>1, <3>2 DEF Closing
  <2>6. ASSUME NEW d \in Conns, NEW t \in Timers, onTimeout(d, t) PROVE expired'[c] # expired[c]
    <3>1. \E r : conn' = [conn EXCEPT ![d] = r]
      BY <2>6 DEF onTimeout
    <3>2. d = c
      BY <1>1, <2>1, <3>1 DEF Types
    <3>3. t \in expired[c] /\ expired' = [expired EXCEPT ![c] = @ \ {t}]
      BY <2>6, <3>2 DEF onTimeout
    <3> QED BY <2>1, <3>3 DEF Types
  <2>7. ASSUME closeConnectionTask PROVE conn[c].writeError
    <3>1. tasks # <<>> /\ Task.run = "close" /\ UNCHANGED writing
      BY <2>7 DEF closeConnectionTask, Starts, ioVars
    <3>2. Task \in Tasks
      BY <2>1, <3>1 DEF Types, Task
    <3>3. PICK d \in Conns : d = Task.conn
      BY <3>1, <3>2, TaskKinds
    <3> DEFINE a == [conn[d] EXCEPT !.protocol = FALSE]
               r == [ReleaseConnection(d, closeSocket(a)) EXCEPT !.state = "CLOSED"]
    <3>4. \/ UNCHANGED conn
          \/ ClosesNow(a) /\ conn' = [conn EXCEPT ![d] = r]
          \/ conn' = [conn EXCEPT ![d] = [a EXCEPT !.state = "CLOSING"]]
      BY <2>7, <3>3 DEF closeConnectionTask
    <3>5. conn[d] \in ConnRecord
      BY <2>1 DEF Types
    <3>6. d = c
      BY <1>1, <2>1, <3>4 DEF Types
    <3>7. a.socket = conn[c].socket /\ a.pendingWrite = conn[c].pendingWrite /\ a.writeError = conn[c].writeError
      BY <3>5, <3>6 DEF ConnRecord
    <3>8. [a EXCEPT !.state = "CLOSING"].socket = a.socket
      BY <3>5 DEF ConnRecord
    <3> HIDE DEF a, r
    <3>9. ClosesNow(a)
      BY <1>1, <2>1, <3>4, <3>6, <3>7, <3>8 DEF Types
    <3> QED BY <1>1, <2>1, <3>1, <3>7, <3>9 DEF ClosesNow, Writes
  <2> QED BY <2>3, <2>4, <2>5, <2>6, <2>7
<1>2. Inv /\ [Next]_vars =>
         [\A c \in Conns :
            conn[c].socket = "open" /\ conn'[c].socket # "open" /\ writing'[c] # {}
              => conn[c].writeError \/ expired'[c] # expired[c]]_vars
  BY <1>1
<1> QED BY <1>2, NetworkInvariant, PTL DEF Spec, LastWordsAreSent

\* A message that is written now is the one that is sent now, on a connection that is
\* open.
LEMMA WritingSteps ==
  ASSUME Inv, [Next]_vars, NEW c \in Conns, NEW m \in writing'[c] \ writing[c]
  PROVE  \/ m = io.msg
         \/ m \in Free
         \/ owner[m] = c /\ conn[c].state = "OPEN"
<1>0. Types /\ MsgInv
  BY DEF Inv
<1>1. ASSUME NEW d \in Conns, NEW k, NEW timers, Send(d, k, timers)
      PROVE  m = k /\ d = c /\ conn[d].state = "OPEN"
  <2>1. writing' = [writing EXCEPT ![d] = @ \cup IF Fate(conn[d]) = "written" THEN {k} ELSE {}]
    BY <1>1 DEF Send
  <2>2. d = c /\ Fate(conn[d]) = "written" /\ m = k
    BY <1>0, <2>1 DEF Types
  <2> QED BY <2>2 DEF Fate, Unusable
<1>2. CASE AnswerSend
  <2>1. io.conn \in Conns /\ Send(io.conn, io.msg, {"read"})
    BY <1>0, <1>2 DEF Types, IoTypes, AnswerSend
  <2> QED BY <1>1, <2>1
<1>3. ASSUME NEW d \in Conns, Speak(d) PROVE m \in Free
  <2>1. PICK k \in Msgs : Take(k) /\ Send(d, k, {})
    BY <1>3 DEF Speak
  <2> QED BY <1>1, <2>1 DEF Take
<1>4. ASSUME SendNext PROVE owner[m] = c /\ conn[c].state = "OPEN"
  <2>1. disp.pos \in DOMAIN autoSend
    BY <1>0, <1>4 DEF SendNext, Types, DispTypes
  <2>2. autoSend[disp.pos] \in Msgs /\ autoSend[disp.pos] \in ToSet(autoSend)
    BY <1>0, <2>1 DEF Types, ToSet
  <2>3. owner[autoSend[disp.pos]] \in Conns
    BY <1>0, <2>2 DEF Types, MsgInv, Waiting
  <2>4. Send(owner[autoSend[disp.pos]], autoSend[disp.pos], {})
    BY <1>4 DEF SendNext
  <2> QED BY <1>1, <2>3, <2>4
<1>5. writing' # writing
  OBVIOUS
<1>6. ASSUME NEW d \in Conns, onWriteOperation(d) PROVE FALSE
  <2>1. \E k : writing' = [writing EXCEPT ![d] = @ \ {k}]
    BY <1>6 DEF onWriteOperation
  <2> QED BY <1>0, <2>1 DEF Types
<1>7. AnswerSend \/ SendNext \/ \E d \in Conns : Speak(d) \/ onWriteOperation(d)
  BY <1>5 DEF Next, NetworkThread, DispatcherThread, Environment, Answer, TakeTask, vars, ioVars,
     parseHeader, parsePacket, StopReading, onTimeout, onStopOperation, AnswerAlloc, AnswerCount,
     closeConnectionTask, releaseConnection, releaseProtocol, UnrefRead, UnrefWrite,
     Write, Fill, Disconnect, SendAll, SkipNext, TimerExpires, RetryDue
<1> QED BY <1>2, <1>3, <1>4, <1>6, <1>7

\* A client gets what it is sent in the order it was written: what waits behind the
\* buffer that goes out (addToAutoSend put it back) was filled to its limit before.
THEOREM OrderIsKept == Spec => OnlyFullBuffersAreOvertaken
<1>1. ASSUME Inv, [Next]_vars, NEW c \in Conns, NEW m \in writing'[c] \ writing[c], NEW k \in Waiting,
             m = proto[c].buffer, owner[k] = c, k # m
      PROVE  k \in full
  <2>1. Types /\ MsgInv /\ OrderInv
    BY <1>1 DEF Inv
  <2>2. proto[c].buffer = None \/ (proto[c].buffer \in Waiting /\ owner[proto[c].buffer] = c)
    BY <2>1 DEF MsgInv
  <2>3. m = io.msg \/ m \in Free \/ (owner[m] = c /\ conn[c].state = "OPEN")
    BY <1>1, WritingSteps
  <2>4. writing' \in [Conns -> SUBSET Msgs]
    BY <1>1, InvInductive DEF Inv, Types
  <2>5. m \in Msgs /\ m # None
    BY <1>1, <2>4, NetworkAssumption DEF NetworkAssumption
  <2>6. m \in Waiting /\ owner[m] = c
    BY <1>1, <2>2, <2>5
  <2>7. conn[c].state = "OPEN"
    BY <2>1, <2>3, <2>5, <2>6, NetworkAssumption DEF MsgInv, Free, NetworkAssumption
  <2>8. kind[c] = "game"
    BY <1>1, <2>1, <2>5 DEF OrderInv
  <2> QED BY <1>1, <2>1, <2>7, <2>8 DEF OrderInv, Steady
<1>2. Inv /\ [Next]_vars =>
         [\A c \in Conns :
            \A m \in writing'[c] \ writing[c], k \in Waiting :
              m = proto[c].buffer /\ owner[k] = c /\ k # m => k \in full]_vars
  BY <1>1
<1> QED BY <1>2, NetworkInvariant, PTL DEF Spec, OnlyFullBuffersAreOvertaken
=============================================================================
