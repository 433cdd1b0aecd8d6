------------------------ MODULE RefresherOrderProofs ------------------------
(***************************************************************************)
(* Theorems about Refresher that rest on the order in which the store      *)
(* serves its clients: a client that read and asked to write comes before  *)
(* all that read later.                                                    *)
(***************************************************************************)
EXTENDS RefresherProofs

----------------------------------------------------------------------------
(* Queues                                                                  *)

Distinct(q) == \A i, j \in DOMAIN q : q[i] = q[j] => i = j
Ahead(q, a, b) == \E i, j \in DOMAIN q : i < j /\ q[i] = a /\ q[j] = b

LEMMA Appended ==
    ASSUME NEW q \in Seq(Callers), Distinct(q), NEW c \in Callers, c \notin ToSet(q)
    PROVE  /\ Distinct(Append(q, c)) /\ ToSet(Append(q, c)) = ToSet(q) \cup {c}
           /\ \A a, b : Ahead(Append(q, c), a, b) <=> Ahead(q, a, b) \/ (a \in ToSet(q) /\ b = c)
<1> DEFINE p == Append(q, c)
           n == Len(q)
<1>1. /\ n \in Nat /\ DOMAIN q = 1..n /\ DOMAIN p = 1..(n + 1)
      /\ p[n + 1] = c /\ \A i \in 1..n : p[i] = q[i]
  OBVIOUS
<1>2. \A i \in 1..n : q[i] # c /\ q[i] \in ToSet(q)
  BY <1>1 DEF ToSet
<1> HIDE DEF p, n
<1>3. Distinct(p)
  BY <1>1, <1>2 DEF Distinct
<1>4. ToSet(p) = ToSet(q) \cup {c}
  <2>1. ASSUME NEW i \in 1..(n + 1) PROVE p[i] \in ToSet(q) \cup {c}
    <3>1. i = n + 1 \/ i \in 1..n
      BY <1>1
    <3> QED
      BY <1>1, <1>2, <3>1
  <2>2. ASSUME NEW x \in ToSet(q) PROVE x \in ToSet(p)
    <3>1. PICK i \in 1..n : x = q[i]
      BY <1>1 DEF ToSet
    <3>2. i \in DOMAIN p /\ p[i] = x
      BY <1>1, <3>1
    <3> QED
      BY <3>2 DEF ToSet
  <2>3. c \in ToSet(p)
    <3>1. n + 1 \in DOMAIN p
      BY <1>1
    <3> QED
      BY <1>1, <3>1 DEF ToSet
  <2> QED
    BY <1>1, <2>1, <2>2, <2>3 DEF ToSet
<1>5. ASSUME NEW a, NEW b PROVE Ahead(p, a, b) <=> Ahead(q, a, b) \/ (a \in ToSet(q) /\ b = c)
  <2>1. ASSUME Ahead(p, a, b) PROVE Ahead(q, a, b) \/ (a \in ToSet(q) /\ b = c)
    <3>1. PICK i \in DOMAIN p, j \in DOMAIN p : i < j /\ p[i] = a /\ p[j] = b
      BY <2>1 DEF Ahead
    <3>2. i \in 1..n
      BY <1>1, <3>1
    <3>3. CASE j = n + 1
      BY <1>1, <1>2, <3>1, <3>2, <3>3
    <3>4. CASE j \in 1..n
      BY <1>1, <3>1, <3>2, <3>4 DEF Ahead
    <3> QED
      BY <1>1, <3>3, <3>4
  <2>2. ASSUME Ahead(q, a, b) PROVE Ahead(p, a, b)
    <3>1. PICK i \in DOMAIN q, j \in DOMAIN q : i < j /\ q[i] = a /\ q[j] = b
      BY <2>2 DEF Ahead
    <3>2. i \in DOMAIN p /\ j \in DOMAIN p /\ p[i] = a /\ p[j] = b
      BY <1>1, <3>1
    <3> QED
      BY <3>1, <3>2 DEF Ahead
  <2>3. ASSUME a \in ToSet(q), b = c PROVE Ahead(p, a, b)
    <3>1. PICK i \in 1..n : a = q[i]
      BY <1>1, <2>3 DEF ToSet
    <3>2. i \in DOMAIN p /\ n + 1 \in DOMAIN p /\ i < n + 1 /\ p[i] = a /\ p[n + 1] = b
      BY <1>1, <2>3, <3>1
    <3> QED
      BY <3>2 DEF Ahead
  <2> QED
    BY <2>1, <2>2, <2>3
<1> QED
  BY <1>3, <1>4, <1>5 DEF p

(* p is q without its k-th member.                                         *)
Without(p, q, k) ==
    /\ Len(p) = Len(q) - 1
    /\ \A i \in 1..Len(p) : p[i] = IF i < k THEN q[i] ELSE q[i + 1]

LEMMA Removed ==
    ASSUME NEW q \in Seq(Callers), Distinct(q), NEW k \in 1..Len(q), NEW p \in Seq(Callers), Without(p, q, k)
    PROVE  /\ Distinct(p) /\ ToSet(p) = ToSet(q) \ {q[k]}
           /\ \A a, b : Ahead(p, a, b) <=> Ahead(q, a, b) /\ a # q[k] /\ b # q[k]
<1> DEFINE n == Len(q)
           at(i) == IF i < k THEN i ELSE i + 1
           back(i) == IF i < k THEN i ELSE i - 1
<1>1. /\ n \in Nat /\ k \in 1..n /\ DOMAIN q = 1..n /\ DOMAIN p = 1..(n - 1)
      /\ \A i \in 1..(n - 1) : p[i] = q[at(i)]
  BY DEF Without
<1>2. /\ \A i \in 1..(n - 1) : at(i) \in 1..n /\ at(i) # k
      /\ \A i, j \in 1..(n - 1) : i < j <=> at(i) < at(j)
      /\ \A i \in 1..n : i # k => back(i) \in 1..(n - 1) /\ at(back(i)) = i
  BY <1>1
<1> HIDE DEF n, at, back
<1>3. Distinct(p)
  <2> SUFFICES ASSUME NEW i \in 1..(n - 1), NEW j \in 1..(n - 1), p[i] = p[j] PROVE i = j
    BY <1>1 DEF Distinct
  <2>1. at(i) = at(j)
    BY <1>1, <1>2 DEF Distinct
  <2> QED
    BY <1>1, <1>2, <2>1
<1>4. ToSet(p) = ToSet(q) \ {q[k]}
  <2>1. ASSUME NEW x \in ToSet(p) PROVE x \in ToSet(q) \ {q[k]}
    <3>1. PICK i \in 1..(n - 1) : x = p[i]
      BY <1>1 DEF ToSet
    <3>2. x = q[at(i)] /\ at(i) \in DOMAIN q /\ at(i) # k
      BY <1>1, <1>2, <3>1
    <3> QED
      BY <1>1, <3>2 DEF ToSet, Distinct
  <2>2. ASSUME NEW x \in ToSet(q) \ {q[k]} PROVE x \in ToSet(p)
    <3>1. PICK i \in 1..n : x = q[i]
      BY <1>1 DEF ToSet
    <3>2. back(i) \in DOMAIN p /\ p[back(i)] = x
      BY <1>1, <1>2, <3>1
    <3> QED
      BY <3>2 DEF ToSet
  <2> QED
    BY <2>1, <2>2
<1>5. ASSUME NEW a, NEW b PROVE Ahead(p, a, b) <=> Ahead(q, a, b) /\ a # q[k] /\ b # q[k]
  <2>1. ASSUME Ahead(p, a, b) PROVE Ahead(q, a, b) /\ a # q[k] /\ b # q[k]
    <3>1. PICK i \in 1..(n - 1), j \in 1..(n - 1) : i < j /\ p[i] = a /\ p[j] = b
      BY <1>1, <2>1 DEF Ahead
    <3>2. /\ at(i) \in DOMAIN q /\ at(j) \in DOMAIN q /\ at(i) < at(j) /\ q[at(i)] = a /\ q[at(j)] = b
          /\ at(i) # k /\ at(j) # k
      BY <1>1, <1>2, <3>1
    <3> QED
      BY <1>1, <3>2 DEF Ahead, Distinct
  <2>2. ASSUME Ahead(q, a, b), a # q[k], b # q[k] PROVE Ahead(p, a, b)
    <3>1. PICK i \in 1..n, j \in 1..n : i < j /\ q[i] = a /\ q[j] = b
      BY <1>1, <2>2 DEF Ahead
    <3>2. /\ back(i) \in 1..(n - 1) /\ back(j) \in 1..(n - 1) /\ at(back(i)) = i /\ at(back(j)) = j
      BY <1>2, <2>2, <3>1
    <3>3. back(i) < back(j)
      BY <1>2, <3>1, <3>2
    <3>4. p[back(i)] = a /\ p[back(j)] = b
      BY <1>1, <3>1, <3>2
    <3> QED
      BY <1>1, <3>2, <3>3, <3>4 DEF Ahead
  <2> QED
    BY <2>1, <2>2
<1> QED
  BY <1>3, <1>4, <1>5

LEMMA TailWithout ==
    ASSUME NEW q \in Seq(Callers), q # <<>>
    PROVE  Tail(q) \in Seq(Callers) /\ Without(Tail(q), q, 1) /\ Head(q) = q[1] /\ 1 \in 1..Len(q)
BY DEF Without

LEMMA RemoveAtWithout ==
    ASSUME NEW q \in Seq(Callers), NEW k \in 1..Len(q)
    PROVE  RemoveAt(q, k) \in Seq(Callers) /\ Without(RemoveAt(q, k), q, k)
<1> DEFINE front == SubSeq(q, 1, k - 1)
           rest == SubSeq(q, k + 1, Len(q))
<1>1. /\ front \in Seq(Callers) /\ Len(front) = k - 1 /\ \A i \in 1..(k - 1) : front[i] = q[i]
  BY SubSeqProperties
<1>2. /\ rest \in Seq(Callers) /\ Len(rest) = Len(q) - k /\ \A i \in 1..(Len(q) - k) : rest[i] = q[k + i]
  BY SubSeqProperties
<1>3. /\ front \o rest \in Seq(Callers) /\ Len(front \o rest) = Len(front) + Len(rest)
      /\ \A i \in 1..(Len(front) + Len(rest)) :
            (front \o rest)[i] = IF i <= Len(front) THEN front[i] ELSE rest[i - Len(front)]
  BY <1>1, <1>2, ConcatProperties
<1> HIDE DEF front, rest
<1>4. Without(front \o rest, q, k)
  <2>1. Len(q) \in Nat /\ k \in Nat
    OBVIOUS
  <2>2. Len(front \o rest) = Len(q) - 1
    BY <1>1, <1>2, <1>3, <2>1
  <2>3. ASSUME NEW i \in 1..(Len(q) - 1)
        PROVE  (front \o rest)[i] = IF i < k THEN q[i] ELSE q[i + 1]
    <3>1. CASE i < k
      BY <1>1, <1>2, <1>3, <2>1, <3>1
    <3>2. CASE ~(i < k)
      <4>1. (front \o rest)[i] = rest[i - (k - 1)]
        BY <1>1, <1>2, <1>3, <2>1, <3>2
      <4>2. i - (k - 1) \in 1..(Len(q) - k) /\ k + (i - (k - 1)) = i + 1
        BY <2>1, <3>2
      <4> QED
        BY <1>2, <3>2, <4>1, <4>2
    <3> QED
      BY <3>1, <3>2
  <2> QED
    BY <2>2, <2>3 DEF Without
<1> QED
  BY <1>3, <1>4 DEF RemoveAt, front, rest

----------------------------------------------------------------------------
(* The store's queue                                                       *)

QueueInv ==
    /\ Distinct(storeQ)
    /\ \A c \in Callers : c \in ToSet(storeQ) <=> pc[c] \in InStore

(* A step of c, or of the job it owns, leaves the others alone; waiters    *)
(* are woken.                                                              *)
OneMoves(c) ==
    \A d \in Callers \ {c} :
        /\ now'[d] = now[d] /\ old'[d] = old[d] /\ draft'[d] = draft[d]
        /\ pc'[d] = pc[d] \/ (pc[d] = "wait" /\ pc'[d] = "reply")

QueueKeeps(c) ==
    \A a, b \in Callers \ {c} : Ahead(storeQ', a, b) <=> Ahead(storeQ, a, b)

AtEnd(c) ==
    \A a \in Callers \ {c} : pc[a] \in InStore => Ahead(storeQ', a, c) /\ ~Ahead(storeQ', c, a)

LEMMA OthersStay ==
    ASSUME NEW c \in Callers, OneMoves(c)
    PROVE  \A d \in Callers \ {c} : pc'[d] \in InStore <=> pc[d] \in InStore
BY DEF OneMoves, InStore, JobStore, WaiterStore

LEMMA ServedFirst ==
    ASSUME TypeOK, QueueInv, NEW c \in Callers, Served(c)
    PROVE  /\ storeQ \in Seq(Callers) /\ storeQ # <<>> /\ storeQ[1] = c /\ pc[c] \in InStore
           /\ \A a \in Callers : ~Ahead(storeQ, a, c)
           /\ \A a \in Callers \ {c} : pc[a] \in InStore => Ahead(storeQ, c, a)
<1>1. /\ storeQ \in Seq(Callers) /\ storeQ # <<>> /\ storeQ[1] = c
      /\ DOMAIN storeQ = 1..Len(storeQ) /\ Len(storeQ) \in Nat /\ 1 \in DOMAIN storeQ
  BY DEF TypeOK, Served
<1>2. pc[c] \in InStore
  BY <1>1 DEF QueueInv, ToSet
<1>3. ASSUME NEW a \in Callers, Ahead(storeQ, a, c) PROVE FALSE
  <2>1. PICK i \in DOMAIN storeQ, j \in DOMAIN storeQ : i < j /\ storeQ[i] = a /\ storeQ[j] = c
    BY <1>3 DEF Ahead
  <2>2. j = 1
    BY <1>1, <2>1 DEF QueueInv, Distinct
  <2> QED
    BY <1>1, <2>1, <2>2
<1>4. ASSUME NEW a \in Callers \ {c}, pc[a] \in InStore PROVE Ahead(storeQ, c, a)
  <2>1. PICK i \in DOMAIN storeQ : storeQ[i] = a
    BY <1>4 DEF QueueInv, ToSet
  <2>2. 1 < i
    BY <1>1, <2>1
  <2> QED
    BY <1>1, <2>1, <2>2 DEF Ahead
<1> QED
  BY <1>1, <1>2, <1>3, <1>4

LEMMA StaysOut ==
    ASSUME QueueInv, NEW c \in Callers, OneMoves(c), UNCHANGED storeQ, pc[c] \notin InStore, pc'[c] \notin InStore
    PROVE  QueueInv' /\ QueueKeeps(c)
BY OthersStay DEF QueueInv, QueueKeeps

LEMMA Enters ==
    ASSUME TypeOK, QueueInv, NEW c \in Callers, OneMoves(c), Ask(c), pc[c] \notin InStore, pc'[c] \in InStore
    PROVE  QueueInv' /\ QueueKeeps(c) /\ AtEnd(c)
<1>1. storeQ \in Seq(Callers) /\ c \notin ToSet(storeQ) /\ Distinct(storeQ) /\ storeQ' = Append(storeQ, c)
  BY DEF TypeOK, QueueInv, Ask
<1>2. /\ Distinct(storeQ') /\ ToSet(storeQ') = ToSet(storeQ) \cup {c}
      /\ \A a, b : Ahead(storeQ', a, b) <=> Ahead(storeQ, a, b) \/ (a \in ToSet(storeQ) /\ b = c)
  BY <1>1, Appended
<1>3. \A a : ~Ahead(storeQ, c, a)
  BY <1>1 DEF Ahead, ToSet
<1>4. QueueInv'
  BY <1>1, <1>2, OthersStay DEF QueueInv
<1>5. QueueKeeps(c)
  BY <1>2 DEF QueueKeeps
<1>6. AtEnd(c)
  BY <1>2, <1>3 DEF AtEnd, QueueInv
<1> QED
  BY <1>4, <1>5, <1>6

LEMMA Leaves ==
    ASSUME TypeOK, QueueInv, NEW c \in Callers, OneMoves(c), pc'[c] \notin InStore,
           \/ Served(c) /\ LeaveStore
           \/ \E k \in 1..Len(storeQ) : storeQ[k] = c /\ storeQ' = RemoveAt(storeQ, k)
    PROVE  QueueInv' /\ QueueKeeps(c)
<1>1. storeQ \in Seq(Callers) /\ Distinct(storeQ)
  BY DEF TypeOK, QueueInv
<1>2. PICK k \in 1..Len(storeQ) : storeQ[k] = c /\ storeQ' \in Seq(Callers) /\ Without(storeQ', storeQ, k)
  BY <1>1, TailWithout, RemoveAtWithout DEF Served, LeaveStore
<1>3. /\ Distinct(storeQ') /\ ToSet(storeQ') = ToSet(storeQ) \ {c}
      /\ \A a, b : Ahead(storeQ', a, b) <=> Ahead(storeQ, a, b) /\ a # c /\ b # c
  BY <1>1, <1>2, Removed
<1>4. QueueInv'
  BY <1>3, OthersStay DEF QueueInv
<1> QED
  BY <1>3, <1>4 DEF QueueKeeps

LEMMA AsksAgain ==
    ASSUME TypeOK, QueueInv, NEW c \in Callers, OneMoves(c), pc'[c] \in InStore, Served(c), AskAgain(c)
    PROVE  QueueInv' /\ QueueKeeps(c) /\ AtEnd(c)
<1> DEFINE q == Tail(storeQ)
<1>1. storeQ \in Seq(Callers) /\ Distinct(storeQ) /\ storeQ # <<>> /\ storeQ[1] = c /\ 1 \in 1..Len(storeQ)
  BY TailWithout DEF TypeOK, QueueInv, Served
<1>2. q \in Seq(Callers) /\ Without(q, storeQ, 1)
  BY <1>1, TailWithout
<1>3. storeQ' = Append(q, c)
  BY DEF AskAgain
<1> HIDE DEF q
<1>4. /\ Distinct(q) /\ ToSet(q) = ToSet(storeQ) \ {c}
      /\ \A a, b : Ahead(q, a, b) <=> Ahead(storeQ, a, b) /\ a # c /\ b # c
  BY <1>1, <1>2, Removed
<1>5. /\ Distinct(storeQ') /\ ToSet(storeQ') = ToSet(q) \cup {c}
      /\ \A a, b : Ahead(storeQ', a, b) <=> Ahead(q, a, b) \/ (a \in ToSet(q) /\ b = c)
  BY <1>2, <1>3, <1>4, Appended
<1>6. QueueInv'
  BY <1>4, <1>5, OthersStay DEF QueueInv
<1>7. QueueKeeps(c)
  BY <1>4, <1>5 DEF QueueKeeps
<1>8. AtEnd(c)
  BY <1>4, <1>5 DEF AtEnd, QueueInv
<1> QED
  BY <1>6, <1>7, <1>8

----------------------------------------------------------------------------
(* What a step of one caller does, as far as the order is concerned.       *)

Stamped == HasRead \cup {"get", "rget", "wget"}
Hoping == {"get", "plugins", "fetch", "dns", "counts", "set"}
Clean == Unread \cup WaiterStore

Wrote(c) ==
    \/ stored' = stored
    \/ stored' = draft[c] /\ pc[c] \in Writing /\ Served(c) /\ pc'[c] \notin InStore

Reads(c) ==
    /\ pc'[c] \in HasRead => old'[c] = stored \/ (pc[c] \in HasRead /\ old'[c] = old[c])
    /\ pc'[c] \in Clean => old'[c] = NoCache \/ (pc[c] \in Clean /\ old'[c] = old[c])

Stamps(c) ==
    /\ clock' \in {clock, clock + 1} /\ now'[c] \in {0, now[c], clock'}
    /\ pc'[c] \in Stamped => now'[c] = clock' \/ (pc[c] \in Stamped /\ now'[c] = now[c])
    /\ pc'[c] = "wget" => now'[c] = clock + 1

Hopes(c) ==
    pc'[c] \in Hoping =>
        \/ pc'[c] = "get" /\ AtEnd(c)
        \/ /\ pc[c] \in Hoping /\ now'[c] = now[c]
           /\ pc[c] = "get" => Served(c)

Drafts(c) ==
    pc'[c] \in Writing =>
        /\ stored' = stored /\ AtEnd(c)
        /\ \/ pc[c] = "counts" /\ draft'[c] = Succeeded(draft[c], Latest(c), now[c])
           \/ pc[c] = "fcounts" /\ draft'[c] = Failed(old[c], Latest(c), now[c])
           \/ pc[c] \in {"rget", "wget"} /\ draft'[c] = Failed(stored, stored, now[c])

Moved(c) == OneMoves(c) /\ QueueKeeps(c) /\ Wrote(c) /\ Reads(c) /\ Stamps(c) /\ Hopes(c) /\ Drafts(c)

CleanInv == \A c \in Callers : pc[c] \in Clean => ~old[c].present

LEMMA Alone ==
    ASSUME TypeOK, NEW c \in Callers, NEW p, Goto(c, p)
    PROVE  /\ pc'[c] = p /\ \A d \in Callers \ {c} : pc'[d] = pc[d]
           /\ Stamp(c) => clock' = clock + 1 /\ now'[c] = clock + 1 /\ \A d \in Callers \ {c} : now'[d] = now[d]
BY DEF TypeOK, Goto, Stamp

LEMMA ExceptGoes ==
    ASSUME TypeOK, NEW c \in Callers, Except(c)
    PROVE  /\ \A d \in Callers \ {c} : pc'[d] = pc[d] /\ now'[d] = now[d]
           /\ \/ old[c].present /\ pc'[c] = "fcounts" /\ UNCHANGED <<now, clock>>
              \/ pc'[c] = "rget" /\ clock' = clock + 1 /\ now'[c] = clock + 1
BY Alone DEF Except

LEMMA CallMoves ==
    ASSUME TypeOK, QueueInv, NEW c \in Callers, Call(c) \/ Return(c) \/ Pop(c)
    PROVE  Moved(c) /\ QueueInv'
<1>1. /\ UNCHANGED <<stored, storeQ, clock>>
      /\ pc[c] \in {"idle", "reply", "done"} /\ pc'[c] \in {"acquire", "wait", "reply", "idle"}
      /\ old'[c] = NoCache \/ (pc[c] # "done" /\ old'[c] = old[c])
      /\ now'[c] \in {0, now[c]}
  BY DEF Call, Start, Join, JoinDone, Return, Pop, Goto, shared, TypeOK
<1>2. OneMoves(c)
  <2>1. CASE Call(c) \/ Return(c)
    BY <2>1 DEF Call, Start, Join, JoinDone, Return, Goto, shared, TypeOK, OneMoves
  <2>2. CASE Pop(c)
    BY <2>2 DEF Pop, TypeOK, OneMoves
  <2> QED
    BY <2>1, <2>2
<1>3. pc[c] \notin InStore /\ pc'[c] \notin InStore
  BY <1>1 DEF InStore, JobStore, WaiterStore
<1>4. QueueInv' /\ QueueKeeps(c)
  BY <1>1, <1>2, <1>3, StaysOut
<1> QED
  BY <1>1, <1>2, <1>4
     DEF Moved, Wrote, Reads, Stamps, Hopes, Drafts, HasRead, Fetching, Clean, Unread, WaiterStore,
         Stamped, Hoping, Writing

LEMMA TimeOutMoves ==
    ASSUME TypeOK, QueueInv, NEW c \in Callers, TimeOut(c)
    PROVE  Moved(c) /\ QueueInv'
<1>1. /\ UNCHANGED <<stored, old, draft>> /\ pc[c] \in {"wait", "reply"} /\ Goto(c, "wget") /\ Stamp(c) /\ Ask(c)
  BY DEF TimeOut
<1>2. OneMoves(c) /\ pc'[c] = "wget" /\ clock' = clock + 1 /\ now'[c] = clock + 1
  BY <1>1, Alone DEF OneMoves
<1>3. QueueInv' /\ QueueKeeps(c) /\ AtEnd(c)
  BY <1>1, <1>2, Enters DEF InStore, JobStore, WaiterStore
<1> QED
  BY <1>1, <1>2, <1>3
     DEF Moved, Wrote, Reads, Stamps, Hopes, Drafts, HasRead, Fetching, Clean, Unread, WaiterStore,
         Stamped, Hoping, Writing

LEMMA AcquireMoves ==
    ASSUME TypeOK, QueueInv, NEW c \in Callers, Acquire(c)
    PROVE  Moved(c) /\ QueueInv'
<1>1. /\ UNCHANGED <<stored, old, draft>> /\ pc[c] = "acquire" /\ Goto(c, "get") /\ Stamp(c) /\ Ask(c)
  BY DEF Acquire
<1>2. OneMoves(c) /\ pc'[c] = "get" /\ clock' = clock + 1 /\ now'[c] = clock + 1
  BY <1>1, Alone DEF OneMoves
<1>3. QueueInv' /\ QueueKeeps(c) /\ AtEnd(c)
  BY <1>1, <1>2, Enters DEF InStore, JobStore, WaiterStore
<1> QED
  BY <1>1, <1>2, <1>3
     DEF Moved, Wrote, Reads, Stamps, Hopes, Drafts, HasRead, Fetching, Clean, Unread, WaiterStore,
         Stamped, Hoping, Writing

(* The set of the program counters, for the steps of a job.                *)
LEMMA PlaceFacts ==
    /\ {"plugins", "fetch", "dns"} \cap InStore = {}
    /\ {"get", "counts", "set", "fcounts", "fset", "rget", "rset", "wget", "wset"} = InStore
    /\ {"reply", "done", "idle", "wait", "acquire"} \cap InStore = {}
    /\ HasRead = {"plugins", "fetch", "dns", "counts", "set", "fcounts", "fset"}
    /\ Clean = {"idle", "wait", "reply", "acquire", "get", "wget", "wset"}
    /\ Stamped = HasRead \cup {"get", "rget", "wget"}
BY DEF InStore, JobStore, WaiterStore, HasRead, Fetching, Clean, Unread, Stamped

LEMMA UpstreamMoves ==
    ASSUME TypeOK, QueueInv, NEW c \in Callers, Upstream(c)
    PROVE  Moved(c) /\ QueueInv'
<1>1. /\ UNCHANGED <<stored, old>> /\ pc[c] \in {"plugins", "fetch", "dns"}
      /\ \A d \in Callers \ {c} : draft'[d] = draft[d]
      /\ \/ \E p \in {"fetch", "dns"} : Goto(c, p) /\ UNCHANGED <<storeQ, now, clock>>
         \/ Goto(c, "counts") /\ Ask(c) /\ UNCHANGED <<now, clock>>
         \/ Except(c) /\ Ask(c)
  BY DEF Upstream, Plugins, FetchBody, FetchNotModified, FetchError, Dns, TypeOK
<1>2. CASE \E p \in {"fetch", "dns"} : Goto(c, p) /\ UNCHANGED <<storeQ, now, clock>>
  <2>1. OneMoves(c) /\ pc'[c] \in {"fetch", "dns"} /\ UNCHANGED <<storeQ, now, clock>>
    BY <1>1, <1>2, Alone DEF OneMoves
  <2>2. QueueInv' /\ QueueKeeps(c)
    BY <1>1, <2>1, StaysOut, PlaceFacts
  <2> QED
    BY <1>1, <2>1, <2>2, PlaceFacts DEF Moved, Wrote, Reads, Stamps, Hopes, Drafts, Hoping, Writing
<1>3. CASE Goto(c, "counts") /\ Ask(c) /\ UNCHANGED <<now, clock>>
  <2>1. OneMoves(c) /\ pc'[c] = "counts"
    BY <1>1, <1>3, Alone DEF OneMoves
  <2>2. QueueInv' /\ QueueKeeps(c) /\ AtEnd(c)
    BY <1>1, <1>3, <2>1, Enters, PlaceFacts
  <2> QED
    BY <1>1, <1>3, <2>1, <2>2, PlaceFacts DEF Moved, Wrote, Reads, Stamps, Hopes, Drafts, Hoping, Writing
<1>4. CASE Except(c) /\ Ask(c)
  <2>1. /\ OneMoves(c)
        /\ \/ pc'[c] = "fcounts" /\ UNCHANGED <<now, clock>>
           \/ pc'[c] = "rget" /\ clock' = clock + 1 /\ now'[c] = clock + 1
    BY <1>1, <1>4, ExceptGoes DEF OneMoves
  <2>2. QueueInv' /\ QueueKeeps(c) /\ AtEnd(c)
    BY <1>1, <1>4, <2>1, Enters, PlaceFacts
  <2> QED
    BY <1>1, <2>1, <2>2, PlaceFacts DEF Moved, Wrote, Reads, Stamps, Hopes, Drafts, Hoping, Writing
<1> QED
  BY <1>1, <1>2, <1>3, <1>4

(* A client that was served and asks again.                                *)
LEMMA AgainMoves ==
    ASSUME TypeOK, QueueInv, CleanInv, NEW c \in Callers, Served(c), AskAgain(c), UNCHANGED <<stored, old>>,
           \A d \in Callers \ {c} : draft'[d] = draft[d],
           \/ pc[c] \in {"get", "counts", "set"} /\ Except(c)
           \/ /\ UNCHANGED <<now, clock>>
              /\ \/ /\ pc[c] = "counts" /\ Goto(c, "set")
                    /\ draft'[c] = Succeeded(draft[c], Latest(c), now[c])
                 \/ /\ pc[c] = "fcounts" /\ Goto(c, "fset")
                    /\ draft'[c] = Failed(old[c], Latest(c), now[c])
                 \/ /\ (pc[c] = "rget" /\ Goto(c, "rset")) \/ (pc[c] = "wget" /\ Goto(c, "wset"))
                    /\ draft'[c] = Failed(stored, stored, now[c])
    PROVE  Moved(c) /\ QueueInv'
<1>1. CASE pc[c] \in {"get", "counts", "set"} /\ Except(c)
  <2>1. /\ OneMoves(c)
        /\ \/ pc[c] # "get" /\ pc'[c] = "fcounts" /\ UNCHANGED <<now, clock>>
           \/ pc'[c] = "rget" /\ clock' = clock + 1 /\ now'[c] = clock + 1
    BY <1>1, ExceptGoes, PlaceFacts DEF OneMoves, CleanInv
  <2>2. QueueInv' /\ QueueKeeps(c)
    BY <2>1, AsksAgain, PlaceFacts
  <2> QED
    BY <1>1, <2>1, <2>2, PlaceFacts DEF Moved, Wrote, Reads, Stamps, Hopes, Drafts, Hoping, Writing
<1>2. CASE pc[c] \notin {"get", "counts", "set"} \/ ~Except(c)
  <2>1. /\ OneMoves(c) /\ UNCHANGED <<now, clock>>
        /\ \/ pc[c] = "counts" /\ pc'[c] = "set" /\ draft'[c] = Succeeded(draft[c], Latest(c), now[c])
           \/ pc[c] = "fcounts" /\ pc'[c] = "fset" /\ draft'[c] = Failed(old[c], Latest(c), now[c])
           \/ /\ (pc[c] = "rget" /\ pc'[c] = "rset") \/ (pc[c] = "wget" /\ pc'[c] = "wset")
              /\ draft'[c] = Failed(stored, stored, now[c])
    BY <1>2, Alone DEF OneMoves
  <2>2. QueueInv' /\ QueueKeeps(c) /\ AtEnd(c)
    BY <2>1, AsksAgain, PlaceFacts
  <2> QED
    BY <2>1, <2>2, PlaceFacts DEF Moved, Wrote, Reads, Stamps, Hopes, Drafts, Hoping, Writing
<1> QED
  BY <1>1, <1>2

(* A client that leaves the store, having written or not.                  *)
LEMMA LeaveMoves ==
    ASSUME TypeOK, QueueInv, NEW c \in Callers,
           pc'[c] \in {"done", "reply"} \/ (pc[c] = "get" /\ pc'[c] = "plugins"),
           \/ pc[c] \in InStore /\ Served(c) /\ LeaveStore
           \/ pc[c] \in InStore /\ \E k \in 1..Len(storeQ) : storeQ[k] = c /\ storeQ' = RemoveAt(storeQ, k)
           \/ pc[c] \notin InStore /\ UNCHANGED storeQ,
           \A d \in Callers \ {c} :
              pc'[d] = pc[d] /\ now'[d] = now[d] /\ old'[d] = old[d] /\ draft'[d] = draft[d],
           pc'[c] = "plugins" => Served(c) /\ old'[c] = stored /\ now'[c] = now[c],
           pc'[c] = "reply" => pc[c] \in {"wait", "wget", "wset"} /\ old'[c] = old[c],
           UNCHANGED clock, now'[c] \in {0, now[c]},
           stored' = stored \/ (stored' = draft[c] /\ pc[c] \in Writing /\ Served(c))
    PROVE  Moved(c) /\ QueueInv'
<1>1. OneMoves(c)
  BY DEF OneMoves
<1>2. pc'[c] \notin InStore
  BY PlaceFacts
<1>3. QueueInv' /\ QueueKeeps(c)
  BY <1>1, <1>2, Leaves, StaysOut
<1> QED
  BY <1>1, <1>2, <1>3, PlaceFacts DEF Moved, Wrote, Reads, Stamps, Hopes, Drafts, Hoping, Writing

LEMMA FinishGoes ==
    ASSUME TypeOK, NEW c \in Callers, NEW r, Finish(c, r)
    PROVE  pc'[c] = "done" /\ \A d \in Callers \ {c} : pc'[d] = pc[d]
BY Alone DEF Finish

LEMMA StoreMoves ==
    ASSUME TypeOK, QueueInv, CleanInv, NEW c \in Callers, StoreStep(c)
    PROVE  Moved(c) /\ QueueInv'
<1>1. Served(c) /\ pc[c] \in InStore
  BY PlaceFacts DEF StoreStep, Get, Counts, Set, FailCounts, FailSet, RecordGet, RecordSkip, RecordSet
<1>2. CASE Get(c)
  <2>1. CASE old' = [old EXCEPT ![c] = stored] /\ Goto(c, "plugins") /\ LeaveStore /\ UNCHANGED <<now, clock>>
    <3>1. /\ pc'[c] = "plugins" /\ pc[c] = "get" /\ old'[c] = stored
          /\ \A d \in Callers \ {c} : pc'[d] = pc[d] /\ old'[d] = old[d]
          /\ UNCHANGED <<stored, draft>>
      BY <1>2, <2>1, Alone DEF Get, TypeOK
    <3> QED
      BY <1>1, <2>1, <3>1, LeaveMoves
  <2>2. CASE Except(c) /\ AskAgain(c) /\ UNCHANGED old
    BY <1>1, <1>2, <2>2, AgainMoves DEF Get
  <2> QED
    BY <1>2, <2>1, <2>2 DEF Get
<1>3. CASE Counts(c)
  <2>1. CASE /\ draft' = [draft EXCEPT ![c] = Succeeded(draft[c], Latest(c), now[c])]
             /\ Goto(c, "set") /\ UNCHANGED <<now, clock>>
    <3>1. /\ draft'[c] = Succeeded(draft[c], Latest(c), now[c])
          /\ \A d \in Callers \ {c} : draft'[d] = draft[d]
      BY <2>1 DEF TypeOK
    <3> QED
      BY <1>1, <1>3, <2>1, <3>1, AgainMoves DEF Counts
  <2>2. CASE Except(c) /\ UNCHANGED draft
    BY <1>1, <1>3, <2>2, AgainMoves DEF Counts
  <2> QED
    BY <1>3, <2>1, <2>2 DEF Counts
<1>4. CASE Set(c)
  <2>1. CASE stored' = draft[c] /\ Finish(c, "ok") /\ LeaveStore /\ UNCHANGED <<now, clock>>
    BY <1>1, <1>4, <2>1, FinishGoes, LeaveMoves DEF Set, Writing
  <2>2. CASE Except(c) /\ AskAgain(c) /\ UNCHANGED stored
    BY <1>1, <1>4, <2>2, AgainMoves DEF Set
  <2> QED
    BY <1>4, <2>1, <2>2 DEF Set
<1>5. CASE FailCounts(c)
  <2>1. CASE draft' = [draft EXCEPT ![c] = Failed(old[c], Latest(c), now[c])] /\ Goto(c, "fset") /\ AskAgain(c)
    <3>1. /\ draft'[c] = Failed(old[c], Latest(c), now[c])
          /\ \A d \in Callers \ {c} : draft'[d] = draft[d]
      BY <2>1 DEF TypeOK
    <3> QED
      BY <1>1, <1>5, <2>1, <3>1, AgainMoves DEF FailCounts
  <2>2. CASE Finish(c, "raised") /\ LeaveStore /\ UNCHANGED draft
    BY <1>1, <1>5, <2>2, FinishGoes, LeaveMoves DEF FailCounts
  <2> QED
    BY <1>5, <2>1, <2>2 DEF FailCounts
<1>6. CASE FailSet(c)
  <2>1. Finish(c, "failed") \/ Finish(c, "raised")
    BY <1>6 DEF FailSet
  <2>2. stored' = stored \/ stored' = draft[c]
    BY <1>6 DEF FailSet
  <2> QED
    BY <1>1, <1>6, <2>1, <2>2, FinishGoes, LeaveMoves DEF FailSet, Writing
<1>7. CASE RecordGet(c)
  <2>1. /\ draft'[c] = Failed(stored, stored, now[c])
        /\ \A d \in Callers \ {c} : draft'[d] = draft[d]
    BY <1>7 DEF RecordGet, TypeOK
  <2>2. (pc[c] = "rget" /\ Goto(c, "rset")) \/ (pc[c] = "wget" /\ Goto(c, "wset"))
    BY <1>7 DEF RecordGet
  <2> QED
    BY <1>1, <1>7, <2>1, <2>2, AgainMoves DEF RecordGet
<1>8. CASE RecordSkip(c) \/ RecordSet(c)
  <2>1. /\ LeaveStore /\ UNCHANGED <<old, clock>>
        /\ stored' = stored \/ (stored' = draft[c] /\ pc[c] \in Writing)
    BY <1>8 DEF RecordSkip, RecordSet, Writing
  <2>2. CASE JobRecorded(c)
    BY <1>1, <2>1, <2>2, FinishGoes, LeaveMoves DEF JobRecorded
  <2>3. CASE WaiterRecorded(c) /\ pc[c] \in {"wget", "wset"}
    <3>1. /\ pc'[c] = "reply" /\ now'[c] = 0
          /\ \A d \in Callers \ {c} : pc'[d] = pc[d] /\ now'[d] = now[d] /\ draft'[d] = draft[d]
      BY <2>3, Alone DEF WaiterRecorded, TypeOK
    <3> QED
      BY <1>1, <2>1, <2>3, <3>1, LeaveMoves
  <2>4. pc[c] \in {"rget", "rset"} => pc[c] \in InJob
    BY DEF InJob, Locked, JobStore
  <2> QED
    BY <1>8, <2>2, <2>3, <2>4 DEF RecordSkip, RecordSet
<1> QED
  BY <1>2, <1>3, <1>4, <1>5, <1>6, <1>7, <1>8 DEF StoreStep

LEMMA CancelMoves ==
    ASSUME TypeOK, QueueInv, NEW c \in Callers, CancelJob(c) \/ CancelWaiter(c)
    PROVE  Moved(c) /\ QueueInv'
<1>1. LeaveAnyQueue(c) /\ UNCHANGED <<old, clock>>
  BY DEF CancelJob, CancelWaiter
<1>2. \/ pc[c] \in InStore /\ \E k \in 1..Len(storeQ) : storeQ[k] = c /\ storeQ' = RemoveAt(storeQ, k)
      \/ pc[c] \notin InStore /\ UNCHANGED storeQ
  BY <1>1 DEF LeaveAnyQueue
<1>3. \/ stored' = stored
      \/ stored' = draft[c] /\ pc[c] \in Writing /\ Served(c)
  <2>1. CASE pc[c] \in Writing /\ Served(c)
    <3>1. \A d \in Callers : Served(d) => d = c
      BY <2>1 DEF Served
    <3> QED
      BY <2>1, <3>1 DEF CancelJob, CancelWaiter, TornWrite
  <2>2. CASE ~(pc[c] \in Writing /\ Served(c))
    BY <2>2 DEF CancelJob, CancelWaiter
  <2> QED
    BY <2>1, <2>2
<1>4. CASE CancelJob(c)
  <2>1. /\ pc'[c] = "done" /\ UNCHANGED <<now, draft>>
        /\ \A d \in Callers \ {c} : pc'[d] = pc[d]
    BY <1>4, FinishGoes, Alone DEF CancelJob
  <2> QED
    BY <1>1, <1>2, <1>3, <2>1, LeaveMoves
<1>5. CASE CancelWaiter(c)
  <2>1. /\ pc'[c] = "reply" /\ now'[c] = 0 /\ pc[c] \in {"wait", "wget", "wset"}
        /\ \A d \in Callers \ {c} : pc'[d] = pc[d] /\ now'[d] = now[d] /\ draft'[d] = draft[d]
    BY <1>5, Alone DEF CancelWaiter, WaiterStore, TypeOK
  <2> QED
    BY <1>1, <1>2, <1>3, <2>1, LeaveMoves
<1> QED
  BY <1>4, <1>5

(* Every step is one of a caller, or ends all of them, or touches at most  *)
(* the file.                                                               *)
LEMMA Steps ==
    ASSUME TypeOK, QueueInv, CleanInv, [Next]_vars
    PROVE  \/ QueueInv' /\ \E c \in Callers : Moved(c)
           \/ Restart
           \/ UNCHANGED <<storeQ, pc, now, old, draft, clock>> /\ (stored' = stored \/ (MayLoseFile /\ stored' = NoCache))
<1>1. CASE Stop \/ LoseFile \/ Terminated \/ UNCHANGED vars
  BY <1>1 DEF Stop, LoseFile, Terminated, vars, shared, local
<1>2. ASSUME NEW c \in Callers,
             Call(c) \/ TimeOut(c) \/ Step(c) \/ Upstream(c) \/ CancelJob(c) \/ CancelWaiter(c)
      PROVE  Moved(c) /\ QueueInv'
  BY <1>2, CallMoves, TimeOutMoves, AcquireMoves, StoreMoves, UpstreamMoves, CancelMoves DEF Step
<1> QED
  BY <1>1, <1>2 DEF Next

----------------------------------------------------------------------------
(* The times of successes                                                  *)

(* No success that is stored, was read or is about to be written is later  *)
(* than t.                                                                 *)
Bounded(t) ==
    /\ stored.suc <= t
    /\ \A d \in Callers : /\ pc[d] \in HasRead => old[d].suc <= t
                          /\ pc[d] \in Writing => draft[d].suc <= t

NextBounded(t) ==
    /\ stored'.suc <= t
    /\ \A d \in Callers : /\ pc'[d] \in HasRead => old'[d].suc <= t
                          /\ pc'[d] \in Writing => draft'[d].suc <= t

(* Whoever has a time-stamp knows of no later success; a job whose success *)
(* would be later than the stamp of a waiter that has yet to read is       *)
(* behind it in the queue, and has read nothing.                           *)
TimesInv ==
    /\ Bounded(clock) /\ \A c \in Callers : now[c] <= clock
    /\ \A c \in Callers : pc[c] \in Stamped => Bounded(now[c])
    /\ \A c, d \in Callers :
          pc[c] = "wget" /\ pc[d] \in Hoping /\ now[c] < now[d] => pc[d] = "get" /\ Ahead(storeQ, c, d)
    /\ SuccessNotAfterAttempt
    /\ \A c \in Callers : pc[c] \in Writing => draft[c].suc <= draft[c].att

LEMMA NumberTypes ==
    ASSUME TypeOK
    PROVE  /\ stored.suc \in Nat /\ stored.att \in Nat /\ stored.tries \in Nat /\ clock \in Nat
           /\ \A c \in Callers : /\ now[c] \in Nat /\ old[c].suc \in Nat /\ draft[c].suc \in Nat
                                 /\ draft[c].att \in Nat /\ old[c].tries \in Nat /\ draft[c].tries \in Nat
BY DEF TypeOK, Records

LEMMA DraftSuccess ==
    ASSUME NEW c \in Callers, Drafts(c), pc'[c] \in Writing
    PROVE  /\ draft'[c].att = now[c] /\ draft'[c].present
           /\ \/ pc[c] = "counts" /\ draft'[c].suc = now[c]
              \/ pc[c] = "fcounts" /\ draft'[c].suc = old[c].suc
              \/ pc[c] \in {"rget", "wget"} /\ draft'[c].suc = stored.suc
BY DEF Drafts, Succeeded, Failed

LEMMA StaysBounded ==
    ASSUME NEW c \in Callers, Moved(c), NEW t \in Nat, Bounded(t), pc[c] = "counts" => now[c] <= t
    PROVE  NextBounded(t)
<1>1. /\ stored.suc <= t
      /\ \A d \in Callers : pc[d] \in HasRead => old[d].suc <= t
      /\ \A d \in Callers : pc[d] \in Writing => draft[d].suc <= t
  BY DEF Bounded
<1>2. /\ stored' = stored \/ (stored' = draft[c] /\ pc[c] \in Writing)
      /\ pc'[c] \in HasRead => old'[c] = stored \/ (pc[c] \in HasRead /\ old'[c] = old[c])
      /\ \A d \in Callers \ {c} : /\ old'[d] = old[d] /\ draft'[d] = draft[d]
                                  /\ pc'[d] = pc[d] \/ pc'[d] = "reply"
  BY DEF Moved, Wrote, Reads, OneMoves
<1>3. "reply" \notin HasRead /\ "reply" \notin Writing /\ "fcounts" \in HasRead
  BY PlaceFacts DEF Writing
<1>4. stored'.suc <= t
  BY <1>1, <1>2
<1>5. ASSUME NEW d \in Callers, pc'[d] \in HasRead PROVE old'[d].suc <= t
  <2>1. CASE d = c
    BY <1>1, <1>2, <1>5, <2>1
  <2>2. CASE d # c
    BY <1>1, <1>2, <1>3, <1>5, <2>2
  <2> QED
    BY <2>1, <2>2
<1>6. ASSUME NEW d \in Callers, pc'[d] \in Writing PROVE draft'[d].suc <= t
  <2>1. CASE d = c
    <3>1. \/ pc[c] = "counts" /\ draft'[c].suc = now[c]
          \/ pc[c] = "fcounts" /\ draft'[c].suc = old[c].suc
          \/ draft'[c].suc = stored.suc
      BY <1>6, <2>1, DraftSuccess DEF Moved
    <3> QED
      BY <1>1, <1>3, <2>1, <3>1
  <2>2. CASE d # c
    BY <1>1, <1>2, <1>3, <1>6, <2>2
  <2> QED
    BY <2>1, <2>2
<1> QED
  BY <1>4, <1>5, <1>6 DEF NextBounded

LEMMA MovedTimes ==
    ASSUME TypeOK, TypeOK', FlightInv, QueueInv, TimesInv, NEW c \in Callers, Moved(c)
    PROVE  TimesInv'
<1>1. /\ clock \in Nat /\ clock' \in {clock, clock + 1} /\ \A d \in Callers : now[d] \in Nat /\ now[d] <= clock
      /\ \A d \in Callers : now'[d] \in Nat
  BY NumberTypes DEF Moved, Stamps, TimesInv, TypeOK
<1>2. \A d \in Callers : now'[d] <= clock'
  BY <1>1 DEF Moved, OneMoves, Stamps
<1>3. NextBounded(clock')
  <2>1. Bounded(clock')
    <3>1. clock' \in Nat /\ clock <= clock'
      BY <1>1
    <3>2. /\ stored.suc <= clock
          /\ \A d \in Callers : pc[d] \in HasRead => old[d].suc <= clock
          /\ \A d \in Callers : pc[d] \in Writing => draft[d].suc <= clock
      BY DEF TimesInv, Bounded
    <3>3. /\ stored.suc <= clock'
          /\ \A d \in Callers : pc[d] \in HasRead => old[d].suc <= clock'
          /\ \A d \in Callers : pc[d] \in Writing => draft[d].suc <= clock'
      BY <1>1, <3>1, <3>2, NumberTypes
    <3> QED
      BY <3>3 DEF Bounded
  <2>2. clock' \in Nat /\ now[c] <= clock'
    BY <1>1
  <2> QED
    BY <2>1, <2>2, StaysBounded
<1>4. ASSUME NEW e \in Callers, pc'[e] \in Stamped PROVE NextBounded(now'[e])
  <2>1. now'[e] = clock' \/ (now'[e] = now[e] /\ pc[e] \in Stamped)
    <3>1. CASE e = c
      BY <1>4, <3>1 DEF Moved, Stamps
    <3>2. CASE e # c
      BY <1>4, <3>2, PlaceFacts DEF Moved, OneMoves
    <3> QED
      BY <3>1, <3>2
  <2>2. CASE now'[e] = clock'
    BY <1>3, <2>2
  <2>3. CASE now'[e] = now[e] /\ pc[e] \in Stamped
    <3>1. Bounded(now[e]) /\ now[e] \in Nat
      BY <1>1, <2>3 DEF TimesInv
    <3>2. pc[c] = "counts" => now[c] <= now[e]
      <4> SUFFICES ASSUME pc[c] = "counts", e # c PROVE now[c] <= now[e]
        BY <1>1
      <4>1. pc[e] = "wget"
        BY <2>3, PlaceFacts DEF FlightInv, SingleFlight, InJob, Locked, Fetching, JobStore
      <4>2. ~(now[e] < now[c])
        BY <4>1 DEF TimesInv, Hoping
      <4> QED
        BY <1>1, <4>2
    <3>3. NextBounded(now[e])
      BY <3>1, <3>2, StaysBounded
    <3> QED
      BY <2>3, <3>3
  <2> QED
    BY <2>1, <2>2, <2>3
<1>5. ASSUME NEW e \in Callers, NEW d \in Callers, pc'[e] = "wget", pc'[d] \in Hoping, now'[e] < now'[d]
      PROVE  pc'[d] = "get" /\ Ahead(storeQ', e, d)
  <2>1. e # d
    BY <1>1, <1>5
  <2>2. CASE e = c
    <3>1. now'[e] = clock + 1
      BY <1>5, <2>2 DEF Moved, Stamps
    <3>2. now'[d] = now[d]
      BY <2>1, <2>2 DEF Moved, OneMoves
    <3> QED
      BY <1>1, <1>5, <3>1, <3>2
  <2>3. CASE e # c
    <3>1. pc[e] = "wget" /\ now'[e] = now[e]
      BY <1>5, <2>3 DEF Moved, OneMoves
    <3>2. CASE d # c
      <4>1. pc[d] = pc'[d] /\ now'[d] = now[d]
        BY <1>5, <3>2 DEF Moved, OneMoves, Hoping
      <4>2. pc[d] = "get" /\ Ahead(storeQ, e, d)
        BY <1>5, <3>1, <4>1 DEF TimesInv
      <4> QED
        BY <2>3, <3>2, <4>1, <4>2 DEF Moved, QueueKeeps
    <3>3. CASE d = c /\ pc'[c] = "get" /\ AtEnd(c)
      BY <2>3, <3>1, <3>3, PlaceFacts DEF AtEnd
    <3>4. CASE d = c /\ pc[c] \in Hoping /\ now'[c] = now[c] /\ (pc[c] = "get" => Served(c))
      <4>1. pc[c] = "get" /\ Ahead(storeQ, e, c)
        BY <1>5, <3>1, <3>4 DEF TimesInv
      <4> QED
        BY <3>4, <4>1, ServedFirst
    <3> QED
      BY <1>5, <3>2, <3>3, <3>4 DEF Moved, Hopes
  <2> QED
    BY <2>2, <2>3
<1>6. SuccessNotAfterAttempt'
  BY DEF Moved, Wrote, TimesInv, SuccessNotAfterAttempt
<1>7. ASSUME NEW d \in Callers, pc'[d] \in Writing PROVE draft'[d].suc <= draft'[d].att
  <2>1. CASE d # c
    BY <1>7, <2>1 DEF Moved, OneMoves, TimesInv, Writing
  <2>2. CASE d = c
    <3>1. pc[c] \in {"counts", "fcounts", "rget", "wget"} /\ draft'[c].att = now[c]
      BY <1>7, <2>2, DraftSuccess DEF Moved
    <3>2. Bounded(now[c])
      BY <3>1, PlaceFacts DEF TimesInv
    <3>3. pc[c] = "fcounts" => old[c].suc <= now[c]
      <4>1. \A e \in Callers : pc[e] \in HasRead => old[e].suc <= now[c]
        BY <3>2 DEF Bounded
      <4> QED
        BY <4>1, PlaceFacts
    <3>4. draft'[c].suc <= now[c]
      BY <1>1, <1>7, <2>2, <3>2, <3>3, DraftSuccess DEF Moved, Bounded
    <3> QED
      BY <2>2, <3>1, <3>4
  <2> QED
    BY <2>1, <2>2
<1> QED
  BY <1>2, <1>3, <1>4, <1>5, <1>6, <1>7 DEF TimesInv, Bounded, NextBounded

LEMMA MovedClean ==
    ASSUME CleanInv, NEW c \in Callers, Moved(c)
    PROVE  CleanInv'
<1>1. "wait" \in Clean /\ "reply" \in Clean /\ ~NoCache.present
  BY PlaceFacts DEF NoCache
<1>2. ASSUME NEW d \in Callers, pc'[d] \in Clean PROVE ~old'[d].present
  <2>1. CASE d = c
    BY <1>1, <1>2, <2>1 DEF Moved, Reads, CleanInv
  <2>2. CASE d # c
    BY <1>1, <1>2, <2>2 DEF Moved, OneMoves, CleanInv
  <2> QED
    BY <2>1, <2>2
<1> QED
  BY <1>2 DEF CleanInv

OrderInv == QueueInv /\ CleanInv /\ TimesInv

(* Whatever is left on disk when the process ends was stored or about to   *)
(* be.                                                                     *)
LEMMA RestartOrder ==
    ASSUME TypeOK, OrderInv, Restart
    PROVE  OrderInv'
<1>1. /\ storeQ' = <<>> /\ clock' = clock
      /\ \A c \in Callers : pc'[c] = "idle" /\ now'[c] = 0 /\ old'[c] = NoCache
      /\ stored' = stored \/ \E c \in Callers : pc[c] \in Writing /\ stored' = draft[c]
  BY DEF Restart, Each, TornWrite
<1>2. /\ "idle" \notin InStore /\ "idle" \notin HasRead /\ "idle" \notin Writing
      /\ "idle" \notin Stamped /\ "idle" \notin Hoping /\ ~NoCache.present
  BY PlaceFacts DEF Writing, Hoping, NoCache
<1>3. QueueInv' /\ CleanInv'
  BY <1>1, <1>2 DEF QueueInv, CleanInv, Distinct, ToSet
<1>4. stored'.suc <= clock /\ stored'.suc <= stored'.att
  <2>1. /\ stored.suc <= clock /\ stored.suc <= stored.att
        /\ \A c \in Callers : pc[c] \in Writing => draft[c].suc <= clock /\ draft[c].suc <= draft[c].att
    BY DEF OrderInv, TimesInv, Bounded, SuccessNotAfterAttempt
  <2> QED
    BY <1>1, <2>1
<1>5. clock \in Nat
  BY DEF TypeOK
<1>6. TimesInv'
  BY <1>1, <1>2, <1>4, <1>5 DEF TimesInv, Bounded, SuccessNotAfterAttempt
<1> QED
  BY <1>3, <1>6 DEF OrderInv

LEMMA QuietOrder ==
    ASSUME TypeOK, OrderInv, UNCHANGED <<storeQ, pc, now, old, draft, clock>>,
           stored' = stored \/ stored' = NoCache
    PROVE  OrderInv'
<1>1. QueueInv' /\ CleanInv'
  BY DEF OrderInv, QueueInv, CleanInv
<1>2. CASE stored' = stored
  BY <1>1, <1>2 DEF OrderInv, TimesInv, Bounded, SuccessNotAfterAttempt
<1>3. CASE stored' = NoCache
  <2>1. clock \in Nat /\ (\A c \in Callers : now[c] \in Nat) /\ NoCache.suc = 0 /\ NoCache.att = 0
    BY DEF TypeOK, NoCache
  <2>2. \A t \in Nat : Bounded(t) => NextBounded(t)
    BY <1>3, <2>1 DEF Bounded, NextBounded
  <2>3. NextBounded(clock') /\ \A c \in Callers : pc'[c] \in Stamped => NextBounded(now'[c])
    BY <2>1, <2>2 DEF OrderInv, TimesInv
  <2>4. SuccessNotAfterAttempt'
    BY <1>3, <2>1 DEF SuccessNotAfterAttempt
  <2>5. TimesInv'
    BY <2>3, <2>4 DEF OrderInv, TimesInv, Bounded, NextBounded
  <2> QED
    BY <1>1, <2>5 DEF OrderInv
<1> QED
  BY <1>2, <1>3

LEMMA OrderInit == Init => OrderInv
<1> SUFFICES ASSUME Init PROVE OrderInv
  OBVIOUS
<1>1. /\ storeQ = <<>> /\ clock = 0 /\ stored = NoCache
      /\ \A c \in Callers : pc[c] = "idle" /\ now[c] = 0 /\ old[c] = NoCache
  BY DEF Init, Each
<1>2. /\ "idle" \notin InStore /\ "idle" \notin HasRead /\ "idle" \notin Writing
      /\ "idle" \notin Stamped /\ "idle" \notin Hoping
      /\ ~NoCache.present /\ NoCache.suc = 0 /\ NoCache.att = 0
  BY PlaceFacts DEF Writing, Hoping, NoCache
<1>3. QueueInv /\ CleanInv
  BY <1>1, <1>2 DEF QueueInv, CleanInv, Distinct, ToSet
<1>4. TimesInv
  BY <1>1, <1>2 DEF TimesInv, Bounded, SuccessNotAfterAttempt
<1> QED
  BY <1>3, <1>4 DEF OrderInv

LEMMA OrderStep ==
    ASSUME TypeOK, TypeOK', FlightInv, OrderInv, [Next]_vars
    PROVE  OrderInv'
<1>1. CASE QueueInv' /\ \E c \in Callers : Moved(c)
  BY <1>1, MovedTimes, MovedClean DEF OrderInv
<1>2. CASE Restart
  BY <1>2, RestartOrder
<1>3. CASE UNCHANGED <<storeQ, pc, now, old, draft, clock>> /\ (stored' = stored \/ stored' = NoCache)
  BY <1>3, QuietOrder
<1> QED
  BY <1>1, <1>2, <1>3, Steps DEF OrderInv

LEMMA Ordered == Spec => []OrderInv
<1>1. Spec => []FlightInv
  BY OneFlight, PTL DEF FlightInv
<1> QED
  BY <1>1, OrderInit, OrderStep, TypeCorrect, PTL DEF Spec

(* No stored record says that the last success came after the last         *)
(* attempt, whatever the calls, time-outs, failures, cancellations and     *)
(* kills: the store serves in arrival order (refresher.py:187-205, 234).   *)
THEOREM SuccessesInOrder == Spec => []SuccessNotAfterAttempt
<1>1. OrderInv => SuccessNotAfterAttempt
  BY DEF OrderInv, TimesInv
<1> QED
  BY <1>1, Ordered, PTL

----------------------------------------------------------------------------
(* The attempt counter                                                     *)

(* A client that is about to write has counted one attempt more than was   *)
(* stored when it read; those ahead of it in the queue read before.        *)
TriesInv ==
    /\ ~stored.present => stored.tries = 0 /\ \A d \in Callers : pc[d] \in HasRead => old[d].tries = 0
    /\ \A d \in Callers : pc[d] \in Writing =>
          draft[d].present /\ stored.tries <= draft[d].tries /\ draft[d].tries <= stored.tries + 1
    /\ \A d, e \in Callers : pc[d] \in Writing /\ pc[e] \in Writing /\ Ahead(storeQ, d, e) =>
          draft[d].tries <= draft[e].tries

LEMMA DraftTries ==
    ASSUME TypeOK, TriesInv, NEW c \in Callers, Drafts(c), pc'[c] \in Writing
    PROVE  stored' = stored /\ AtEnd(c) /\ draft'[c].present /\ draft'[c].tries = stored.tries + 1
<1>1. "counts" \in HasRead /\ "fcounts" \in HasRead
  BY PlaceFacts
<1>2. pc[c] \in {"counts", "fcounts"} => Latest(c).tries = stored.tries
  BY <1>1 DEF Latest, TriesInv
<1>3. /\ stored' = stored /\ AtEnd(c) /\ draft'[c].present
      /\ \/ pc[c] \in {"counts", "fcounts"} /\ draft'[c].tries = Latest(c).tries + 1
         \/ draft'[c].tries = stored.tries + 1
  BY DEF Drafts, Succeeded, Failed
<1> QED
  BY <1>2, <1>3

LEMMA MovedTries ==
    ASSUME TypeOK, TypeOK', QueueInv, TriesInv, NEW c \in Callers, Moved(c)
    PROVE  TriesInv'
<1>1. /\ "reply" \notin HasRead /\ "reply" \notin Writing /\ Writing \subseteq InStore
  BY PlaceFacts DEF Writing
<1>2. ASSUME NEW d \in Callers \ {c}
      PROVE  /\ old'[d] = old[d] /\ draft'[d] = draft[d]
             /\ pc'[d] \in HasRead => pc[d] \in HasRead
             /\ pc'[d] \in Writing => pc[d] \in Writing
  BY <1>1 DEF Moved, OneMoves
<1>3. /\ stored.tries \in Nat /\ stored'.tries \in Nat
      /\ \A d \in Callers : draft[d].tries \in Nat /\ draft'[d].tries \in Nat
  BY NumberTypes DEF TypeOK, Records
<1>4. \/ stored' = stored
      \/ stored' = draft[c] /\ pc[c] \in Writing /\ Served(c) /\ pc'[c] \notin InStore
  BY DEF Moved, Wrote
<1>5. ~stored'.present => stored'.tries = 0 /\ \A d \in Callers : pc'[d] \in HasRead => old'[d].tries = 0
  <2> SUFFICES ASSUME ~stored'.present
               PROVE  stored'.tries = 0 /\ \A d \in Callers : pc'[d] \in HasRead => old'[d].tries = 0
    OBVIOUS
  <2>1. stored' = stored /\ ~stored.present
    BY <1>4 DEF TriesInv
  <2>2. stored.tries = 0 /\ \A d \in Callers : pc[d] \in HasRead => old[d].tries = 0
    BY <2>1 DEF TriesInv
  <2>3. pc'[c] \in HasRead => old'[c] = stored \/ (pc[c] \in HasRead /\ old'[c] = old[c])
    BY DEF Moved, Reads
  <2> QED
    BY <1>2, <2>1, <2>2, <2>3
<1>6. CASE pc'[c] \in Writing
  <2>1. stored' = stored /\ AtEnd(c) /\ draft'[c].present /\ draft'[c].tries = stored.tries + 1
    BY <1>6, DraftTries DEF Moved
  <2>2. ASSUME NEW d \in Callers, pc'[d] \in Writing
        PROVE  draft'[d].present /\ stored.tries <= draft'[d].tries /\ draft'[d].tries <= stored.tries + 1
    <3>1. CASE d = c
      BY <1>3, <2>1, <3>1
    <3>2. CASE d # c
      BY <1>2, <2>2, <3>2 DEF TriesInv
    <3> QED
      BY <3>1, <3>2
  <2>3. ASSUME NEW d \in Callers, NEW e \in Callers, pc'[d] \in Writing, pc'[e] \in Writing,
               Ahead(storeQ', d, e)
        PROVE  draft'[d].tries <= draft'[e].tries
    <3>1. CASE e = c
      BY <2>1, <2>2, <2>3, <3>1
    <3>2. CASE e # c
      <4>1. pc[e] \in InStore
        BY <1>1, <1>2, <2>3, <3>2
      <4>2. d # c
        BY <2>1, <2>3, <3>2, <4>1 DEF AtEnd
      <4>3. Ahead(storeQ, d, e)
        BY <2>3, <3>2, <4>2 DEF Moved, QueueKeeps
      <4> QED
        BY <1>2, <2>3, <3>2, <4>2, <4>3 DEF TriesInv
    <3> QED
      BY <3>1, <3>2
  <2> QED
    BY <1>5, <2>1, <2>2, <2>3 DEF TriesInv
<1>7. CASE pc'[c] \notin Writing
  <2>1. ASSUME NEW d \in Callers, pc'[d] \in Writing
        PROVE  d # c /\ pc[d] \in Writing /\ draft'[d] = draft[d] /\ draft[d].present
    BY <1>2, <1>7, <2>1 DEF TriesInv
  <2>2. ASSUME NEW d \in Callers, pc'[d] \in Writing
        PROVE  stored'.tries <= draft[d].tries /\ draft[d].tries <= stored'.tries + 1
    <3>1. stored.tries <= draft[d].tries /\ draft[d].tries <= stored.tries + 1
      BY <2>1, <2>2 DEF TriesInv
    <3>2. CASE stored' = stored
      BY <3>1, <3>2
    <3>3. CASE stored' = draft[c] /\ pc[c] \in Writing /\ Served(c)
      <4>1. Ahead(storeQ, c, d)
        BY <1>1, <2>1, <2>2, <3>3, ServedFirst
      <4>2. draft[c].tries <= draft[d].tries /\ stored.tries <= draft[c].tries
        BY <2>1, <2>2, <3>3, <4>1 DEF TriesInv
      <4> QED
        BY <1>3, <3>1, <3>3, <4>2
    <3> QED
      BY <1>4, <3>2, <3>3
  <2>3. ASSUME NEW d \in Callers, NEW e \in Callers, pc'[d] \in Writing, pc'[e] \in Writing,
               Ahead(storeQ', d, e)
        PROVE  draft'[d].tries <= draft'[e].tries
    <3>1. d # c /\ e # c
      BY <2>1, <2>3
    <3>2. Ahead(storeQ, d, e)
      BY <2>3, <3>1 DEF Moved, QueueKeeps
    <3> QED
      BY <2>1, <2>3, <3>2 DEF TriesInv
  <2> QED
    BY <1>5, <2>1, <2>2, <2>3 DEF TriesInv
<1> QED
  BY <1>6, <1>7

(* What a step may leave in the file.                                      *)
CountKept == stored'.tries >= stored.tries

LEMMA TriesStep ==
    ASSUME ~MayLoseFile, TypeOK, TypeOK', OrderInv, TriesInv, [Next]_vars
    PROVE  TriesInv' /\ CountKept
<1>1. /\ stored.tries \in Nat
      /\ \A d \in Callers : pc[d] \in Writing => draft[d].present /\ stored.tries <= draft[d].tries
  BY NumberTypes DEF TriesInv
<1>2. ASSUME NEW c \in Callers, Moved(c) PROVE TriesInv' /\ CountKept
  <2>1. TriesInv'
    BY <1>2, MovedTries DEF OrderInv
  <2>2. stored' = stored \/ (stored' = draft[c] /\ pc[c] \in Writing)
    BY <1>2 DEF Moved, Wrote
  <2>3. stored.tries <= stored'.tries
    BY <1>1, <2>2
  <2> QED
    BY <1>1, <2>1, <2>3, NumberTypes DEF CountKept, TypeOK, Records
<1>3. CASE Restart
  <2>1. /\ \A c \in Callers : pc'[c] = "idle"
        /\ stored' = stored \/ \E c \in Callers : pc[c] \in Writing /\ stored' = draft[c]
    BY <1>3 DEF Restart, Each, TornWrite
  <2>2. "idle" \notin HasRead /\ "idle" \notin Writing
    BY PlaceFacts DEF Writing
  <2>3. /\ ~stored'.present => stored' = stored
        /\ stored.tries <= stored'.tries
    BY <1>1, <2>1
  <2>4. TriesInv'
    BY <2>1, <2>2, <2>3 DEF TriesInv
  <2> QED
    BY <1>1, <2>3, <2>4, NumberTypes DEF CountKept, TypeOK, Records
<1>4. CASE UNCHANGED <<storeQ, pc, old, draft, stored>>
  BY <1>1, <1>4 DEF TriesInv, CountKept
<1> QED
  BY <1>2, <1>3, <1>4, Steps DEF OrderInv

LEMMA TriesInit == Init => TriesInv
<1> SUFFICES ASSUME Init PROVE TriesInv
  OBVIOUS
<1>1. /\ stored.tries = 0 /\ \A c \in Callers : pc[c] = "idle"
  BY DEF Init, Each, NoCache
<1>2. "idle" \notin HasRead /\ "idle" \notin Writing
  BY PlaceFacts DEF Writing
<1> QED
  BY <1>1, <1>2 DEF TriesInv

(* Unless the cache file is lost, the attempt counter never goes back: the *)
(* job, its failure path and the waiters that give up each read it, await  *)
(* and write it, and write in the order they read, through cancellations   *)
(* and kills (refresher.py:177-181, 197-214).                              *)
THEOREM AttemptsInOrder ==
    ASSUME ~MayLoseFile
    PROVE  Spec => AttemptsNeverDecrease
<1>1. TypeOK /\ TypeOK' /\ OrderInv /\ TriesInv /\ [Next]_vars => TriesInv'
  BY TriesStep
<1>2. TypeOK /\ TypeOK' /\ OrderInv /\ TriesInv /\ [Next]_vars =>
          [stored.present /\ stored'.present => stored'.tries >= stored.tries]_stored
  BY TriesStep DEF CountKept
<1> QED
  BY <1>1, <1>2, TriesInit, Ordered, TypeCorrect, PTL DEF Spec, AttemptsNeverDecrease

=============================================================================
