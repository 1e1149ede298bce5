------------------------- MODULE RepeaterAesProofs -------------------------
(***************************************************************************)
(* Proofs about RepeaterAes, for any finite set of threads, any MACs and   *)
(* any size of the table: types and the limit of the table, the number of  *)
(* duplicates, and that enc_get reads only what is the MAC's as long as no  *)
(* entry at or before its pointer is removed.                              *)
(***************************************************************************)
EXTENDS RepeaterAes, TLAPS, FiniteSetTheorems, FunctionTheorems,
        WellFoundedInduction

Reading == {"readKey", "readIv", "use"}

\* Every entry, and every quadruple that is about to be added, has key and IV of
\* its own MAC.
Faithful(q) == q.mac \in Mac /\ q.key \in Own(q.mac) /\ q.iv \in Own(q.mac)
AllFaithful ==
    /\ \A i \in 1..Len(quadruples) : Faithful(quadruples[i])
    /\ \A t \in Thread : pc[t] = "add" => Faithful(arg[t])

\* An enc_get under whose pointer nothing has moved points to an entry of its
\* MAC, and has read what is the MAC's so far.
Holding(t) ==
    /\ slot[t] \in 1..Len(quadruples) /\ quadruples[slot[t]].mac = arg[t].mac
    /\ pc[t] \in {"readIv", "use"} => enc[t].key \in Own(arg[t].mac) \cup {Torn}
    /\ pc[t] = "use" => enc[t].iv \in Own(arg[t].mac) \cup {Torn}
Unmoved == \A t \in Thread : pc[t] \in Reading /\ race[t] # "moved" => Holding(t)

\* The two parts of DuplicatesBounded: entries of m, and additions of it.
Held(m) == {i \in 1..Len(quadruples) : quadruples[i].mac = m}
Adding(m) == {t \in Thread : pc[t] = "add" /\ arg[t].mac = m}

\* An addition that is under way is of a MAC.
Pending == \A t \in Thread : pc[t] = "add" => arg[t].mac \in Mac

RInv == TypeOK /\ Pending /\ AllFaithful /\ Unmoved /\ DuplicatesBounded

-----------------------------------------------------------------------------
(* Lemmas about the table                                                  *)

(* The empty sequence is a table.                                          *)
LEMMA EmptyTable == <<>> \in Seq(Entry) /\ Len(<<>>) = 0
OBVIOUS

(* An entry, or what is behind the table, has fields of the right kind.    *)
LEMMA AtType ==
    ASSUME TypeOK, NEW i
    PROVE  /\ At(quadruples, i).key \in Secrets /\ At(quadruples, i).iv \in Secrets
           /\ At(quadruples, i).mac \in Mac => i \in 1..Len(quadruples)
<1>1. CASE i \in 1..Len(quadruples)
  <2>1. quadruples[i] \in Entry
    BY <1>1 DEF TypeOK
  <2> QED BY <1>1, <2>1 DEF At, Entry
<1>2. CASE i \notin 1..Len(quadruples)
  BY <1>2, RepeaterAssumption DEF At, NoEntry, Secrets
<1> QED BY <1>1, <1>2

(* The first n numbers are n.                                              *)
LEMMA UpTo == ASSUME NEW n \in Nat PROVE IsFiniteSet(1..n) /\ Cardinality(1..n) = n
<1>1. IsFiniteSet(1..n) /\ Cardinality(1..n) = IF 1 > n THEN 0 ELSE n - 1 + 1
  BY FS_Interval
<1>2. CASE n = 0
  BY <1>1, <1>2
<1>3. CASE n # 0
  BY <1>1, <1>3
<1> QED BY <1>2, <1>3

(* The two sets that are counted are finite.                               *)
LEMMA Finite ==
    ASSUME TypeOK, NEW m
    PROVE  /\ IsFiniteSet(Held(m)) /\ IsFiniteSet(Adding(m))
           /\ Cardinality(Held(m)) \in Nat /\ Cardinality(Adding(m)) \in Nat
           /\ Cardinality(Adding(m)) <= Cardinality(Thread) /\ Cardinality(Thread) \in Nat
<1>1. IsFiniteSet(1..Len(quadruples)) /\ Held(m) \in SUBSET (1..Len(quadruples))
  BY FS_Interval DEF TypeOK, Held
<1>2. IsFiniteSet(Thread) /\ Adding(m) \in SUBSET Thread
  BY RepeaterAssumption DEF Adding
<1> QED BY <1>1, <1>2, FS_Subset, FS_CardinalityType

(* Keep leaves a table that is no longer, of entries that were there, and  *)
(* no more of any MAC.                                                     *)
LEMMA KeepTable ==
    ASSUME TypeOK, NEW P \in SUBSET (1..Len(quadruples)), Keep(P)
    PROVE  /\ quadruples' \in Seq(Entry) /\ Len(quadruples') <= MaxKeys
           /\ \A m \in Mac : IsFiniteSet(Held(m)')
                             /\ Cardinality(Held(m)') <= Cardinality(Held(m))
<1> DEFINE c == Cardinality(P)
<1>1. IsFiniteSet(P) /\ c \in Nat /\ c <= Len(quadruples)
  <2>1. Len(quadruples) \in Nat
    BY DEF TypeOK
  <2>2. IsFiniteSet(1..Len(quadruples)) /\ Cardinality(1..Len(quadruples)) = Len(quadruples)
    BY <2>1, UpTo
  <2> QED BY <2>1, <2>2, FS_Subset, FS_CardinalityType
<1> HIDE DEF c
<1>2. PICK f \in [1..c -> P] :
        /\ \A i, j \in 1..c : i < j => f[i] < f[j]
        /\ quadruples' = [k \in 1..c |-> quadruples[f[k]]]
  BY DEF Keep, c
<1>3. \A k \in 1..c : f[k] \in 1..Len(quadruples) /\ quadruples[f[k]] \in Entry
  <2>1. \A k \in 1..c : f[k] \in 1..Len(quadruples)
    OBVIOUS
  <2> QED BY <2>1 DEF TypeOK
<1>4. quadruples' \in Seq(Entry) /\ Len(quadruples') = c
  BY <1>1, <1>2, <1>3
<1>5. ASSUME NEW m \in Mac
      PROVE  IsFiniteSet(Held(m)') /\ Cardinality(Held(m)') <= Cardinality(Held(m))
  <2> DEFINE g == [i \in Held(m)' |-> f[i]]
  <2>1. \A i \in Held(m)' : i \in 1..c /\ f[i] \in Held(m)
    BY <1>2, <1>3, <1>4 DEF Held
  <2>2. \A i, j \in 1..c : i # j => f[i] # f[j]
    BY <1>1, <1>2, <1>3
  <2>3. g \in Injection(Held(m)', Held(m))
    BY <2>1, <2>2 DEF Injection, IsInjective
  <2> QED BY <2>3, Finite, FS_Injection
<1>6. Len(quadruples) \in Nat /\ Len(quadruples) <= MaxKeys /\ MaxKeys \in Nat
  BY RepeaterAssumption DEF TypeOK
<1> QED BY <1>1, <1>4, <1>5, <1>6

(* An increasing enumeration of a set of places that contains 1..s leaves  *)
(* them where they are: the least k that it moved would have to be the     *)
(* image of a later place, which is enumerated further up.                 *)
LEMMA FixedPrefix ==
    ASSUME NEW n \in Nat, NEW P \in SUBSET (1..n), NEW s \in 0..n, 1..s \subseteq P,
           NEW c, c = Cardinality(P), NEW f \in [1..c -> P],
           \A i, j \in 1..c : i < j => f[i] < f[j]
    PROVE  s <= c /\ \A k \in 1..s : f[k] = k
<1>1. IsFiniteSet(P) /\ c \in Nat /\ s <= c
  <2>0. IsFiniteSet(1..n)
    BY UpTo
  <2>1. IsFiniteSet(P)
    BY <2>0, FS_Subset
  <2>2. Cardinality(1..s) = s /\ 1..s \in SUBSET P
    BY UpTo
  <2> QED BY <2>1, <2>2, FS_Subset, FS_CardinalityType
<1>2. f \in Surjection(1..c, P)
  <2>1. \A i, j \in 1..c : i # j => f[i] # f[j]
    <3> SUFFICES ASSUME NEW i \in 1..c, NEW j \in 1..c, i < j PROVE f[i] # f[j]
      BY <1>1
    <3>1. f[i] < f[j]
      OBVIOUS
    <3>2. f[i] \in P /\ f[j] \in P
      OBVIOUS
    <3>3. f[i] \in 1..n /\ f[j] \in 1..n
      BY <3>2
    <3> QED BY <3>1, <3>3
  <2>2. f \in Injection(1..c, P)
    BY <2>1 DEF Injection, IsInjective
  <2>3. Cardinality(1..c) = c
    BY <1>1, UpTo
  <2> QED BY <1>1, <2>2, <2>3, FS_Injection
<1>3. \A k \in P : \E i \in 1..c : f[i] = k
  BY <1>2 DEF Surjection
<1>4. \A i \in 1..c : f[i] \in 1..n
  OBVIOUS
<1> DEFINE T == {k \in 1..s : f[k] # k}
<1>5. SUFFICES ASSUME T # {} PROVE FALSE
  BY <1>1
<1>6. PICK k \in T : \A j \in T : ~ (<<j, k>> \in OpToRel(<, Nat))
  <2>1. T \subseteq Nat
    OBVIOUS
  <2> QED BY <2>1, <1>5, NatLessThanWellFounded, WFMin
<1>7. \A j \in T : ~ (j < k)
  <2>1. \A j, m \in Nat : j < m => <<j, m>> \in OpToRel(<, Nat)
    BY DEF OpToRel
  <2>2. k \in Nat /\ T \subseteq Nat
    OBVIOUS
  <2> HIDE DEF T
  <2> QED BY <1>6, <2>1, <2>2
<1>8. k \in 1..c /\ k \in P /\ k \in 1..s /\ f[k] # k
  BY <1>1
<1>9. \A j \in 1..c : j < k => f[j] = j
  BY <1>7, <1>8
<1>10. PICK i \in 1..c : f[i] = k
  BY <1>3, <1>8
<1>11. i > k
  BY <1>8, <1>9, <1>10
<1>12. f[k] < k
  BY <1>8, <1>10, <1>11
<1>13. f[k] \in 1..c /\ f[f[k]] = f[k]
  <2>1. f[k] \in Nat /\ f[k] >= 1 /\ k \in Nat /\ k <= c
    BY <1>1, <1>4, <1>8
  <2>2. f[k] \in 1..c
    BY <1>1, <1>12, <2>1
  <2> QED BY <1>9, <1>12, <2>2
<1>14. f[f[k]] < f[k]
  BY <1>8, <1>12, <1>13
<1> QED BY <1>4, <1>8, <1>13, <1>14

(* Keep leaves the entries before the first one it removes in their slots, *)
(* and every entry was there before.                                       *)
LEMMA KeepSlots ==
    ASSUME TypeOK, NEW P \in SUBSET (1..Len(quadruples)), Keep(P)
    PROVE  /\ \A s \in 1..Len(quadruples) : 1..s \subseteq P =>
                  s \in 1..Len(quadruples') /\ quadruples'[s] = quadruples[s]
           /\ \A k \in 1..Len(quadruples') : \E i \in 1..Len(quadruples) :
                  quadruples'[k] = quadruples[i]
<1> DEFINE c == Cardinality(P)  n == Len(quadruples)
<1>1. n \in Nat /\ IsFiniteSet(P) /\ c \in Nat
  <2>1. n \in Nat
    BY DEF TypeOK
  <2>2. IsFiniteSet(1..n)
    BY <2>1, UpTo
  <2>3. IsFiniteSet(P)
    BY <2>2, FS_Subset
  <2> QED BY <2>1, <2>3, FS_CardinalityType
<1>2. PICK f \in [1..c -> P] :
        /\ \A i, j \in 1..c : i < j => f[i] < f[j]
        /\ quadruples' = [k \in 1..c |-> quadruples[f[k]]]
  BY DEF Keep
<1>3. Len(quadruples') = c
  BY <1>1, <1>2
<1>4. ASSUME NEW s \in 1..n, 1..s \subseteq P
      PROVE  s \in 1..c /\ quadruples'[s] = quadruples[s]
  <2>0. s \in 0..n /\ P \in SUBSET (1..n) /\ s \in 1..s
    BY <1>1
  <2> HIDE DEF n
  <2>1. s <= c /\ \A k \in 1..s : f[k] = k
    <3>1. \A i, j \in 1..c : i < j => f[i] < f[j]
      BY <1>2
    <3>2. c = Cardinality(P)
      OBVIOUS
    <3> HIDE DEF c
    <3> QED BY <1>1, <1>4, <2>0, <3>1, <3>2, FixedPrefix
  <2>2. s \in 1..c /\ f[s] = s
    BY <1>1, <2>0, <2>1
  <2> QED BY <1>2, <2>2
<1> QED BY <1>2, <1>3, <1>4

-----------------------------------------------------------------------------
(* Inductive invariant                                                     *)

(* The table starts empty, and nobody uses it.                             *)
LEMMA RInit == Init => RInv
<1> SUFFICES ASSUME Init PROVE RInv
  OBVIOUS
<1>1. TypeOK
  BY RepeaterAssumption, EmptyTable DEF Init, TypeOK, NoEntry, NoEnc, Secrets
<1>2. AllFaithful /\ Unmoved /\ Pending
  BY EmptyTable DEF Init, AllFaithful, Unmoved, Pending, Reading
<1>3. DuplicatesBounded
  <2> SUFFICES ASSUME NEW m \in Mac
               PROVE  Cardinality(Held(m)) + Cardinality(Adding(m)) <= Cardinality(Thread)
    BY DEF DuplicatesBounded, Held, Adding
  <2>1. Held(m) = {} /\ Adding(m) = {}
    BY DEF Init, Held, Adding
  <2> QED BY <2>1, <1>1, Finite, FS_EmptySet
<1> QED BY <1>1, <1>2, <1>3 DEF RInv

\* The disjunct of Update that changes an entry.
UpdateHere(q) ==
    /\ \E i \in 1..Len(quadruples) :
         /\ First(i, q.mac)
         /\ quadruples' = [quadruples EXCEPT ![i] = Changed(@, q)]
         /\ race' = [u \in Thread |-> IF slot[u] = i /\ race[u] = "none" THEN "updated"
                                      ELSE race[u]]
    /\ UNCHANGED <<pc, arg, slot, enc>>

(* Every step keeps the types; the table grows only while it has room.     *)
LEMMA RTypes == TypeOK /\ Pending /\ [Next]_vars => TypeOK' /\ Pending'
<1> SUFFICES ASSUME TypeOK, Pending, [Next]_vars PROVE TypeOK' /\ Pending'
  OBVIOUS
<1>0. \A P : Keep(P) => race' \in [Thread -> {"none", "updated", "moved"}]
  BY DEF Keep, TypeOK
<1>1. ASSUME NEW t \in Thread, NEW macs \in Lists, Sync(t, macs) PROVE TypeOK' /\ Pending'
  <2>1. quadruples' \in Seq(Entry) /\ Len(quadruples') <= MaxKeys
    BY <1>1, KeepTable DEF Sync
  <2> QED BY <1>0, <1>1, <2>1 DEF Sync, TypeOK, Pending
<1>2. ASSUME NEW t \in Thread, NEW m \in Mac, NEW k \in Own(m), NEW v \in Own(m),
             Update(t, [mac |-> m, key |-> k, iv |-> v])
      PROVE  TypeOK' /\ Pending'
  <2> DEFINE q == [mac |-> m, key |-> k, iv |-> v]
  <2>1. q \in Entry /\ q \in [mac : Mac \cup {"none"}, key : Secrets, iv : Secrets]
    BY DEF Entry, Secrets, Own
  <2> HIDE DEF q
  <2>2. CASE UpdateHere(q)
    <3>1. PICK i \in 1..Len(quadruples) :
             /\ quadruples' = [quadruples EXCEPT ![i] = Changed(quadruples[i], q)]
             /\ race' = [u \in Thread |-> IF slot[u] = i /\ race[u] = "none" THEN "updated"
                                          ELSE race[u]]
      BY <2>2 DEF UpdateHere
    <3>2. quadruples[i] \in Entry
      BY DEF TypeOK
    <3>3. Changed(quadruples[i], q) \in Entry
      BY <2>1, <3>2 DEF Changed, Entry
    <3>4. quadruples' \in Seq(Entry) /\ Len(quadruples') = Len(quadruples)
      BY <3>1, <3>3 DEF TypeOK
    <3>5. race' \in [Thread -> {"none", "updated", "moved"}]
      BY <3>1 DEF TypeOK
    <3> QED BY <2>2, <3>4, <3>5 DEF UpdateHere, TypeOK, Pending
  <2>3. CASE /\ Goto(t, "idle", "add") /\ arg' = [arg EXCEPT ![t] = q]
             /\ UNCHANGED <<quadruples, slot, enc, race>>
    BY <2>1, <2>3 DEF TypeOK, Pending, Goto, Entry
  <2> QED BY <1>2, <2>2, <2>3 DEF Update, UpdateHere, q
<1>3. ASSUME NEW t \in Thread, Add(t) PROVE TypeOK' /\ Pending'
  <2>1. arg[t] \in Entry
    BY <1>3 DEF Add, Goto, Pending, TypeOK, Entry
  <2>2. quadruples' \in Seq(Entry) /\ Len(quadruples') <= MaxKeys
    BY <1>3, <2>1, RepeaterAssumption DEF Add, TypeOK
  <2>3. NoEntry \in [mac : Mac \cup {"none"}, key : Secrets, iv : Secrets]
    BY DEF NoEntry, Secrets
  <2> QED BY <1>3, <2>2, <2>3 DEF Add, Goto, TypeOK, Pending
<1>4. ASSUME NEW t \in Thread, DeleteAll(t) PROVE TypeOK' /\ Pending'
  <2>1. quadruples' \in Seq(Entry) /\ Len(quadruples') <= MaxKeys
    BY <1>4, KeepTable DEF DeleteAll
  <2> QED BY <1>0, <1>4, <2>1 DEF DeleteAll, TypeOK, Pending
<1>5. ASSUME NEW t \in Thread, NEW m \in Mac, Delete(t, m) PROVE TypeOK' /\ Pending'
  <2>1. quadruples' \in Seq(Entry) /\ Len(quadruples') <= MaxKeys
    BY <1>5, KeepTable DEF Delete
  <2> QED BY <1>0, <1>5, <2>1 DEF Delete, TypeOK, Pending
<1>6. ASSUME NEW t \in Thread, NEW m \in Mac, EncGet(t, m) PROVE TypeOK' /\ Pending'
  <2>1. PICK i \in 1..Len(quadruples) : slot' = [slot EXCEPT ![t] = i]
    BY <1>6 DEF EncGet
  <2>2. i \in 0..MaxKeys
    BY RepeaterAssumption DEF TypeOK
  <2>3. race' = [race EXCEPT ![t] = "none"]
    BY <1>6 DEF EncGet
  <2>4. race' \in [Thread -> {"none", "updated", "moved"}]
    BY <2>3 DEF TypeOK
  <2>5. slot' \in [Thread -> 0..MaxKeys]
    BY <2>1, <2>2 DEF TypeOK
  <2>6. arg' \in [Thread -> [mac : Mac \cup {"none"}, key : Secrets, iv : Secrets]]
    <3>1. arg' = [arg EXCEPT ![t].mac = m]
      BY <1>6 DEF EncGet
    <3> QED BY <3>1 DEF TypeOK
  <2>7. pc' = [pc EXCEPT ![t] = "readKey"] /\ UNCHANGED <<quadruples, enc>>
    BY <1>6 DEF EncGet, Goto
  <2>8. Pending'
    BY <1>6, <2>7 DEF EncGet, Pending, TypeOK
  <2> QED BY <2>4, <2>5, <2>6, <2>7, <2>8 DEF TypeOK
<1>7. ASSUME NEW t \in Thread, ReadKey(t) \/ ReadIv(t) PROVE TypeOK' /\ Pending'
  <2>1. /\ Seen(t, At(quadruples, slot[t]).key) \subseteq Secrets \cup {Torn}
        /\ Seen(t, At(quadruples, slot[t]).iv) \subseteq Secrets \cup {Torn}
    BY AtType DEF Seen
  <2>2. CASE ReadKey(t)
    BY <2>1, <2>2 DEF ReadKey, Goto, TypeOK, Pending
  <2>3. CASE ReadIv(t)
    BY <2>1, <2>3 DEF ReadIv, Goto, TypeOK, Pending
  <2> QED BY <1>7, <2>2, <2>3
<1>8. ASSUME NEW t \in Thread, Use(t) PROVE TypeOK' /\ Pending'
  <2>1. /\ NoEntry \in [mac : Mac \cup {"none"}, key : Secrets, iv : Secrets]
        /\ NoEnc \in [key : Secrets \cup {Torn}, iv : Secrets \cup {Torn}]
        /\ 0 \in 0..MaxKeys
    BY RepeaterAssumption DEF NoEntry, NoEnc, Secrets
  <2> QED BY <1>8, <2>1 DEF Use, Goto, TypeOK, Pending
<1>9. CASE UNCHANGED vars
  BY <1>9 DEF vars, TypeOK, Pending
<1> QED BY <1>1, <1>2, <1>3, <1>4, <1>5, <1>6, <1>7, <1>8, <1>9 DEF Next

(* Every step keeps AllFaithful: a quadruple is of one MAC, and an entry   *)
(* takes over key and IV only from a quadruple of its MAC.                 *)
LEMMA RFaithful == TypeOK /\ AllFaithful /\ [Next]_vars => AllFaithful'
<1> SUFFICES ASSUME TypeOK, AllFaithful, [Next]_vars PROVE AllFaithful'
  OBVIOUS
<1>1. ASSUME NEW P \in SUBSET (1..Len(quadruples)), Keep(P), UNCHANGED <<pc, arg>>
      PROVE  AllFaithful'
  BY <1>1, KeepSlots DEF AllFaithful, Faithful
<1>2. ASSUME NEW t \in Thread, NEW macs \in Lists, Sync(t, macs) PROVE AllFaithful'
  BY <1>1, <1>2 DEF Sync
<1>3. ASSUME NEW t \in Thread, NEW m \in Mac, NEW k \in Own(m), NEW v \in Own(m),
             Update(t, [mac |-> m, key |-> k, iv |-> v])
      PROVE  AllFaithful'
  <2> DEFINE q == [mac |-> m, key |-> k, iv |-> v]
  <2>1. Faithful(q)
    BY DEF Faithful
  <2> HIDE DEF q
  <2>2. CASE UpdateHere(q)
    <3>1. PICK i \in 1..Len(quadruples) :
             First(i, q.mac) /\ quadruples' = [quadruples EXCEPT ![i] = Changed(quadruples[i], q)]
      BY <2>2 DEF UpdateHere
    <3>2. Faithful(Changed(quadruples[i], q))
      BY <2>1, <3>1 DEF Faithful, Changed, First, AllFaithful
    <3>3. \A j \in 1..Len(quadruples') :
             quadruples'[j] = IF j = i THEN Changed(quadruples[i], q) ELSE quadruples[j]
      BY <3>1 DEF TypeOK
    <3>4. Len(quadruples') = Len(quadruples)
      BY <3>1 DEF TypeOK
    <3>5. \A j \in 1..Len(quadruples') : Faithful(quadruples'[j])
      BY <3>2, <3>3, <3>4 DEF AllFaithful
    <3> QED BY <2>2, <3>5 DEF UpdateHere, AllFaithful, Faithful
  <2>3. CASE /\ Goto(t, "idle", "add") /\ arg' = [arg EXCEPT ![t] = q]
             /\ UNCHANGED <<quadruples, slot, enc, race>>
    BY <2>1, <2>3 DEF AllFaithful, Faithful, Goto, TypeOK
  <2> QED BY <1>3, <2>2, <2>3 DEF Update, UpdateHere, q
<1>4. ASSUME NEW t \in Thread, Add(t) PROVE AllFaithful'
  <2>1. Faithful(arg[t])
    BY <1>4 DEF Add, Goto, AllFaithful
  <2>2. \A u \in Thread : pc'[u] = "add" => pc[u] = "add" /\ arg'[u] = arg[u]
    BY <1>4 DEF Add, Goto, TypeOK
  <2>3. \A i \in 1..Len(quadruples') : Faithful(quadruples'[i])
    BY <1>4, <2>1 DEF Add, AllFaithful, TypeOK
  <2> QED BY <2>2, <2>3 DEF AllFaithful, Faithful
<1>5. ASSUME NEW t \in Thread, DeleteAll(t) PROVE AllFaithful'
  BY <1>1, <1>5 DEF DeleteAll
<1>6. ASSUME NEW t \in Thread, NEW m \in Mac, Delete(t, m) PROVE AllFaithful'
  BY <1>1, <1>6 DEF Delete
<1>7. ASSUME NEW t \in Thread,
             (\E m \in Mac : EncGet(t, m)) \/ ReadKey(t) \/ ReadIv(t) \/ Use(t)
      PROVE  AllFaithful'
  <2>1. pc'[t] # "add" /\ UNCHANGED quadruples
        /\ \A u \in Thread : u # t => pc'[u] = pc[u] /\ arg'[u] = arg[u]
    BY <1>7 DEF EncGet, ReadKey, ReadIv, Use, Goto, TypeOK
  <2> QED BY <2>1 DEF AllFaithful, Faithful
<1>8. CASE UNCHANGED vars
  BY <1>8 DEF vars, AllFaithful, Faithful
<1> QED BY <1>2, <1>3, <1>4, <1>5, <1>6, <1>7, <1>8 DEF Next

(* A step that leaves a thread alone, and its slot with an entry of the    *)
(* same MAC, keeps what the thread holds.                                  *)
LEMMA HoldingKept ==
    ASSUME NEW u \in Thread, Holding(u), slot[u] \in 1..Len(quadruples'),
           quadruples'[slot[u]].mac = quadruples[slot[u]].mac,
           pc'[u] = pc[u], arg'[u] = arg[u], slot'[u] = slot[u], enc'[u] = enc[u]
    PROVE  Holding(u)'
BY DEF Holding

(* Every step keeps Unmoved: an update leaves the MAC of an entry alone, an *)
(* addition is made behind every pointer, and a removal behind it.         *)
LEMMA RUnmoved == TypeOK /\ AllFaithful /\ Unmoved /\ [Next]_vars => Unmoved'
<1> SUFFICES ASSUME TypeOK, AllFaithful, Unmoved, [Next]_vars PROVE Unmoved'
  OBVIOUS
<1>1. ASSUME NEW P \in SUBSET (1..Len(quadruples)), Keep(P), UNCHANGED <<pc, arg, slot, enc>>
      PROVE  Unmoved'
  <2> SUFFICES ASSUME NEW u \in Thread, pc[u] \in Reading, race'[u] # "moved"
               PROVE  Holding(u)'
    BY <1>1 DEF Unmoved
  <2>1. 1..slot[u] \subseteq P /\ race'[u] = race[u]
    BY <1>1 DEF Keep
  <2>2. Holding(u)
    BY <2>1 DEF Unmoved
  <2>3. slot[u] \in 1..Len(quadruples') /\ quadruples'[slot[u]] = quadruples[slot[u]]
    BY <1>1, <2>1, <2>2, KeepSlots DEF Holding
  <2> QED BY <1>1, <2>2, <2>3, HoldingKept
<1>2. ASSUME NEW t \in Thread, NEW macs \in Lists, Sync(t, macs) PROVE Unmoved'
  BY <1>1, <1>2 DEF Sync
<1>3. ASSUME NEW t \in Thread, NEW q, Update(t, q) PROVE Unmoved'
  <2>1. CASE /\ Goto(t, "idle", "add") /\ arg' = [arg EXCEPT ![t] = q]
             /\ UNCHANGED <<quadruples, slot, enc, race>>
    BY <2>1 DEF Unmoved, Holding, Goto, TypeOK, Reading
  <2>2. CASE UpdateHere(q)
    <3> SUFFICES ASSUME NEW u \in Thread, pc[u] \in Reading, race'[u] # "moved"
                 PROVE  Holding(u)'
      BY <2>2 DEF UpdateHere, Unmoved
    <3>1. PICK i \in 1..Len(quadruples) :
             /\ quadruples' = [quadruples EXCEPT ![i] = Changed(quadruples[i], q)]
             /\ race' = [r \in Thread |-> IF slot[r] = i /\ race[r] = "none" THEN "updated"
                                          ELSE race[r]]
      BY <2>2 DEF UpdateHere
    <3>2. Holding(u)
      BY <3>1 DEF Unmoved
    <3>3. Len(quadruples') = Len(quadruples)
          /\ \A j \in 1..Len(quadruples) : quadruples'[j].mac = quadruples[j].mac
      BY <3>1 DEF TypeOK, Changed
    <3>4. slot[u] \in 1..Len(quadruples')
          /\ quadruples'[slot[u]].mac = quadruples[slot[u]].mac
      BY <3>2, <3>3 DEF Holding
    <3>5. pc'[u] = pc[u] /\ arg'[u] = arg[u] /\ slot'[u] = slot[u] /\ enc'[u] = enc[u]
      BY <2>2 DEF UpdateHere
    <3> QED BY <3>2, <3>4, <3>5, HoldingKept
  <2> QED BY <1>3, <2>1, <2>2 DEF Update, UpdateHere
<1>4. ASSUME NEW t \in Thread, Add(t) PROVE Unmoved'
  <2> SUFFICES ASSUME NEW u \in Thread, pc'[u] \in Reading, race'[u] # "moved"
               PROVE  Holding(u)'
    BY DEF Unmoved
  <2>1. pc'[u] = pc[u] /\ arg'[u] = arg[u] /\ UNCHANGED <<slot, enc, race>>
    BY <1>4 DEF Add, Goto, TypeOK, Reading
  <2>2. Holding(u)
    BY <2>1 DEF Unmoved
  <2>3. slot[u] \in 1..Len(quadruples') /\ quadruples'[slot[u]] = quadruples[slot[u]]
    BY <1>4, <2>2 DEF Add, Holding, TypeOK
  <2> QED BY <2>1, <2>2, <2>3, HoldingKept
<1>5. ASSUME NEW t \in Thread, DeleteAll(t) PROVE Unmoved'
  BY <1>1, <1>5 DEF DeleteAll
<1>6. ASSUME NEW t \in Thread, NEW m \in Mac, Delete(t, m) PROVE Unmoved'
  BY <1>1, <1>6 DEF Delete
<1>7. ASSUME NEW t \in Thread, NEW m \in Mac, EncGet(t, m) PROVE Unmoved'
  <2>1. PICK i \in 1..Len(quadruples) : First(i, m) /\ slot' = [slot EXCEPT ![t] = i]
    BY <1>7 DEF EncGet
  <2>2. quadruples[i].mac = m
    BY <2>1 DEF First
  <2>3. arg'[t].mac = m /\ slot'[t] = i /\ pc'[t] = "readKey"
    BY <1>7, <2>1 DEF EncGet, Goto, TypeOK
  <2>4. \A u \in Thread : u # t => pc'[u] = pc[u] /\ arg'[u] = arg[u] /\ slot'[u] = slot[u]
                                   /\ race'[u] = race[u]
    BY <1>7, <2>1 DEF EncGet, Goto, TypeOK
  <2>5. UNCHANGED <<quadruples, enc>>
    BY <1>7 DEF EncGet
  <2>6. Holding(t)'
    BY <2>1, <2>2, <2>3, <2>5 DEF Holding
  <2> QED BY <2>4, <2>5, <2>6 DEF Unmoved, Holding
<1>8. ASSUME NEW t \in Thread, ReadKey(t) \/ ReadIv(t) PROVE Unmoved'
  <2>1. UNCHANGED <<quadruples, arg, slot, race>>
        /\ \A u \in Thread : u # t => pc'[u] = pc[u] /\ enc'[u] = enc[u]
    BY <1>8 DEF ReadKey, ReadIv, Goto, TypeOK
  <2>2. pc[t] \in Reading
    BY <1>8 DEF ReadKey, ReadIv, Goto, Reading
  <2>3. ASSUME race[t] # "moved" PROVE Holding(t)'
    <3>1. Holding(t)
      BY <2>2, <2>3 DEF Unmoved
    <3> DEFINE e == At(quadruples, slot[t])
    <3>2. e.key \in Own(arg[t].mac) /\ e.iv \in Own(arg[t].mac)
      BY <3>1 DEF Holding, At, AllFaithful, Faithful
    <3>3. /\ Seen(t, e.key) \subseteq Own(arg[t].mac) \cup {Torn}
          /\ Seen(t, e.iv) \subseteq Own(arg[t].mac) \cup {Torn}
      BY <3>2 DEF Seen
    <3> HIDE DEF e
    <3>4. CASE ReadKey(t)
      <4>1. pc'[t] = "readIv" /\ enc'[t].key \in Seen(t, e.key)
        BY <3>4 DEF ReadKey, Goto, TypeOK, e
      <4> QED BY <2>1, <3>1, <3>3, <4>1 DEF Holding
    <3>5. CASE ReadIv(t)
      <4>1. pc[t] = "readIv" /\ pc'[t] = "use" /\ enc'[t].iv \in Seen(t, e.iv)
            /\ enc'[t].key = enc[t].key
        BY <3>5 DEF ReadIv, Goto, TypeOK, e
      <4> QED BY <2>1, <3>1, <3>3, <4>1 DEF Holding
    <3> QED BY <1>8, <3>4, <3>5
  <2> QED BY <2>1, <2>3 DEF Unmoved, Holding
<1>9. ASSUME NEW t \in Thread, Use(t) PROVE Unmoved'
  <2>1. pc'[t] = "idle" /\ \A u \in Thread : u # t =>
            pc'[u] = pc[u] /\ arg'[u] = arg[u] /\ slot'[u] = slot[u] /\ enc'[u] = enc[u]
            /\ race'[u] = race[u]
    BY <1>9 DEF Use, Goto, TypeOK
  <2>2. UNCHANGED quadruples
    BY <1>9 DEF Use
  <2> QED BY <2>1, <2>2 DEF Unmoved, Holding, Reading
<1>10. CASE UNCHANGED vars
  BY <1>10 DEF vars, Unmoved, Holding
<1> QED BY <1>2, <1>3, <1>4, <1>5, <1>6, <1>7, <1>8, <1>9, <1>10 DEF Next

-----------------------------------------------------------------------------
\* DuplicatesBounded of one MAC, in terms of the two sets.
Counted(m) == Cardinality(Held(m)) + Cardinality(Adding(m)) <= Cardinality(Thread)

(* DuplicatesBounded is Counted of every MAC.                              *)
LEMMA Counts == DuplicatesBounded <=> \A m \in Mac : Counted(m)
BY DEF DuplicatesBounded, Counted, Held, Adding

(* The same of the next state.                                             *)
LEMMA CountsNext == DuplicatesBounded' <=> \A m \in Mac : Counted(m)'
BY DEF DuplicatesBounded, Counted, Held, Adding

(* A step that adds nothing to either set keeps the count.                 *)
LEMMA NotMore ==
    ASSUME TypeOK, NEW m, Counted(m), IsFiniteSet(Held(m)'),
           Cardinality(Held(m)') <= Cardinality(Held(m)), Adding(m)' \subseteq Adding(m)
    PROVE  Counted(m)'
<1>1. IsFiniteSet(Adding(m)') /\ Cardinality(Adding(m)') <= Cardinality(Adding(m))
  BY Finite, FS_Subset
<1>2. Cardinality(Held(m)') \in Nat /\ Cardinality(Adding(m)') \in Nat
  BY <1>1, FS_CardinalityType
<1>3. Cardinality(Held(m)) \in Nat /\ Cardinality(Adding(m)) \in Nat /\ Cardinality(Thread) \in Nat
  BY Finite
<1> QED BY <1>1, <1>2, <1>3 DEF Counted

(* An update that found nothing may add; an addition takes its thread out  *)
(* of the second set when it puts an entry into the first.                 *)
LEMMA RCounts == TypeOK /\ Pending /\ DuplicatesBounded /\ [Next]_vars => DuplicatesBounded'
<1> SUFFICES ASSUME TypeOK, Pending, \A m \in Mac : Counted(m), [Next]_vars, NEW m \in Mac
             PROVE  Counted(m)'
  BY Counts, CountsNext
<1>0. TypeOK'
  BY RTypes
<1>1. ASSUME UNCHANGED <<pc, arg>> PROVE Adding(m)' = Adding(m)
  BY <1>1 DEF Adding
<1>2. ASSUME UNCHANGED quadruples PROVE Held(m)' = Held(m)
  BY <1>2 DEF Held
<1>3. ASSUME NEW t \in Thread, NEW macs \in Lists, Sync(t, macs) PROVE Counted(m)'
  BY <1>1, <1>3, KeepTable, NotMore DEF Sync
<1>4. ASSUME NEW t \in Thread, NEW x \in Mac, Delete(t, x) PROVE Counted(m)'
  BY <1>1, <1>4, KeepTable, NotMore DEF Delete
<1>5. ASSUME NEW t \in Thread, DeleteAll(t) PROVE Counted(m)'
  BY <1>1, <1>5, KeepTable, NotMore DEF DeleteAll
<1>6. ASSUME NEW t \in Thread, NEW q, q.mac \in Mac, Update(t, q) PROVE Counted(m)'
  <2>1. CASE /\ \E i \in 1..Len(quadruples) :
                   quadruples' = [quadruples EXCEPT ![i] = Changed(@, q)]
             /\ UNCHANGED <<pc, arg>>
    <3>1. Len(quadruples') = Len(quadruples)
          /\ \A i \in 1..Len(quadruples) : quadruples'[i].mac = quadruples[i].mac
      BY <2>1 DEF TypeOK, Changed
    <3>2. Held(m)' = Held(m)
      BY <3>1 DEF Held
    <3> QED BY <1>1, <2>1, <3>2, Finite, NotMore
  <2>2. CASE /\ Goto(t, "idle", "add") /\ Absent(q.mac) /\ arg' = [arg EXCEPT ![t] = q]
             /\ UNCHANGED quadruples
    <3>1. CASE q.mac = m
      <4>1. Held(m)' = {}
        BY <2>2, <3>1 DEF Absent, Held
      <4>2. Adding(m)' \in SUBSET Thread /\ IsFiniteSet(Thread)
        BY RepeaterAssumption DEF Adding
      <4>3. Cardinality(Adding(m)') \in Nat /\ Cardinality(Adding(m)') <= Cardinality(Thread)
        BY <4>2, FS_Subset, FS_CardinalityType
      <4> QED BY <4>1, <4>3, FS_EmptySet DEF Counted
    <3>2. CASE q.mac # m
      <4>1. Adding(m)' \subseteq Adding(m)
        BY <2>2, <3>2 DEF Adding, Goto, TypeOK
      <4> QED BY <1>2, <2>2, <4>1, Finite, NotMore
    <3> QED BY <3>1, <3>2
  <2> QED BY <1>6, <2>1, <2>2 DEF Update
<1>7. ASSUME NEW t \in Thread, Add(t) PROVE Counted(m)'
  <2>1. Adding(m)' = Adding(m) \ {t}
    BY <1>7 DEF Add, Adding, Goto, TypeOK
  <2>2. CASE quadruples' = quadruples
    BY <1>2, <2>1, <2>2, Finite, NotMore
  <2>3. CASE quadruples' = Append(quadruples, arg[t])
    <3>1. CASE arg[t].mac = m
      <4>1. t \in Adding(m)
        BY <1>7, <3>1 DEF Add, Adding, Goto
      <4>2. Held(m)' = Held(m) \cup {Len(quadruples) + 1} /\ Len(quadruples) + 1 \notin Held(m)
        BY <2>3, <3>1 DEF Held, TypeOK
      <4>3. Cardinality(Held(m)') = Cardinality(Held(m)) + 1
        BY <4>2, Finite, FS_AddElement
      <4>4. Cardinality(Adding(m)') = Cardinality(Adding(m)) - 1
        BY <2>1, <4>1, Finite, FS_RemoveElement
      <4> QED BY <4>3, <4>4, Finite DEF Counted
    <3>2. CASE arg[t].mac # m
      <4>1. Held(m)' = Held(m)
        BY <2>3, <3>2 DEF Held, TypeOK
      <4> QED BY <2>1, <4>1, Finite, NotMore
    <3> QED BY <3>1, <3>2
  <2> QED BY <1>7, <2>2, <2>3 DEF Add
<1>8. ASSUME NEW t \in Thread,
             (\E x \in Mac : EncGet(t, x)) \/ ReadKey(t) \/ ReadIv(t) \/ Use(t)
      PROVE  Counted(m)'
  <2>1. pc'[t] # "add" /\ UNCHANGED quadruples
        /\ \A u \in Thread : u # t => pc'[u] = pc[u] /\ arg'[u] = arg[u]
    BY <1>8 DEF EncGet, ReadKey, ReadIv, Use, Goto, TypeOK
  <2>2. Adding(m)' \subseteq Adding(m)
    BY <2>1 DEF Adding
  <2> QED BY <1>2, <2>1, <2>2, Finite, NotMore
<1>9. CASE UNCHANGED vars
  BY <1>1, <1>2, <1>9, Finite, NotMore DEF vars
<1> QED BY <1>3, <1>4, <1>5, <1>6, <1>7, <1>8, <1>9 DEF Next

(* The inductive invariant holds in every reachable state.                 *)
THEOREM RepeaterInvariance == Spec => []RInv
<1>1. RInv /\ [Next]_vars => RInv'
  BY RTypes, RFaithful, RUnmoved, RCounts DEF RInv
<1> QED BY RInit, <1>1, PTL DEF Spec

-----------------------------------------------------------------------------
(* Types, and the limit of the table: the room is looked for in the        *)
(* critical section that adds, whatever happened since the search.         *)
THEOREM RepeaterTypes == Spec => []TypeOK
<1>1. RInv => TypeOK
  BY DEF RInv
<1> QED BY RepeaterInvariance, <1>1, PTL

(* The unlock between search and addition costs at most one entry of a MAC *)
(* for each thread.                                                        *)
THEOREM RepeaterDuplicates == Spec => []DuplicatesBounded
<1>1. RInv => DuplicatesBounded
  BY DEF RInv
<1> QED BY RepeaterInvariance, <1>1, PTL

(* repeater_aes_enc_get delivers no key and no IV of another MAC, whatever *)
(* is updated, added or removed behind its pointer after the unlock.       *)
THEOREM RepeaterReads == Spec => []EncOfMac
<1>1. RInv => EncOfMac
  BY DEF RInv, Unmoved, Holding, Reading, EncOfMac
<1> QED BY RepeaterInvariance, <1>1, PTL
=============================================================================
