---------------------------- MODULE RepeaterAes ----------------------------
(***************************************************************************)
(* The table of quadruples of repeater_aes.c: for each extender (MAC) its  *)
(* AES key and IV.  Several threads call the functions; each is one        *)
(* critical section of ctx.mutex, except two.  repeater_update_quadruples  *)
(* unlocks between not finding a MAC and adding it, and                    *)
(* repeater_aes_enc_get reads key and IV through a pointer into the table  *)
(* after the unlock (repeater_aes_dec_get does the same).                  *)
(*                                                                         *)
(* The table is the sequence of the client_count entries in use; the slots *)
(* behind them are zero.  A key or an IV is the pair of the MAC it was     *)
(* given for and a version; Zero is an all-zero one, which also stands for *)
(* "do not change" in an update, and Torn is one read in the middle of a   *)
(* change of its slot.  The IP address is left out.                        *)
(***************************************************************************)
EXTENDS Integers, Sequences, FiniteSets

CONSTANTS Thread, Mac,
          MaxKeys,     \* MAX_AES_KEY_NUM
          Versions     \* bound: versions of the keys
ASSUME RepeaterAssumption ==
    MaxKeys \in Nat /\ Versions \in Nat /\ IsFiniteSet(Thread) /\ "none" \notin Mac

Zero == [of |-> "none", version |-> 0]
Torn == [of |-> "none", version |-> -1]
Secret(m) == [of : {m}, version : 1..Versions]
Secrets == {Zero} \cup UNION {Secret(m) : m \in Mac}
Entry == [mac : Mac, key : Secrets, iv : Secrets]
Own(m) == Secret(m) \cup {Zero}

VARIABLES quadruples,  \* ctx.repeater_quadruples, client_count long
          pc,          \* what each thread does next
          arg,         \* the quadruple of an update, the MAC of an enc_get
          slot,        \* the pointer repeater_get_quadruples has returned
          enc,         \* the key and IV read so far
          race         \* history: what has happened to the slot since then

vars == <<quadruples, pc, arg, slot, enc, race>>

NoEntry == [mac |-> "none", key |-> Zero, iv |-> Zero]
NoEnc == [key |-> Zero, iv |-> Zero]

Init ==
    /\ quadruples = <<>>
    /\ pc = [t \in Thread |-> "idle"] /\ arg = [t \in Thread |-> NoEntry]
    /\ slot = [t \in Thread |-> 0] /\ enc = [t \in Thread |-> NoEnc]
    /\ race = [t \in Thread |-> "none"]

Goto(t, from, to) == pc[t] = from /\ pc' = [pc EXCEPT ![t] = to]

At(table, i) == IF i \in 1..Len(table) THEN table[i] ELSE NoEntry

\* The loops stop at the first entry of the MAC.
First(i, m) == quadruples[i].mac = m /\ \A j \in 1..(i - 1) : quadruples[j].mac # m
Absent(m) == \A i \in 1..Len(quadruples) : quadruples[i].mac # m

-----------------------------------------------------------------------------
(* repeater_update_quadruples: change the entry, a zero field apart; or    *)
(* unlock, and add it in repeater_add_quadruples while there is room.      *)

Changed(e, q) == [mac |-> e.mac,
                  key |-> IF q.key = Zero THEN e.key ELSE q.key,
                  iv |-> IF q.iv = Zero THEN e.iv ELSE q.iv]

\* Slip: the MAC is not looked for.
UpdateBlind(t, q) ==
    /\ Goto(t, "idle", "add") /\ arg' = [arg EXCEPT ![t] = q]
    /\ UNCHANGED <<quadruples, slot, enc, race>>

Update(t, q) ==
    \/ /\ pc[t] = "idle"
       /\ \E i \in 1..Len(quadruples) :
            /\ First(i, q.mac)
            /\ quadruples' = [quadruples EXCEPT ![i] = Changed(@, q)]
            /\ race' = [u \in Thread |-> IF slot[u] = i /\ race[u] = "none" THEN "updated"
                                         ELSE race[u]]
       /\ UNCHANGED <<pc, arg, slot, enc>>
    \/ /\ Goto(t, "idle", "add") /\ Absent(q.mac)
       /\ arg' = [arg EXCEPT ![t] = q]
       /\ UNCHANGED <<quadruples, slot, enc, race>>

\* Slip: > in place of >=.
AddTooLate(t) ==
    /\ Goto(t, "add", "idle")
    /\ quadruples' = IF Len(quadruples) > MaxKeys THEN quadruples
                     ELSE Append(quadruples, arg[t])
    /\ arg' = [arg EXCEPT ![t] = NoEntry]
    /\ UNCHANGED <<slot, enc, race>>

\* Slip: in a full table the new entry takes the place of the last one.
AddReplacing(t) ==
    /\ Goto(t, "add", "idle")
    /\ quadruples' = IF Len(quadruples) >= MaxKeys THEN [quadruples EXCEPT ![MaxKeys] = arg[t]]
                     ELSE Append(quadruples, arg[t])
    /\ arg' = [arg EXCEPT ![t] = NoEntry]
    /\ UNCHANGED <<slot, enc, race>>

Add(t) ==
    /\ Goto(t, "add", "idle")
    /\ quadruples' = IF Len(quadruples) >= MaxKeys THEN quadruples
                     ELSE Append(quadruples, arg[t])
    /\ arg' = [arg EXCEPT ![t] = NoEntry]
    /\ UNCHANGED <<slot, enc, race>>

-----------------------------------------------------------------------------
(* The functions that remove entries move the later ones down. *)

\* Only the entries at the places P stay, in their order; that moves the entry
\* under every pointer at or behind a place that is not in P.
Keep(P) ==
    /\ \E f \in [1..Cardinality(P) -> P] :
        /\ \A i, j \in DOMAIN f : i < j => f[i] < f[j]
        /\ quadruples' = [k \in 1..Cardinality(P) |-> quadruples[f[k]]]
    /\ race' = [u \in Thread |-> IF 1..slot[u] \subseteq P THEN race[u] ELSE "moved"]

Delete(t, m) ==
    /\ pc[t] = "idle"
    /\ \E i \in 1..Len(quadruples) : First(i, m) /\ Keep(1..Len(quadruples) \ {i})
    /\ UNCHANGED <<pc, arg, slot, enc>>

DeleteAll(t) ==
    /\ pc[t] = "idle" /\ Keep({})
    /\ UNCHANGED <<pc, arg, slot, enc>>

\* repeater_sync_quadruples looks at the first MaxKeys strings it is given,
\* and skips those str2mac cannot parse ("none").
Listed(macs) == {macs[i] : i \in 1..Len(macs) \cap 1..MaxKeys} \cap Mac
\* Bound: lists one longer than the table.
Lists == UNION {[1..n -> Mac \cup {"none"}] : n \in 1..(MaxKeys + 1)}

Sync(t, macs) ==
    /\ pc[t] = "idle"
    /\ Keep({i \in 1..Len(quadruples) : quadruples[i].mac \in Listed(macs)})
    /\ UNCHANGED <<pc, arg, slot, enc>>

-----------------------------------------------------------------------------
(* repeater_aes_enc_get: find the entry under the lock, then read the key  *)
(* and the IV from its slot.                                               *)

EncGet(t, m) ==
    /\ Goto(t, "idle", "readKey")
    /\ \E i \in 1..Len(quadruples) : First(i, m) /\ slot' = [slot EXCEPT ![t] = i]
    /\ arg' = [arg EXCEPT ![t].mac = m]
    /\ race' = [race EXCEPT ![t] = "none"]
    /\ UNCHANGED <<quadruples, enc>>

\* A read without the lock that a change overlaps may see bytes of two values.
Seen(t, v) == IF race[t] = "none" THEN {v} ELSE {v, Torn}

ReadKey(t) ==
    /\ Goto(t, "readKey", "readIv")
    /\ \E v \in Seen(t, At(quadruples, slot[t]).key) : enc' = [enc EXCEPT ![t].key = v]
    /\ UNCHANGED <<quadruples, arg, slot, race>>

ReadIv(t) ==
    /\ Goto(t, "readIv", "use")
    /\ \E v \in Seen(t, At(quadruples, slot[t]).iv) : enc' = [enc EXCEPT ![t].iv = v]
    /\ UNCHANGED <<quadruples, arg, slot, race>>

\* The caller encrypts and calls repeater_aes_enc_deinit.
Use(t) ==
    /\ Goto(t, "use", "idle")
    /\ arg' = [arg EXCEPT ![t] = NoEntry] /\ slot' = [slot EXCEPT ![t] = 0]
    /\ enc' = [enc EXCEPT ![t] = NoEnc]
    /\ race' = [race EXCEPT ![t] = "none"] /\ UNCHANGED quadruples

Next == \E t \in Thread :
    \/ \E macs \in Lists : Sync(t, macs)
    \/ \E m \in Mac : \E k, v \in Own(m) :
           Update(t, [mac |-> m, key |-> k, iv |-> v])
    \/ Add(t) \/ DeleteAll(t)
    \/ \E m \in Mac : Delete(t, m) \/ EncGet(t, m)
    \/ ReadKey(t) \/ ReadIv(t) \/ Use(t)

Spec == Init /\ [][Next]_vars

-----------------------------------------------------------------------------
(* Properties. *)

\* Type invariant; the table has at most MAX_AES_KEY_NUM entries, although
\* the place for a new one is looked for in another critical section.
TypeOK ==
    /\ quadruples \in Seq(Entry) /\ Len(quadruples) <= MaxKeys
    /\ pc \in [Thread -> {"idle", "add", "readKey", "readIv", "use"}]
    /\ arg \in [Thread -> [mac : Mac \cup {"none"}, key : Secrets, iv : Secrets]]
    /\ slot \in [Thread -> 0..MaxKeys]
    /\ enc \in [Thread -> [key : Secrets \cup {Torn}, iv : Secrets \cup {Torn}]]
    /\ race \in [Thread -> {"none", "updated", "moved"}]

\* Two updates of a MAC that is not in the table add it twice, as update
\* unlocks between search and addition.  The race costs one entry for each
\* racing thread and no more: entries of a MAC and additions of it that are
\* under way are never more than the threads, and with one thread that
\* updates every MAC has one entry.
DuplicatesBounded == \A m \in Mac :
    Cardinality({i \in 1..Len(quadruples) : quadruples[i].mac = m})
      + Cardinality({t \in Thread : pc[t] = "add" /\ arg[t].mac = m})
        <= Cardinality(Thread)

\* repeater_aes_enc_get reads without the lock, but unless an entry at or before
\* its pointer is removed meanwhile it never delivers a key or an IV of another
\* MAC: not when the entry is updated, perhaps for a second time, while it reads
\* (the value may be torn then, and key and IV of different updates), nor when
\* entries are added or later ones removed, nor when the MAC has two entries.
EncOfMac == \A t \in Thread :
    pc[t] = "use" /\ race[t] # "moved" =>
        /\ enc[t].key \in Own(arg[t].mac) \cup {Torn}
        /\ enc[t].iv \in Own(arg[t].mac) \cup {Torn}

\* repeater_sync_quadruples: "delete the entries that are not in the array
\* mac" (the comment of its second step): an entry in the array stays.
SyncKeepsListed ==
    [][\A t \in Thread, macs \in Lists : Sync(t, macs) =>
          \A i \in 1..Len(quadruples), k \in 1..Len(macs) :
              quadruples[i].mac = macs[k] =>
                  \E j \in 1..Len(quadruples') : quadruples'[j] = quadruples[i]]_vars
=============================================================================
