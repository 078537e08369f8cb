--------------------------- MODULE AuditChainProofs ---------------------------
(***************************************************************************)
(* Proofs about AuditChain, for any writers, clocks, shards and bounds.    *)
(***************************************************************************)
EXTENDS AuditChain, SequenceTheorems, WellFoundedInduction, TLAPS

(* The entries, in any state.                                                *)

Entry == [shard : Shard, prev : Nat, at : Nat]
Status == {"open", "committed", "aborted"}
Holder == Writer \cup {NoOne}
Appending(w) == pc[w] \in {"waiting", "locked"}

EntryInv ==
    /\ log \in Seq(Entry) /\ status \in Seq(Status) /\ author \in Seq(Holder) /\ lock \in Seq(Holder)
    /\ Len(status) = Len(log) /\ Len(author) = Len(log) /\ Len(lock) = Len(log)
    /\ \A n \in Numbers : log[n].at \in {2 * n, 2 * n + 3}

SessionInv ==
    /\ pc \in [Writer -> {"idle", "waiting", "locked", "open"}]
    /\ target \in [Writer -> [shard : 0..NumShards, last : Nat]]
    /\ touched \in [Writer -> SUBSET Shard] /\ contended \subseteq Shard

\* An open transaction has touched the shards of its entries; a shard that two
\* have touched is contended.
TouchInv ==
    /\ \A n \in Numbers : status[n] = "open" => author[n] \in Writer /\ log[n].shard \in touched[author[n]]
    /\ \A w \in Writer : Appending(w) => target[w].shard \in touched[w]
    /\ \A v, w \in Writer : v # w => touched[v] \cap touched[w] \subseteq contended

(* What an entry is chained to: nothing, a committed entry of its shard, or  *)
(* one of the same open transaction.                                         *)

Chainable(w, s) == {n \in Numbers : log[n].shard = s /\ (status[n] = "committed" \/ (status[n] = "open" /\ author[n] = w))}

LinkInv ==
    /\ \A n \in Numbers :
          /\ log[n].prev < n
          /\ status[n] = "committed" => log[n].prev \in {0} \cup Committed(log[n].shard)
          /\ status[n] = "open" => log[n].prev \in {0} \cup Chainable(author[n], log[n].shard)
    /\ \A w \in Writer : Appending(w) => target[w].last \in {0} \cup Chainable(w, target[w].shard)

(* The roll under way, the witness and the rolls.                            *)

Root(h) == h \in Seq(Nat) /\ \A s \in 1..Len(h) : h[s] \in {0} \cup Committed(s)

RollInv ==
    /\ Root(heads) /\ Len(heads) <= NumShards /\ receipt \in BOOLEAN
    /\ receipt => Len(heads) = NumShards /\ heads \in anchored
    /\ \A h \in anchored : Root(h) /\ Len(h) = NumShards
    /\ rolls \in Seq(anchored)

(* The shards on which no transactions have overlapped.                      *)

Kept(s) == {n \in Numbers : log[n].shard = s /\ status[n] # "aborted"}
Below(s, n) == {m \in Kept(s) : m < n}
IsNewest(p, S) == IF S = {} THEN p = 0 ELSE p \in S /\ \A m \in S : log[m].at <= log[p].at

\* Nothing inserted before it has a later time.
Leads(n, s) == \A m \in Below(s, n) : log[m].at < log[n].at

ShardInv(s) ==
    /\ \A m, n \in Kept(s) : status[m] = "committed" /\ status[n] = "open" => m < n
    /\ \A n \in Kept(s) : IsNewest(log[n].prev, Below(s, n))
    /\ \A w \in Writer : Appending(w) /\ target[w].shard = s => IsNewest(target[w].last, Kept(s))

ChainInv == \A s \in Shard \ contended : ShardInv(s)

\* What a roll records of such a shard: nothing yet, or a committed entry that
\* was the newest when it was read; and younger rolls record later entries.
RollHead(h, s) == h = 0 \/ (h \in Committed(s) /\ Leads(h, s))

HeadInv(s) ==
    /\ \A i \in DOMAIN rolls : RollHead(rolls[i][s], s)
    /\ \A i, j \in DOMAIN rolls : i < j => rolls[i][s] <= rolls[j][s]
    /\ s <= Len(heads) => RollHead(heads[s], s) /\ \A i \in DOMAIN rolls : rolls[i][s] <= heads[s]

GrowthInv == \A s \in Shard \ contended : HeadInv(s)

IInv == EntryInv /\ SessionInv /\ TouchInv /\ LinkInv /\ RollInv /\ ChainInv /\ GrowthInv

------------------------------------------------------------------------------
(* The newest entry of a set.                                                *)

LEMMA Smallest ==
    ASSUME NEW T, T \subseteq Nat, T # {}
    PROVE  \E x \in T : \A y \in T : x <= y
  <1> DEFINE R == {p \in Nat \X Nat : p[1] < p[2]}
  <1>1. R = OpToRel(<, Nat)
    BY Zenon DEF OpToRel
  <1>2. IsWellFoundedOn(R, Nat)
    BY <1>1, NatLessThanWellFounded, Zenon
  <1>3. PICK less : less = R
    OBVIOUS
  <1>4. \A x, y \in T : <<y, x>> \in less <=> y < x
    BY <1>3
  <1> HIDE DEF R
  <1>5. PICK x \in T : \A y \in T : ~ (<<y, x>> \in less)
    BY <1>2, <1>3, WFMin
  <1>6. \A y \in T : ~ (y < x)
    BY <1>4, <1>5
  <1> QED
    BY <1>6

LEMMA Entries ==
    ASSUME EntryInv
    PROVE  /\ Len(log) \in Nat /\ Numbers = 1..Len(log)
           /\ log \in [Numbers -> Entry] /\ status \in [Numbers -> Status]
           /\ author \in [Numbers -> Holder] /\ lock \in [Numbers -> Holder]
           /\ \A n \in Numbers : log[n].shard \in Shard /\ log[n].prev \in Nat /\ log[n].at \in Nat
  <1>1. Len(log) \in Nat /\ Numbers = 1..Len(log) /\ log \in [Numbers -> Entry]
    BY LenProperties DEF EntryInv, Numbers
  <1>2. status \in [Numbers -> Status] /\ author \in [Numbers -> Holder] /\ lock \in [Numbers -> Holder]
    BY <1>1, LenProperties DEF EntryInv
  <1>3. \A n \in Numbers : log[n].shard \in Shard /\ log[n].prev \in Nat /\ log[n].at \in Nat
    BY <1>1 DEF Entry
  <1> QED
    BY <1>1, <1>2, <1>3

LEMMA NewestIn ==
    ASSUME EntryInv, NEW S, S \subseteq Numbers, S # {}
    PROVE  Newest(S) \in S /\ \A m \in S : log[m].at <= log[Newest(S)].at
  <1> DEFINE T == {b \in Nat : \A m \in S : log[m].at <= b}
  <1>1. \A m \in S : m \in Nat /\ m <= Len(log) /\ log[m].at \in Nat /\ log[m].at <= 2 * m + 3
    <2> SUFFICES ASSUME NEW m \in S
                 PROVE  m \in Nat /\ m <= Len(log) /\ log[m].at \in Nat /\ log[m].at <= 2 * m + 3
      OBVIOUS
    <2>1. m \in Nat /\ m <= Len(log) /\ log[m].at \in Nat
      BY Entries
    <2>2. log[m].at \in {2 * m, 2 * m + 3}
      BY DEF EntryInv
    <2> QED
      BY <2>1, <2>2
  <1>2. 2 * Len(log) + 3 \in T
    BY <1>1, Entries
  <1>3. PICK b \in T : \A c \in T : b <= c
    <2> HIDE DEF T
    <2>1. T \subseteq Nat
      BY DEF T
    <2> QED
      BY <1>2, <2>1, Smallest
  <1>4. PICK n \in S : log[n].at = b
    <2> SUFFICES ASSUME \A n \in S : log[n].at # b PROVE FALSE
      OBVIOUS
    <2>1. \A m \in S : log[m].at < b
      BY <1>1, <1>3
    <2>2. b - 1 \in Nat
      BY <1>1, <1>3, <2>1
    <2>3. b - 1 \in T
      BY <1>1, <2>1, <2>2
    <2> QED
      BY <1>3, <2>3
  <1>5. \A m \in S : log[m].at <= log[n].at
    BY <1>3, <1>4
  <1> QED
    BY <1>5 DEF Newest

LEMMA NewestIsNewest ==
    ASSUME EntryInv, NEW S, S \subseteq Numbers
    PROVE  IsNewest(Newest(S), S)
  BY NewestIn DEF Newest, IsNewest

\* No two entries have one time, so there is only one newest.
LEMMA TimesDiffer ==
    ASSUME EntryInv, NEW m \in Numbers, NEW n \in Numbers, log[m].at = log[n].at
    PROVE  m = n
  <1>1. m \in Nat /\ n \in Nat
    BY Entries
  <1>2. log[m].at \in {2 * m, 2 * m + 3} /\ log[n].at \in {2 * n, 2 * n + 3}
    BY DEF EntryInv
  <1>3. 2 * m # 2 * n + 3 /\ 2 * n # 2 * m + 3
    BY <1>1
  <1> QED
    BY <1>1, <1>2, <1>3

------------------------------------------------------------------------------
(* The steps of a session.                                                   *)

LEMMA Mapped ==
    ASSUME NEW k \in Nat, NEW S, NEW f, f \in [1..k -> S]
    PROVE  f \in Seq(S) /\ Len(f) = k
  <1>1. f \in Seq(S)
    BY SeqDef
  <1>2. DOMAIN f = 1..k /\ DOMAIN f = 1..Len(f) /\ Len(f) \in Nat
    BY <1>1, LenProperties
  <1> QED
    BY <1>1, <1>2

LEMMA SelectStep ==
    ASSUME EntryInv, SessionInv, TouchInv, LinkInv, ChainInv, NEW w \in Writer, NEW s \in Shard, Select(w, s)
    PROVE  EntryInv' /\ SessionInv' /\ TouchInv' /\ LinkInv' /\ ChainInv'
  <1> DEFINE seen == Sees(w, s)
  <1>1. PICK last : last = LastRow(w, s)
    OBVIOUS
  <1>2. /\ target' = [target EXCEPT ![w] = [shard |-> s, last |-> last]]
        /\ touched' = [touched EXCEPT ![w] = touched[w] \cup {s}]
        /\ contended' = IF \E v \in Writer \ {w} : s \in touched[v] THEN contended \cup {s} ELSE contended
        /\ UNCHANGED <<log, status, author>>
    BY <1>1 DEF Select
  <1>3. seen = Chainable(w, s) /\ seen \subseteq Numbers
    BY DEF Sees, Chainable, Committed, OpenOf
  <1>4. last \in {0} \cup Chainable(w, s) /\ last \in Nat
    <2>1. last = Newest(seen)
      BY <1>1 DEF LastRow
    <2>2. CASE seen = {}
      BY <2>1, <2>2 DEF Newest
    <2>3. CASE seen # {}
      <3>1. last \in Chainable(w, s) /\ last \in Numbers
        BY <1>3, <2>1, <2>3, NewestIn
      <3> QED
        BY <3>1, Entries
    <2> QED
      BY <2>2, <2>3
  <1>5. pc' \in [Writer -> {"idle", "waiting", "locked", "open"}] /\ lock' \in [Numbers -> Holder]
        /\ \A v \in Writer \ {w} : pc'[v] = pc[v]
    <2>1. pc \in [Writer -> {"idle", "waiting", "locked", "open"}] /\ lock \in [Numbers -> Holder]
      BY Entries DEF SessionInv
    <2>2. \/ pc' = [pc EXCEPT ![w] = "waiting"] /\ UNCHANGED lock
          \/ pc' = [pc EXCEPT ![w] = "locked"]
             /\ lock' = [n \in Numbers |-> IF n = last THEN w ELSE lock[n]]
      BY <1>1 DEF Select
    <2> QED
      BY <2>1, <2>2 DEF Holder
  <1>6. EntryInv'
    BY <1>2, <1>5, Entries, Mapped DEF EntryInv, Numbers
  <1>7. SessionInv'
    <2>1. [shard |-> s, last |-> last] \in [shard : 0..NumShards, last : Nat]
      BY <1>4, ChainAssumption DEF Shard
    <2>2. target' \in [Writer -> [shard : 0..NumShards, last : Nat]]
      BY <1>2, <2>1 DEF SessionInv
    <2>3. touched' \in [Writer -> SUBSET Shard] /\ contended' \subseteq Shard
      BY <1>2 DEF SessionInv
    <2> QED
      BY <1>5, <2>2, <2>3 DEF SessionInv
  <1>8. /\ target'[w].shard = s /\ target'[w].last = last /\ \A v \in Writer \ {w} : target'[v] = target[v]
        /\ touched'[w] = touched[w] \cup {s} /\ \A v \in Writer \ {w} : touched'[v] = touched[v]
        /\ contended \subseteq contended'
        /\ s \notin contended' => \A v \in Writer \ {w} : s \notin touched[v]
    BY <1>2 DEF SessionInv
  <1>9. TouchInv'
    <2>1. \A n \in Numbers : status[n] = "open" => author[n] \in Writer /\ log[n].shard \in touched'[author[n]]
      BY <1>8 DEF TouchInv
    <2>2. \A v \in Writer : Appending(v)' => target'[v].shard \in touched'[v]
      BY <1>5, <1>8 DEF TouchInv, Appending
    <2>3. \A u, v \in Writer : u # v => touched'[u] \cap touched'[v] \subseteq contended'
      BY <1>2, <1>8 DEF TouchInv
    <2> QED
      BY <1>2, <2>1, <2>2, <2>3 DEF TouchInv, Numbers
  <1>10. LinkInv'
    <2>1. \A v \in Writer : Appending(v)' => target'[v].last \in {0} \cup Chainable(v, target'[v].shard)
      BY <1>4, <1>5, <1>8 DEF LinkInv, Appending
    <2> QED
      BY <1>2, <2>1 DEF LinkInv, Chainable, Committed, Numbers
  <1>11. ChainInv'
    <2> SUFFICES ASSUME NEW t \in Shard \ contended' PROVE ShardInv(t)'
      BY DEF ChainInv
    <2>1. ShardInv(t)
      BY <1>8 DEF ChainInv
    <2>2. ASSUME NEW v \in Writer, Appending(v)', target'[v].shard = t
          PROVE  IsNewest(target'[v].last, Kept(t))
      <3>1. CASE v # w
        BY <1>5, <1>8, <2>1, <2>2, <3>1 DEF ShardInv, Appending
      <3>2. CASE v = w
        <4>1. t = s /\ \A u \in Writer \ {w} : s \notin touched[u]
          BY <1>8, <2>2, <3>2
        <4>2. \A n \in Kept(s) : status[n] = "committed" \/ (status[n] = "open" /\ author[n] = w)
          BY <4>1, Entries DEF Kept, TouchInv, Status
        <4>3. Kept(s) = seen
          BY <1>3, <4>2 DEF Kept, Chainable
        <4> QED
          BY <1>1, <1>3, <1>8, <2>2, <3>2, <4>1, <4>3, NewestIsNewest DEF LastRow
      <3> QED
        BY <3>1, <3>2
    <2>3. Kept(t)' = Kept(t) /\ \A n : Below(t, n)' = Below(t, n)
      BY <1>2 DEF Kept, Below, Numbers
    <2> QED
      BY <1>2, <2>1, <2>2, <2>3 DEF ShardInv, IsNewest
  <1> QED
    BY <1>6, <1>7, <1>9, <1>10, <1>11

LEMMA WakeStep ==
    ASSUME EntryInv, SessionInv, TouchInv, LinkInv, ChainInv, NEW w \in Writer, Wake(w)
    PROVE  EntryInv' /\ SessionInv' /\ TouchInv' /\ LinkInv' /\ ChainInv'
  <1>1. /\ pc[w] = "waiting" /\ pc' = [pc EXCEPT ![w] = "locked"]
        /\ lock' = [lock EXCEPT ![target[w].last] = w]
        /\ UNCHANGED <<log, status, author, target, touched, contended>>
    BY DEF Wake
  <1>2. lock' \in [Numbers -> Holder]
    BY <1>1, Entries DEF Holder
  <1>3. EntryInv'
    BY <1>1, <1>2, Entries, Mapped DEF EntryInv, Numbers
  <1>4. \A v \in Writer : Appending(v)' <=> Appending(v)
    BY <1>1 DEF Appending, SessionInv
  <1>5. SessionInv'
    BY <1>1 DEF SessionInv
  <1>6. TouchInv' /\ LinkInv'
    BY <1>1, <1>4 DEF TouchInv, LinkInv, Chainable, Committed, Numbers
  <1>7. ChainInv'
    BY <1>1, <1>4 DEF ChainInv, ShardInv, Kept, Below, IsNewest, Numbers
  <1> QED
    BY <1>3, <1>5, <1>6, <1>7

LEMMA InsertEntries ==
    ASSUME EntryInv, SessionInv, TouchInv, NEW w \in Writer, Insert(w)
    PROVE  /\ EntryInv' /\ Numbers' = Numbers \cup {Len(log) + 1} /\ Len(log) + 1 \notin Numbers
           /\ \A n \in Numbers : log'[n] = log[n] /\ status'[n] = status[n] /\ author'[n] = author[n]
           /\ log'[Len(log) + 1].shard = target[w].shard /\ log'[Len(log) + 1].prev = target[w].last
           /\ status'[Len(log) + 1] = "open" /\ author'[Len(log) + 1] = w
           /\ target[w].shard \in Shard
  <1>1. PICK e, k : e = [shard |-> target[w].shard, prev |-> target[w].last, at |-> Now(w)] /\ k = Len(log) + 1
    OBVIOUS
  <1>2. /\ pc[w] = "locked" /\ log' = Append(log, e) /\ status' = Append(status, "open")
        /\ author' = Append(author, w) /\ lock' = Append(lock, NoOne)
    BY <1>1 DEF Insert
  <1>3. target[w].shard \in Shard /\ target[w].last \in Nat
    BY <1>2 DEF TouchInv, SessionInv, Appending
  <1>4. Len(log) \in Nat /\ Now(w) \in Nat /\ Now(w) \in {2 * k, 2 * k + 3}
    <2>1. Len(log) \in Nat /\ k = Len(log) + 1
      BY <1>1, Entries
    <2>2. w \in Late => Now(w) = 2 * k
      BY <2>1 DEF Now
    <2>3. w \notin Late => Now(w) = 2 * k + 3
      BY <2>1 DEF Now
    <2> QED
      BY <2>1, <2>2, <2>3
  <1>5. e \in Entry /\ e.shard = target[w].shard /\ e.prev = target[w].last /\ e.at = Now(w)
    BY <1>1, <1>3, <1>4 DEF Entry
  <1>6. /\ log' \in Seq(Entry) /\ Len(log') = k /\ log'[k] = e /\ \A n \in 1..Len(log) : log'[n] = log[n]
    BY <1>1, <1>2, <1>5, AppendProperties DEF EntryInv
  <1>7. /\ status' \in Seq(Status) /\ Len(status') = k /\ status'[k] = "open"
        /\ \A n \in 1..Len(log) : status'[n] = status[n]
    <2>1. "open" \in Status
      BY DEF Status
    <2> QED
      BY <1>1, <1>2, <2>1, AppendProperties DEF EntryInv
  <1>8. /\ author' \in Seq(Holder) /\ Len(author') = k /\ author'[k] = w
        /\ \A n \in 1..Len(log) : author'[n] = author[n]
    <2>1. w \in Holder
      BY DEF Holder
    <2> QED
      BY <1>1, <1>2, <2>1, AppendProperties DEF EntryInv
  <1>9. lock' \in Seq(Holder) /\ Len(lock') = k
    <2>1. NoOne \in Holder
      BY DEF Holder
    <2> QED
      BY <1>1, <1>2, <2>1, AppendProperties DEF EntryInv
  <1>10. Numbers = 1..Len(log) /\ Numbers' = 1..k
    BY <1>6, Entries, LenProperties DEF Numbers
  <1>11. Numbers' = Numbers \cup {k} /\ k \notin Numbers
    BY <1>1, <1>4, <1>10
  <1>12. EntryInv'
    <2>1. \A n \in Numbers' : log'[n].at \in {2 * n, 2 * n + 3}
      BY <1>4, <1>5, <1>6, <1>10, <1>11 DEF EntryInv
    <2> QED
      BY <1>6, <1>7, <1>8, <1>9, <2>1 DEF EntryInv
  <1> QED
    BY <1>1, <1>3, <1>5, <1>6, <1>7, <1>8, <1>10, <1>11, <1>12

LEMMA InsertStep ==
    ASSUME EntryInv, SessionInv, TouchInv, LinkInv, ChainInv, NEW w \in Writer, Insert(w)
    PROVE  EntryInv' /\ SessionInv' /\ TouchInv' /\ LinkInv' /\ ChainInv'
  <1>1. PICK k, s, p : k = Len(log) + 1 /\ s = target[w].shard /\ p = target[w].last
    OBVIOUS
  <1>2. /\ EntryInv' /\ Numbers' = Numbers \cup {k} /\ k \notin Numbers
        /\ \A n \in Numbers : log'[n] = log[n] /\ status'[n] = status[n] /\ author'[n] = author[n]
        /\ log'[k].shard = s /\ log'[k].prev = p /\ status'[k] = "open" /\ author'[k] = w /\ s \in Shard
    BY <1>1, InsertEntries
  <1>3. /\ pc[w] = "locked" /\ pc' = [pc EXCEPT ![w] = "open"]
        /\ target' = [target EXCEPT ![w] = NoTarget] /\ UNCHANGED <<touched, contended>>
    BY DEF Insert
  <1>4. k \in Nat /\ \A n \in Numbers : n \in Nat /\ n < k
    BY <1>1, Entries
  <1>5. SessionInv'
    <2>1. NoTarget \in [shard : 0..NumShards, last : Nat]
      BY ChainAssumption DEF NoTarget
    <2> QED
      BY <1>3, <2>1 DEF SessionInv
  <1>6. ASSUME NEW v \in Writer, Appending(v)'
        PROVE  v # w /\ Appending(v) /\ target'[v] = target[v]
    BY <1>3, <1>6 DEF Appending, SessionInv
  <1>7. p \in {0} \cup Chainable(w, s) /\ s \in touched[w]
    BY <1>1, <1>3 DEF LinkInv, TouchInv, Appending
  <1>8. TouchInv'
    <2>1. \A n \in Numbers' : status'[n] = "open" => author'[n] \in Writer /\ log'[n].shard \in touched'[author'[n]]
      BY <1>2, <1>3, <1>7 DEF TouchInv
    <2> QED
      BY <1>3, <1>6, <2>1 DEF TouchInv
  <1>9. \A t : Committed(t)' = Committed(t)
    BY <1>2 DEF Committed
  <1>10. \A v, t : Chainable(v, t) \subseteq Chainable(v, t)'
    BY <1>2 DEF Chainable
  <1>11. LinkInv'
    <2>1. ASSUME NEW n \in Numbers
          PROVE  /\ log'[n].prev < n
                 /\ status'[n] = "committed" => log'[n].prev \in {0} \cup Committed(log'[n].shard)
                 /\ status'[n] = "open" => log'[n].prev \in {0} \cup Chainable(author[n], log[n].shard)
      BY <1>2 DEF LinkInv
    <2>2. log'[k].prev < k
      <3>1. p \in {0} \cup Numbers
        BY <1>7 DEF Chainable
      <3>2. 0 < k
        BY <1>1, Entries
      <3> QED
        BY <1>2, <1>4, <3>1, <3>2
    <2>3. \A n \in Numbers' : log'[n].prev < n
      BY <1>2, <2>1, <2>2
    <2>4. \A n \in Numbers' : status'[n] = "committed" => log'[n].prev \in {0} \cup Committed(log'[n].shard)
      BY <1>2, <2>1
    <2>5. ASSUME NEW n \in Numbers', status'[n] = "open", NEW v, v = author'[n], NEW t, t = log'[n].shard
          PROVE  log'[n].prev \in {0} \cup Chainable(v, t)'
      <3>1. CASE n = k
        BY <1>2, <1>7, <1>10, <2>5, <3>1
      <3>2. CASE n # k
        BY <1>2, <1>10, <2>1, <2>5, <3>2
      <3> QED
        BY <3>1, <3>2
    <2>6. ASSUME NEW v \in Writer, Appending(v)', NEW t, t = target'[v].shard
          PROVE  target'[v].last \in {0} \cup Chainable(v, t)'
      BY <1>6, <1>10, <2>6 DEF LinkInv
    <2>7. \A n \in Numbers' : status'[n] = "committed" => log'[n].prev \in {0} \cup Committed(log[n].shard)'
      BY <1>9, <2>4 DEF Committed
    <2> QED
      BY <2>3, <2>5, <2>6, <2>7 DEF LinkInv, Chainable, Committed
  <1>12. ChainInv'
    <2> SUFFICES ASSUME NEW t \in Shard \ contended' PROVE ShardInv(t)'
      BY DEF ChainInv
    <2>1. ShardInv(t) /\ t \notin contended
      BY <1>3 DEF ChainInv
    <2>2. /\ Kept(t)' = Kept(t) \cup (IF t = s THEN {k} ELSE {})
          /\ \A n \in Numbers : Below(t, n)' = Below(t, n)
          /\ Below(t, k)' = Kept(t)
      <3>1. Kept(t)' = Kept(t) \cup (IF t = s THEN {k} ELSE {})
        BY <1>2 DEF Kept
      <3> QED
        BY <1>4, <3>1 DEF Below, Kept
    <2>3. \A q, S : S \subseteq Numbers /\ IsNewest(q, S) => IsNewest(q, S)'
      BY <1>2 DEF IsNewest
    <2>4. Kept(t) \subseteq Numbers /\ \A n : Below(t, n) \subseteq Numbers
      BY DEF Kept, Below
    <2>5. \A m, n \in Kept(t)' : status'[m] = "committed" /\ status'[n] = "open" => m < n
      BY <1>2, <1>4, <2>1, <2>2, <2>4 DEF ShardInv
    <2>6. ASSUME NEW n \in Kept(t)'
          PROVE  \E S \in SUBSET Numbers : S = Below(t, n)' /\ IsNewest(log'[n].prev, S)
      <3>1. CASE n = k
        <4>1. t = s
          BY <1>2, <2>2, <2>4, <3>1
        <4>2. IsNewest(p, Kept(t))
          BY <1>1, <1>3, <2>1, <4>1 DEF ShardInv, Appending
        <4> QED
          BY <1>2, <2>2, <2>4, <3>1, <4>2
      <3>2. CASE n # k
        <4>1. n \in Kept(t)
          BY <2>2, <3>2
        <4> QED
          BY <1>2, <2>1, <2>2, <2>4, <4>1 DEF ShardInv
      <3> QED
        BY <3>1, <3>2
    <2>7. \A v \in Writer : Appending(v)' => target'[v].shard # t \/ t # s
      BY <1>3, <1>6, <1>7, <2>1 DEF TouchInv
    <2>8. ASSUME NEW v \in Writer, Appending(v)', target'[v].shard = t
          PROVE  Kept(t)' = Kept(t) /\ IsNewest(target'[v].last, Kept(t))
      <3>1. Kept(t)' = Kept(t)
        BY <2>2, <2>7, <2>8
      <3> QED
        BY <1>6, <2>1, <2>8, <3>1 DEF ShardInv
    <2>9. \A n \in Kept(t)' : IsNewest(log[n].prev, Below(t, n))'
      BY <2>3, <2>6 DEF IsNewest
    <2>10. \A v \in Writer : Appending(v)' /\ target'[v].shard = t => IsNewest(target[v].last, Kept(t))'
      BY <2>3, <2>4, <2>8 DEF IsNewest
    <2> QED
      BY <2>5, <2>9, <2>10 DEF ShardInv
  <1> QED
    BY <1>2, <1>5, <1>8, <1>11, <1>12

LEMMA EndStep ==
    ASSUME EntryInv, SessionInv, TouchInv, LinkInv, ChainInv, NEW w \in Writer,
           NEW outcome \in {"committed", "aborted"}, EndTransaction(w, outcome)
    PROVE  EntryInv' /\ SessionInv' /\ TouchInv' /\ LinkInv' /\ ChainInv'
  <1>1. /\ status' = [n \in Numbers |-> IF n \in OpenOf(w) THEN outcome ELSE status[n]]
        /\ pc' = [pc EXCEPT ![w] = "idle"] /\ target' = [target EXCEPT ![w] = NoTarget]
        /\ touched' = [touched EXCEPT ![w] = {}] /\ lock' = Unlocked(w)
        /\ UNCHANGED <<log, author, contended>>
    BY DEF EndTransaction
  <1>2. /\ \A n \in Numbers : author[n] = w /\ status[n] = "open" => status'[n] = outcome
        /\ \A n \in Numbers : ~(author[n] = w /\ status[n] = "open") => status'[n] = status[n]
    BY <1>1 DEF OpenOf
  <1>3. EntryInv'
    <2>1. outcome \in Status
      BY DEF Status
    <2>2. status' \in [Numbers -> Status]
      BY <1>1, <2>1, Entries
    <2>3. lock' \in [Numbers -> Holder]
      <3>1. NoOne \in Holder
        BY DEF Holder
      <3> QED
        BY <1>1, <3>1, Entries DEF Unlocked
    <2> QED
      BY <1>1, <2>2, <2>3, Entries, Mapped DEF EntryInv, Numbers
  <1>4. SessionInv'
    <2>1. NoTarget \in [shard : 0..NumShards, last : Nat]
      BY ChainAssumption DEF NoTarget
    <2> QED
      BY <1>1, <2>1 DEF SessionInv
  <1>5. ASSUME NEW v \in Writer, Appending(v)'
        PROVE  v # w /\ Appending(v) /\ target'[v] = target[v]
    BY <1>1, <1>5 DEF Appending, SessionInv
  <1>6. Numbers' = Numbers /\ \A v \in Writer \ {w} : touched'[v] = touched[v]
    BY <1>1 DEF Numbers
  <1>7. TouchInv'
    <2>1. \A n \in Numbers : status'[n] = "open" => author[n] # w /\ status[n] = "open"
      BY <1>2
    <2>2. \A n \in Numbers : status'[n] = "open" => author[n] \in Writer /\ log[n].shard \in touched'[author[n]]
      BY <1>6, <2>1 DEF TouchInv
    <2>3. \A v \in Writer : Appending(v)' => target'[v].shard \in touched'[v]
      BY <1>5, <1>6 DEF TouchInv
    <2>4. \A u, v \in Writer : u # v => touched'[u] \cap touched'[v] \subseteq contended
      BY <1>1, <1>6 DEF TouchInv, SessionInv
    <2> QED
      BY <1>1, <1>6, <2>2, <2>3, <2>4 DEF TouchInv
  <1>8. LinkInv'
    <2>1. \A t : Committed(t) \subseteq Committed(t)'
      BY <1>1, <1>2, <1>6 DEF Committed
    <2>2. \A v, t : v # w => Chainable(v, t) \subseteq Chainable(v, t)'
      BY <1>1, <1>2, <1>6 DEF Chainable
    <2>3. \A t : outcome = "committed" => Chainable(w, t) \subseteq Committed(t)'
      BY <1>1, <1>2, <1>6 DEF Chainable, Committed
    <2>4. ASSUME NEW n \in Numbers, status'[n] = "committed", NEW t, t = log[n].shard
          PROVE  log[n].prev \in {0} \cup Committed(t)'
      <3>1. CASE status[n] = "committed"
        BY <2>1, <2>4, <3>1 DEF LinkInv
      <3>2. CASE status[n] # "committed"
        BY <1>2, <2>3, <2>4, <3>2 DEF LinkInv
      <3> QED
        BY <3>1, <3>2
    <2>5. ASSUME NEW n \in Numbers, status'[n] = "open", NEW t, t = log[n].shard, NEW v, v = author[n]
          PROVE  log[n].prev \in {0} \cup Chainable(v, t)'
      BY <1>2, <2>2, <2>5 DEF LinkInv
    <2>6. ASSUME NEW v \in Writer, Appending(v)', NEW t, t = target'[v].shard
          PROVE  target'[v].last \in {0} \cup Chainable(v, t)'
      BY <1>5, <2>2, <2>6 DEF LinkInv
    <2>7. \A n \in Numbers' : log'[n].prev < n
      BY <1>1, <1>6 DEF LinkInv
    <2> QED
      BY <1>1, <1>6, <2>4, <2>5, <2>6, <2>7 DEF LinkInv, Chainable, Committed
  <1>9. ChainInv'
    <2> SUFFICES ASSUME NEW t \in Shard \ contended PROVE ShardInv(t)'
      BY <1>1 DEF ChainInv
    <2>1. ShardInv(t)
      BY DEF ChainInv
    <2>2. \A q, S : IsNewest(q, S) => IsNewest(q, S)'
      BY <1>1 DEF IsNewest
    <2>3. CASE t \notin touched[w]
      <3>1. \A n \in Kept(t) : ~(author[n] = w /\ status[n] = "open")
        BY <2>3 DEF Kept, TouchInv
      <3>2. /\ Kept(t)' = Kept(t) /\ \A n \in Kept(t) : status'[n] = status[n]
            /\ \A n : Below(t, n)' = Below(t, n)
        <4>1. Kept(t)' = Kept(t) /\ \A n \in Kept(t) : status'[n] = status[n]
          BY <1>1, <1>2, <1>6, <3>1 DEF Kept
        <4> QED
          BY <4>1 DEF Below
      <3>3. \A m, n \in Kept(t)' : status'[m] = "committed" /\ status'[n] = "open" => m < n
        BY <2>1, <3>2 DEF ShardInv
      <3>4. \A n \in Kept(t)' : IsNewest(log[n].prev, Below(t, n))'
        <4> TAKE n \in Kept(t)'
        <4>1. n \in Kept(t) /\ Below(t, n)' = Below(t, n) /\ log' = log
          BY <1>1, <3>2
        <4>2. IsNewest(log[n].prev, Below(t, n))
          BY <2>1, <4>1 DEF ShardInv
        <4> QED
          BY <4>1, <4>2 DEF IsNewest
      <3>5. \A v \in Writer : Appending(v)' /\ target'[v].shard = t => IsNewest(target[v].last, Kept(t))'
        <4> SUFFICES ASSUME NEW v \in Writer, Appending(v)', target'[v].shard = t
                     PROVE  IsNewest(target[v].last, Kept(t))'
          OBVIOUS
        <4>1. target'[v] = target[v] /\ Kept(t)' = Kept(t) /\ log' = log
          BY <1>1, <1>5, <3>2
        <4>2. IsNewest(target[v].last, Kept(t))
          BY <1>5, <2>1, <4>1 DEF ShardInv
        <4> QED
          BY <4>1, <4>2 DEF IsNewest
      <3> QED
        BY <3>3, <3>4, <3>5 DEF ShardInv
    <2>4. CASE t \in touched[w]
      <3>1. \A v \in Writer \ {w} : t \notin touched[v]
        BY <2>4 DEF TouchInv
      <3>2. \A n \in Kept(t) : status[n] = "committed" \/ (status[n] = "open" /\ author[n] = w)
        BY <3>1, Entries DEF Kept, TouchInv, Status
      <3>3. \A v \in Writer : Appending(v)' => target'[v].shard # t
        BY <1>5, <3>1 DEF TouchInv
      <3>4. \A n \in Kept(t)' : n \in Kept(t) /\ status'[n] = "committed"
        BY <1>1, <1>2, <1>6, <3>2, Entries DEF Kept
      <3>5. \A n \in Kept(t)' : Below(t, n)' = Below(t, n)
        <4>1. CASE outcome = "committed"
          <5>1. Kept(t)' = Kept(t)
            BY <1>1, <1>2, <1>6, <4>1 DEF Kept
          <5> QED
            BY <5>1 DEF Below
        <4>2. CASE outcome = "aborted"
          <5>1. \A n \in Numbers : n \in Kept(t)' <=> n \in Kept(t) /\ status[n] = "committed"
            BY <1>1, <1>2, <1>6, <3>2, <4>2 DEF Kept
          <5>2. ASSUME NEW n \in Kept(t)', NEW m \in Kept(t), m < n
                PROVE  m \in Kept(t)'
            <6>1. n \in Kept(t) /\ status[n] = "committed" /\ m \in Numbers /\ n \in Numbers
              BY <3>4, <5>1, <5>2 DEF Kept
            <6>2. status[m] # "open"
              BY <2>1, <5>2, <6>1, Entries DEF ShardInv
            <6> QED
              BY <3>2, <5>1, <5>2, <6>1, <6>2
          <5> QED
            BY <3>4, <5>2 DEF Below
        <4> QED
          BY <4>1, <4>2
      <3>6. \A n \in Kept(t)' : IsNewest(log[n].prev, Below(t, n))
        BY <2>1, <3>4 DEF ShardInv
      <3>7. \A n \in Kept(t)' : status'[n] # "open"
        BY <3>4
      <3>8. \A n \in Kept(t)' : IsNewest(log[n].prev, Below(t, n))'
        BY <1>1, <3>5, <3>6 DEF IsNewest
      <3> QED
        BY <3>3, <3>7, <3>8 DEF ShardInv
    <2> QED
      BY <2>3, <2>4
  <1> QED
    BY <1>3, <1>4, <1>7, <1>8, <1>9

------------------------------------------------------------------------------
(* Following prev_hash.                                                      *)

Linked == \A n \in Numbers : log[n].prev \in Nat /\ log[n].prev < n

\* S is what Ancestors(n) is the smallest of.
Closed(S, n) == S \in SUBSET (0..n) /\ n \in S /\ \A k \in S \ {0} : log[k].prev \in S

LEMMA AncestorsOf ==
    ASSUME NEW n, NEW m
    PROVE  m \in Ancestors(n) <=> m \in 0..n /\ \A S : Closed(S, n) => m \in S
  BY DEF Ancestors, Closed

\* An entry is an ancestor of its own, every chain ends in 0, and the ancestors
\* of what an entry is chained to are its ancestors.
LEMMA AncestorsFacts ==
    ASSUME EntryInv, Linked, NEW n \in Numbers
    PROVE  n \in Ancestors(n) /\ 0 \in Ancestors(n) /\ Ancestors(log[n].prev) \subseteq Ancestors(n)
  <1>0. /\ n \in Nat /\ n \in 1..Len(log) /\ Len(log) \in Nat
        /\ log[n].prev \in Nat /\ log[n].prev < n
    BY Entries DEF Linked
  <1>1. n \in Ancestors(n)
    BY <1>0, AncestorsOf DEF Closed
  <1>2. 0 \in Ancestors(n)
    <2> SUFFICES ASSUME NEW S, Closed(S, n) PROVE 0 \in S
      BY <1>0, AncestorsOf
    <2>1. S \subseteq Nat /\ S # {} /\ \A k \in S : k <= n
      BY <1>0 DEF Closed
    <2>2. PICK x \in S : \A y \in S : x <= y
      BY <2>1, Smallest
    <2>3. CASE x = 0
      BY <2>3
    <2>4. CASE x # 0
      <3>1. log[x].prev \in S
        BY <2>4 DEF Closed
      <3>2. x \in Numbers
        BY <1>0, <2>1, <2>4, Entries
      <3>3. log[x].prev < x /\ log[x].prev \in Nat /\ x \in Nat
        BY <2>1, <3>2 DEF Linked
      <3> QED
        BY <2>2, <3>1, <3>3
    <2> QED
      BY <2>3, <2>4
  <1>3. Ancestors(log[n].prev) \subseteq Ancestors(n)
    <2> SUFFICES ASSUME NEW m \in Ancestors(log[n].prev), NEW S, Closed(S, n) PROVE m \in S
      <3>1. \A m \in Ancestors(log[n].prev) : m \in 0..n
        BY <1>0, AncestorsOf
      <3> QED
        BY <3>1, AncestorsOf
    <2> DEFINE p == log[n].prev
               T == S \cap (0..p)
    <2>1. p \in S
      BY <1>0 DEF Closed
    <2>2. ASSUME NEW k \in T \ {0} PROVE log[k].prev \in T
      <3>1. k \in Nat /\ k <= p /\ k \in Numbers
        BY <1>0, <2>2, Entries
      <3>2. log[k].prev \in S
        BY <2>2 DEF Closed
      <3>3. log[k].prev \in Nat /\ log[k].prev < k
        BY <3>1 DEF Linked
      <3> QED
        BY <1>0, <3>1, <3>2, <3>3
    <2>3. Closed(T, p)
      BY <1>0, <2>1, <2>2 DEF Closed
    <2> QED
      BY <2>3, AncestorsOf
  <1> QED
    BY <1>1, <1>2, <1>3

\* On a shard without overlaps an entry that led when it came is an ancestor of
\* every later entry: each was chained to the newest one before it, and no
\* newest one was ever inserted before the one that led.
LEMMA LeadersAreAncestors ==
    ASSUME EntryInv, Linked, NEW s, ShardInv(s), NEW m \in Kept(s), NEW n \in Kept(s), m <= n, Leads(m, s)
    PROVE  m \in Ancestors(n)
  <1> DEFINE T == {x \in Kept(s) : m <= x /\ m \notin Ancestors(x)}
  <1>0. /\ Kept(s) \subseteq Numbers
        /\ \A x \in Numbers : x \in Nat /\ log[x].at \in Nat
    BY Entries DEF Kept
  <1> SUFFICES ASSUME T # {} PROVE FALSE
    OBVIOUS
  <1>1. PICK x \in T : \A y \in T : x <= y
    <2>1. T \subseteq Nat
      BY <1>0
    <2> HIDE DEF T
    <2> QED
      BY <2>1, Smallest
  <1>2. x \in Kept(s) /\ x \in Numbers /\ m <= x /\ m \notin Ancestors(x)
    BY <1>0, <1>1
  <1>3. m \in Below(s, x)
    <2>1. m # x
      BY <1>2, AncestorsFacts
    <2> QED
      BY <1>0, <1>2, <2>1 DEF Below
  <1>4. PICK p : p = log[x].prev
    OBVIOUS
  <1>5. p \in Below(s, x) /\ log[m].at <= log[p].at
    BY <1>2, <1>3, <1>4 DEF ShardInv, IsNewest
  <1>6. p \in Kept(s) /\ p < x
    BY <1>5 DEF Below
  <1>7. m <= p
    <2> SUFFICES ASSUME p < m PROVE FALSE
      BY <1>0, <1>6
    <2>1. p \in Below(s, m)
      BY <1>6 DEF Below
    <2>2. log[p].at < log[m].at
      BY <2>1 DEF Leads
    <2> QED
      BY <1>0, <1>5, <1>6, <2>2
  <1>8. m \notin Ancestors(p)
    BY <1>2, <1>4, AncestorsFacts
  <1>9. p \in T
    BY <1>6, <1>7, <1>8
  <1> QED
    BY <1>0, <1>1, <1>2, <1>6, <1>9

------------------------------------------------------------------------------
(* What successive rolls record.                                             *)

\* The head of a shard led when it was inserted, and no recorded head is younger.
LEMMA NextHead ==
    ASSUME EntryInv, NEW s, ShardInv(s)
    PROVE  /\ RollHead(ShardHead(s), s)
           /\ \A h : RollHead(h, s) => h <= ShardHead(s)
  <1> DEFINE C == Committed(s)
  <1>0. /\ C \subseteq Numbers /\ C \subseteq Kept(s)
        /\ Kept(s) \subseteq Numbers /\ \A n \in Numbers : n \in Nat /\ log[n].at \in Nat
    BY Entries DEF Committed, Kept
  <1>1. CASE C = {}
    BY <1>1 DEF ShardHead, Newest, RollHead
  <1>2. CASE C # {}
    <2>1. PICK n : n = ShardHead(s)
      OBVIOUS
    <2>2. n \in C /\ \A m \in C : log[m].at <= log[n].at
      BY <1>0, <1>2, <2>1, NewestIn DEF ShardHead
    <2>3. ASSUME NEW m \in Below(s, n) PROVE log[m].at < log[n].at
      <3>1. m \in Kept(s) /\ m < n /\ m \in Numbers /\ n \in Numbers
        BY <1>0, <2>2 DEF Below
      <3>2. status[m] # "open"
        <4>1. status[n] = "committed" /\ n \in Kept(s)
          BY <1>0, <2>2 DEF Committed
        <4> QED
          BY <1>0, <3>1, <4>1 DEF ShardInv
      <3>3. m \in C
        BY <3>1, <3>2, Entries DEF Kept, Committed, Status
      <3>4. log[m].at # log[n].at
        BY <1>0, <3>1, TimesDiffer
      <3> QED
        BY <1>0, <2>2, <3>1, <3>3, <3>4
    <2>4. RollHead(n, s)
      BY <2>2, <2>3 DEF RollHead, Leads
    <2>5. ASSUME NEW h, RollHead(h, s) PROVE h <= n
      <3>1. CASE h = 0
        BY <1>0, <2>2, <3>1
      <3>2. CASE h \in C /\ Leads(h, s)
        <4> SUFFICES ASSUME n < h PROVE FALSE
          BY <1>0, <2>2, <3>2
        <4>1. n \in Below(s, h)
          BY <1>0, <2>2 DEF Below
        <4>2. log[n].at < log[h].at
          BY <3>2, <4>1 DEF Leads
        <4> QED
          BY <1>0, <2>2, <3>2, <4>2
      <3> QED
        BY <2>5, <3>1, <3>2 DEF RollHead
    <2> QED
      BY <2>1, <2>4, <2>5
  <1> QED
    BY <1>1, <1>2

\* Sessions add entries behind all others and take none of the committed away.
LEMMA SessionGrowth ==
    ASSUME EntryInv, GrowthInv, UNCHANGED roller, contended \subseteq contended',
           \A s : Committed(s) \subseteq Committed(s)',
           \A s : Kept(s)' \subseteq Kept(s) \cup {Len(log) + 1},
           \A n \in Numbers : log'[n] = log[n]
    PROVE  GrowthInv'
  <1>1. UNCHANGED <<heads, rolls>>
    BY DEF roller
  <1>2. ASSUME NEW s, NEW h, RollHead(h, s) PROVE RollHead(h, s)'
    <2>1. CASE h = 0
      BY <2>1 DEF RollHead
    <2>2. CASE h \in Committed(s) /\ Leads(h, s)
      <3>1. h \in Numbers /\ h \in Nat /\ h <= Len(log) /\ Len(log) \in Nat
        BY <2>2, Entries DEF Committed
      <3>2. ASSUME NEW m \in Below(s, h)' PROVE log'[m].at < log'[h].at
        <4>1. m \in Kept(s)' /\ m < h
          BY DEF Below
        <4>2. m # Len(log) + 1
          BY <3>1, <4>1
        <4>3. m \in Kept(s) /\ m \in Numbers
          BY <4>1, <4>2 DEF Kept
        <4>4. log[m].at < log[h].at
          BY <2>2, <4>1, <4>3 DEF Leads, Below
        <4> QED
          BY <3>1, <4>3, <4>4
      <3>3. h \in Committed(s)'
        BY <2>2
      <3> QED
        BY <3>2, <3>3 DEF RollHead, Leads
    <2> QED
      BY <1>2, <2>1, <2>2 DEF RollHead
  <1>3. ASSUME NEW s \in Shard \ contended' PROVE HeadInv(s)'
    <2>1. HeadInv(s)
      BY <1>3 DEF GrowthInv
    <2> QED
      BY <1>1, <1>2, <2>1 DEF HeadInv
  <1> QED
    BY <1>3 DEF GrowthInv

LEMMA RollerGrowth ==
    ASSUME EntryInv, RollInv, ChainInv, GrowthInv, Roller
    PROVE  GrowthInv'
  <1>1. UNCHANGED <<log, status, contended>>
    BY DEF Roller, ReadHead, Anchor, CommitRoll, RollFails, EndRoll, entries, sessions
  <1>2. \A s, h : RollHead(h, s)' <=> RollHead(h, s)
    BY <1>1 DEF RollHead, Leads, Below, Kept, Committed, Numbers
  <1>3. /\ Len(heads) \in Nat /\ NumShards \in Nat /\ heads \in Seq(Nat)
        /\ rolls \in Seq(anchored) /\ Len(rolls) \in Nat /\ DOMAIN rolls = 1..Len(rolls)
    BY LenProperties, ChainAssumption DEF RollInv, Root
  <1> SUFFICES ASSUME NEW s \in Shard \ contended PROVE HeadInv(s)'
    BY <1>1 DEF GrowthInv
  <1>4. /\ \A i \in DOMAIN rolls : RollHead(rolls[i][s], s)
        /\ \A i, j \in DOMAIN rolls : i < j => rolls[i][s] <= rolls[j][s]
        /\ s <= Len(heads) => RollHead(heads[s], s) /\ \A i \in DOMAIN rolls : rolls[i][s] <= heads[s]
    BY DEF GrowthInv, HeadInv
  <1>5. s \in Nat /\ 1 <= s /\ s <= NumShards
    BY <1>3 DEF Shard
  <1>6. CASE ReadHead
    <2>1. PICK h, k : h = ShardHead(k) /\ k = Len(heads) + 1
      OBVIOUS
    <2>2. heads' = Append(heads, h) /\ rolls' = rolls
      BY <1>6, <2>1 DEF ReadHead
    <2>3. k = s => RollHead(h, s) /\ \A i \in DOMAIN rolls : rolls[i][s] <= h
      BY <1>4, <2>1, NextHead DEF ChainInv
    <2>4. Len(heads') = k /\ heads'[k] = h /\ \A t \in 1..Len(heads) : heads'[t] = heads[t]
      BY <1>3, <2>1, <2>2
    <2>5. ASSUME s <= Len(heads')
          PROVE  RollHead(heads'[s], s) /\ \A i \in DOMAIN rolls : rolls[i][s] <= heads'[s]
      <3>1. CASE s = k
        BY <2>3, <2>4, <3>1
      <3>2. CASE s # k
        <4>1. s <= Len(heads) /\ s \in 1..Len(heads)
          BY <1>3, <1>5, <2>1, <2>4, <2>5, <3>2
        <4> QED
          BY <1>4, <2>4, <4>1
      <3> QED
        BY <3>1, <3>2
    <2> QED
      BY <1>2, <1>4, <2>2, <2>5 DEF HeadInv
  <1>7. CASE Anchor
    BY <1>2, <1>4, <1>7 DEF Anchor, HeadInv
  <1>8. ASSUME heads' = <<>> PROVE ~(s <= Len(heads'))
    BY <1>5, <1>8
  <1>9. CASE CommitRoll
    <2>1. heads' = <<>> /\ rolls' = Append(rolls, heads) /\ Len(heads) = NumShards
      BY <1>9 DEF CommitRoll, EndRoll, RollInv
    <2>2. RollHead(heads[s], s) /\ \A i \in DOMAIN rolls : rolls[i][s] <= heads[s]
      BY <1>4, <1>5, <2>1
    <2>3. PICK k : k = Len(rolls) + 1
      OBVIOUS
    <2>4. DOMAIN rolls' = 1..k /\ rolls'[k] = heads /\ \A i \in 1..Len(rolls) : rolls'[i] = rolls[i]
      BY <1>3, <2>1, <2>3
    <2>5. \A i \in DOMAIN rolls' : i = k \/ (i \in DOMAIN rolls /\ rolls'[i] = rolls[i])
      BY <1>3, <2>3, <2>4
    <2>6. \A i \in DOMAIN rolls' : RollHead(rolls'[i][s], s)
      BY <1>4, <2>2, <2>4, <2>5
    <2>7. ASSUME NEW i \in DOMAIN rolls', NEW j \in DOMAIN rolls', i < j
          PROVE  rolls'[i][s] <= rolls'[j][s]
      <3>1. i \in DOMAIN rolls /\ rolls'[i] = rolls[i]
        BY <1>3, <2>3, <2>4, <2>5, <2>7
      <3>2. CASE j = k
        BY <2>2, <2>4, <3>1, <3>2
      <3>3. CASE j # k
        BY <1>4, <2>5, <2>7, <3>1, <3>3
      <3> QED
        BY <3>2, <3>3
    <2> QED
      BY <1>2, <1>8, <2>1, <2>6, <2>7 DEF HeadInv
  <1>10. CASE RollFails
    <2>1. heads' = <<>> /\ rolls' = rolls
      BY <1>10 DEF RollFails, EndRoll
    <2> QED
      BY <1>2, <1>4, <1>8, <2>1 DEF HeadInv
  <1> QED
    BY <1>6, <1>7, <1>9, <1>10 DEF Roller

------------------------------------------------------------------------------
(* The roll.                                                                 *)

\* Entries are committed and stay so, and the roller does nothing.
LEMMA SessionRoll ==
    ASSUME EntryInv, RollInv, UNCHANGED roller, \A s : Committed(s) \subseteq Committed(s)'
    PROVE  RollInv'
  <1>1. UNCHANGED <<heads, receipt, anchored, rolls>>
    BY DEF roller
  <1>2. ASSUME NEW h, Root(h) PROVE Root(h)'
    BY <1>2 DEF Root
  <1> QED
    BY <1>1, <1>2 DEF RollInv, Root

LEMMA SessionStep ==
    ASSUME IInv, NEW w \in Writer, Session(w)
    PROVE  IInv'
  <1>1. UNCHANGED roller
    BY DEF Session, Select, Wake, Insert, Commit, Abort, DeadlockAbort, EndTransaction
  <1>2. \A s : Committed(s) \subseteq Committed(s)'
    <2>1. ASSUME UNCHANGED <<log, status>> PROVE \A s : Committed(s) \subseteq Committed(s)'
      BY <2>1 DEF Committed, Numbers
    <2>2. ASSUME Insert(w) PROVE \A s : Committed(s) \subseteq Committed(s)'
      BY <2>2, InsertEntries DEF Committed, IInv
    <2>3. ASSUME NEW outcome, EndTransaction(w, outcome) PROVE \A s : Committed(s) \subseteq Committed(s)'
      BY <2>3 DEF EndTransaction, Committed, OpenOf, Numbers
    <2> QED
      BY <2>1, <2>2, <2>3 DEF Session, Select, Wake, Commit, Abort, DeadlockAbort
  <1>3. RollInv'
    BY <1>1, <1>2, SessionRoll DEF IInv
  <1>5. /\ \A n \in Numbers : log'[n] = log[n]
        /\ \A s : Kept(s)' \subseteq Kept(s) \cup {Len(log) + 1}
        /\ contended \subseteq contended'
    <2>1. ASSUME UNCHANGED <<log, status>>
          PROVE  (\A n \in Numbers : log'[n] = log[n]) /\ \A s : Kept(s)' = Kept(s)
      BY <2>1 DEF Kept, Numbers
    <2>2. CASE Insert(w)
      <3>1. UNCHANGED contended
        BY <2>2 DEF Insert
      <3> QED
        BY <2>2, <3>1, InsertEntries DEF Kept, IInv
    <2>3. ASSUME NEW outcome \in {"committed", "aborted"}, EndTransaction(w, outcome)
          PROVE  /\ UNCHANGED <<log, contended>> /\ \A s : Kept(s)' \subseteq Kept(s)
      BY <2>3 DEF EndTransaction, Kept, OpenOf, Numbers
    <2>4. CASE Wake(w)
      BY <2>1, <2>4 DEF Wake
    <2>5. ASSUME NEW s \in Shard, Select(w, s)
          PROVE  UNCHANGED <<log, status>> /\ contended \subseteq contended'
      BY <2>5 DEF Select
    <2> QED
      BY <2>1, <2>2, <2>3, <2>4, <2>5 DEF Session, Commit, Abort, DeadlockAbort
  <1>6. GrowthInv'
    BY <1>1, <1>2, <1>5, SessionGrowth DEF IInv
  <1>4. EntryInv' /\ SessionInv' /\ TouchInv' /\ LinkInv' /\ ChainInv'
    BY SelectStep, WakeStep, InsertStep, EndStep DEF Session, Commit, Abort, DeadlockAbort, IInv
  <1> QED
    BY <1>3, <1>4, <1>6 DEF IInv

LEMMA RollerRoll ==
    ASSUME EntryInv, RollInv, Roller
    PROVE  RollInv'
  <1>1. \A s : Committed(s)' = Committed(s)
    BY DEF Roller, ReadHead, Anchor, CommitRoll, RollFails, EndRoll, entries, Committed, Numbers
  <1>2. \A h : Root(h)' <=> Root(h)
    BY <1>1 DEF Root
  <1>3. Root(heads) /\ heads \in Seq(Nat) /\ Len(heads) \in Nat /\ NumShards \in Nat
    BY LenProperties, ChainAssumption DEF RollInv, Root
  <1>4. Root(<<>>) /\ Len(<<>>) = 0
    <2>1. <<>> \in Seq(Nat) /\ Len(<<>>) = 0
      BY EmptySeq
    <2> QED
      BY <2>1 DEF Root
  <1>5. CASE ReadHead
    <2>1. PICK h, k : h = ShardHead(k) /\ k = Len(heads) + 1
      OBVIOUS
    <2>2. heads' = Append(heads, h) /\ Len(heads) < NumShards /\ UNCHANGED <<receipt, anchored, rolls>>
      BY <1>5, <2>1 DEF ReadHead
    <2>3. h \in {0} \cup Committed(k) /\ h \in Nat
      <3>1. Committed(k) \subseteq Numbers
        BY DEF Committed
      <3>2. CASE Committed(k) = {}
        BY <2>1, <3>2 DEF ShardHead, Newest
      <3>3. CASE Committed(k) # {}
        <4>1. h \in Committed(k)
          BY <2>1, <3>1, <3>3, NewestIn DEF ShardHead
        <4> QED
          BY <3>1, <4>1, Entries
      <3> QED
        BY <3>2, <3>3
    <2>4. /\ heads' \in Seq(Nat) /\ Len(heads') = k /\ heads'[k] = h
          /\ \A s \in 1..Len(heads) : heads'[s] = heads[s]
      BY <1>3, <2>1, <2>2, <2>3, AppendProperties
    <2>5. \A s \in 1..k : heads'[s] \in {0} \cup Committed(s)
      BY <1>3, <2>1, <2>3, <2>4 DEF Root
    <2>6. Root(heads)'
      BY <1>1, <2>4, <2>5 DEF Root
    <2>7. k <= NumShards /\ ~receipt
      BY <1>3, <2>1, <2>2 DEF RollInv
    <2> QED
      BY <1>2, <2>2, <2>4, <2>6, <2>7 DEF RollInv
  <1>6. ASSUME anchored' = anchored \cup {heads}, Len(heads) = NumShards
        PROVE  /\ \A h \in anchored' : Root(h)' /\ Len(h) = NumShards
               /\ rolls \in Seq(anchored')
    <2>1. anchored \subseteq anchored'
      BY <1>6
    <2>2. rolls \in Seq(anchored')
      BY <2>1, SeqMonotonic DEF RollInv
    <2> QED
      BY <1>2, <1>3, <1>6, <2>2 DEF RollInv
  <1>7. CASE Anchor
    BY <1>2, <1>3, <1>6, <1>7 DEF Anchor, WitnessStores, RollInv, Root
  <1>8. CASE CommitRoll
    <2>1. heads' = <<>> /\ receipt' = FALSE /\ anchored' = anchored /\ rolls' = Append(rolls, heads)
      BY <1>8 DEF CommitRoll, EndRoll
    <2>2. rolls' \in Seq(anchored)
      <3>1. heads \in anchored /\ rolls \in Seq(anchored)
        BY <1>8 DEF CommitRoll, RollInv
      <3> QED
        BY <2>1, <3>1, AppendProperties
    <2>3. Root(heads)' /\ Len(heads') <= NumShards
      BY <1>2, <1>3, <1>4, <2>1 DEF Root
    <2> QED
      BY <1>2, <2>1, <2>2, <2>3 DEF RollInv
  <1>9. CASE RollFails
    <2>1. heads' = <<>> /\ receipt' = FALSE /\ rolls' = rolls
      BY <1>9 DEF RollFails, EndRoll
    <2>2. Root(heads)' /\ Len(heads') <= NumShards
      BY <1>2, <1>3, <1>4, <2>1 DEF Root
    <2>3. \/ anchored' = anchored
          \/ anchored' = anchored \cup {heads} /\ Len(heads) = NumShards
      BY <1>9 DEF RollFails, WitnessStores
    <2>4. (\A h \in anchored' : Root(h)' /\ Len(h) = NumShards) /\ rolls \in Seq(anchored')
      BY <1>2, <1>6, <2>3 DEF RollInv
    <2> QED
      BY <2>1, <2>2, <2>4 DEF RollInv
  <1> QED
    BY <1>5, <1>7, <1>8, <1>9 DEF Roller

LEMMA QuietStep ==
    ASSUME EntryInv, SessionInv, TouchInv, LinkInv, ChainInv, UNCHANGED <<entries, sessions>>
    PROVE  EntryInv' /\ SessionInv' /\ TouchInv' /\ LinkInv' /\ ChainInv'
  <1>1. UNCHANGED <<log, status, author, lock, pc, target, touched, contended>>
    BY DEF entries, sessions
  <1>2. EntryInv' /\ SessionInv' /\ TouchInv'
    BY <1>1 DEF EntryInv, SessionInv, TouchInv, Appending, Numbers
  <1>3. LinkInv'
    BY <1>1 DEF LinkInv, Appending, Chainable, Committed, Numbers
  <1>4. ChainInv'
    BY <1>1 DEF ChainInv, ShardInv, Kept, Below, IsNewest, Appending, Numbers
  <1> QED
    BY <1>2, <1>3, <1>4

------------------------------------------------------------------------------
(* The invariant.                                                            *)

LEMMA InitInv == Init => IInv
  <1> SUFFICES ASSUME Init PROVE IInv
    OBVIOUS
  <1>1. Genesis \in Nat /\ Genesis <= NumShards /\ NumShards \in Nat
    BY ChainAssumption
  <1>2. /\ log = [n \in 1..Genesis |-> [shard |-> n, prev |-> 0, at |-> 2 * n]]
        /\ status = [n \in 1..Genesis |-> "committed"] /\ author = [n \in 1..Genesis |-> NoOne]
        /\ lock = [n \in 1..Genesis |-> NoOne] /\ Numbers = 1..Genesis
    BY DEF Init, Numbers
  <1>3. \A n \in Numbers : log[n].shard = n /\ log[n].prev = 0 /\ log[n].at = 2 * n /\ status[n] = "committed"
    BY <1>2
  <1>4. EntryInv
    <2>1. \A n \in 1..Genesis : [shard |-> n, prev |-> 0, at |-> 2 * n] \in Entry
      BY <1>1 DEF Entry, Shard
    <2>2. log \in [1..Genesis -> Entry]
      BY <1>2, <2>1
    <2>3. status \in [1..Genesis -> Status] /\ author \in [1..Genesis -> Holder] /\ lock \in [1..Genesis -> Holder]
      BY <1>2 DEF Status, Holder
    <2>4. \A n \in Numbers : log[n].at \in {2 * n, 2 * n + 3}
      BY <1>3
    <2> QED
      BY <1>1, <2>2, <2>3, <2>4, Mapped DEF EntryInv
  <1>5. SessionInv
    <2>1. NoTarget \in [shard : 0..NumShards, last : Nat]
      BY <1>1 DEF NoTarget
    <2> QED
      BY <2>1 DEF Init, SessionInv
  <1>6. \A w \in Writer : ~Appending(w)
    BY DEF Init, Appending
  <1>7. TouchInv /\ LinkInv
    <2>1. TouchInv
      BY <1>3, <1>6 DEF Init, TouchInv
    <2> QED
      BY <1>1, <1>2, <1>3, <1>6, <2>1 DEF LinkInv
  <1>8. ChainInv
    <2>1. \A s \in Shard : \A n \in Kept(s) : n = s /\ Below(s, n) = {} /\ log[n].prev = 0 /\ status[n] = "committed"
      BY <1>1, <1>2, <1>3 DEF Kept, Below
    <2> QED
      BY <1>6, <2>1 DEF ChainInv, ShardInv, IsNewest
  <1>9. RollInv
    <2>1. <<>> \in Seq(Nat) /\ Len(<<>>) = 0 /\ <<>> \in Seq(anchored)
      BY EmptySeq
    <2>2. Root(<<>>)
      BY <2>1 DEF Root
    <2>3. heads = <<>> /\ receipt = FALSE /\ anchored = {} /\ rolls = <<>>
      BY DEF Init
    <2>4. Root(heads) /\ Len(heads) <= NumShards /\ receipt \in BOOLEAN
      <3>1. Len(heads) = 0
        BY <2>1, <2>3
      <3>2. Len(heads) <= NumShards
        BY <1>1, <3>1
      <3>3. Root(heads)
        BY <2>2, <2>3
      <3> QED
        BY <2>3, <3>2, <3>3
    <2>5. rolls \in Seq(anchored)
      BY <2>1, <2>3
    <2> QED
      BY <2>3, <2>4, <2>5 DEF RollInv
  <1>10. GrowthInv
    <2>1. heads = <<>> /\ rolls = <<>> /\ Len(heads) = 0 /\ DOMAIN rolls = {}
      BY DEF Init
    <2>2. \A s \in Shard : ~(s <= Len(heads))
      BY <2>1 DEF Shard
    <2> QED
      BY <2>1, <2>2 DEF GrowthInv, HeadInv
  <1> QED
    BY <1>4, <1>5, <1>7, <1>8, <1>9, <1>10 DEF IInv

LEMMA NextInv == IInv /\ [Next]_vars => IInv'
  <1> SUFFICES ASSUME IInv, [Next]_vars PROVE IInv'
    OBVIOUS
  <1>1. CASE Roller
    <2>1. UNCHANGED <<entries, sessions>>
      BY <1>1 DEF Roller, ReadHead, Anchor, CommitRoll, RollFails, EndRoll
    <2> QED
      BY <1>1, <2>1, QuietStep, RollerRoll, RollerGrowth DEF IInv
  <1>2. ASSUME NEW w \in Writer, Session(w) PROVE IInv'
    BY <1>2, SessionStep
  <1>3. CASE UNCHANGED vars
    <2>1. UNCHANGED <<entries, sessions>> /\ UNCHANGED roller
      BY <1>3 DEF vars
    <2>2. \A s : Committed(s)' = Committed(s) /\ Kept(s)' = Kept(s)
      BY <2>1 DEF entries, Committed, Kept, Numbers
    <2>3. log' = log /\ contended' = contended
      BY <2>1 DEF entries, sessions
    <2> QED
      BY <2>1, <2>2, <2>3, QuietStep, SessionRoll, SessionGrowth DEF IInv
  <1> QED
    BY <1>1, <1>2, <1>3 DEF Next

LEMMA Invariant == Spec => []IInv
  BY InitInv, NextInv, PTL DEF Spec

\* The columns of the log, the sessions and the roll keep their form: above
\* all, an entry's prev_hash is that of an older entry (chain.append).
THEOREM TypeCorrect == Spec => []TypeOK
  <1>1. IInv => TypeOK
    <2> SUFFICES ASSUME IInv PROVE TypeOK
      OBVIOUS
    <2>1. EntryInv /\ SessionInv /\ LinkInv /\ RollInv
      BY DEF IInv
    <2>2. log \in Seq([shard : Shard, prev : Nat, at : Nat])
      BY <2>1 DEF EntryInv, Entry
    <2>3. \A n \in Numbers :
             /\ log[n].prev < n /\ status[n] \in {"open", "committed", "aborted"}
             /\ author[n] \in Writer \cup {NoOne} /\ lock[n] \in Writer \cup {NoOne}
      BY <2>1, Entries DEF LinkInv, Status, Holder
    <2>4. DOMAIN lock = DOMAIN log
      BY <2>1, Entries DEF Numbers
    <2>5. \A i \in DOMAIN rolls : Len(rolls[i]) = NumShards
      BY <2>1, LenProperties, ElementOfSeq DEF RollInv
    <2> QED
      BY <2>1, <2>2, <2>3, <2>4, <2>5 DEF TypeOK, EntryInv, SessionInv, RollInv
  <1> QED
    BY <1>1, Invariant, PTL

\* chain.append under READ COMMITTED: however transactions overlap, nothing
\* that commits is chained to something that does not.
THEOREM ChainsToCommitted == Spec => []PrevIsCommitted
  <1>1. IInv => PrevIsCommitted
    BY DEF IInv, LinkInv, PrevIsCommitted, Committed
  <1> QED
    BY <1>1, Invariant, PTL

\* verify_shard: a shard verifies whose transactions never overlapped and whose
\* hosts' clocks stamped its entries in the order they were inserted in.
THEOREM Verifies == Spec => []VerifiesUnlessContended
  <1>1. ASSUME IInv, NEW s \in Shard, s \notin contended, InClockOrder(s), NEW n \in Committed(s)
        PROVE  log[n].prev = Before(n, s)
    <2> DEFINE older == {m \in Committed(s) : log[m].at < log[n].at}
    <2>1. EntryInv /\ ShardInv(s) /\ LinkInv
      BY <1>1 DEF IInv, ChainInv
    <2>2. n \in Kept(s) /\ n \in Numbers /\ status[n] = "committed"
      BY <1>1 DEF Committed, Kept
    <2>3. Committed(s) \subseteq Numbers /\ \A m \in Numbers : m \in Nat /\ log[m].at \in Nat
      BY <2>1, Entries DEF Committed
    <2>4. Below(s, n) = {m \in Committed(s) : m < n}
      <3>1. \A m \in Kept(s) : status[m] = "committed" \/ status[m] = "open"
        BY <2>1, Entries DEF Kept, Status
      <3>2. \A m \in Kept(s) : m < n => status[m] = "committed"
        BY <2>1, <2>2, <2>3, <3>1 DEF ShardInv, Kept
      <3> QED
        BY <3>2 DEF Below, Kept, Committed
    <2>5. older = Below(s, n)
      BY <1>1, <2>2, <2>3, <2>4 DEF InClockOrder
    <2>6. IsNewest(log[n].prev, Below(s, n))
      BY <2>1, <2>2 DEF ShardInv
    <2>7. older \subseteq Numbers
      BY <2>3
    <2>8. IsNewest(Newest(older), older)
      <3> HIDE DEF older
      <3> QED
        BY <2>1, <2>7, NewestIsNewest
    <2>9. log[n].prev = Newest(older)
      <3> HIDE DEF older
      <3> QED
        BY <2>1, <2>3, <2>5, <2>6, <2>7, <2>8, TimesDiffer DEF IsNewest
    <2> QED
      BY <2>9 DEF Before
  <1>2. IInv => VerifiesUnlessContended
    BY <1>1 DEF VerifiesUnlessContended, VerifyShard
  <1> QED
    BY <1>2, Invariant, PTL

\* perform_roll: every chain_root row is a root the witness holds;
\* bound_tamper_window finds no recorded head that stopped being an entry, so no
\* window is reported for a log nobody tampered with; and on a shard without
\* overlaps every younger root grows out of the older ones, clocks that disagree
\* notwithstanding.
THEOREM RootsAreWitnessed == Spec => []WitnessedHistory
  <1>1. IInv => RollsAreAnchored /\ NoFalseTamperWindow
    <2> SUFFICES ASSUME IInv PROVE RollsAreAnchored /\ NoFalseTamperWindow
      OBVIOUS
    <2>1. \A i \in DOMAIN rolls : rolls[i] \in anchored
      BY LenProperties, ElementOfSeq DEF IInv, RollInv
    <2>2. \A i \in DOMAIN rolls : \A s \in Shard : rolls[i][s] \in {0} \cup Committed(s)
      BY <2>1 DEF IInv, RollInv, Root, Shard
    <2> QED
      BY <2>1, <2>2 DEF RollsAreAnchored, NoFalseTamperWindow, DisagreeingRoll
  <1>2. IInv => RootsExtend
    <2> SUFFICES ASSUME IInv, NEW s \in Shard, s \notin contended,
                        NEW i \in DOMAIN rolls, NEW j \in DOMAIN rolls, i < j
                 PROVE  rolls[i][s] \in Ancestors(rolls[j][s])
      BY DEF RootsExtend
    <2>1. EntryInv /\ ShardInv(s) /\ HeadInv(s)
      BY DEF IInv, ChainInv, GrowthInv
    <2>2. Linked
      BY <2>1, Entries DEF IInv, LinkInv, Linked
    <2>3. PICK m, n : m = rolls[i][s] /\ n = rolls[j][s]
      OBVIOUS
    <2>4. RollHead(m, s) /\ RollHead(n, s) /\ m <= n
      BY <2>1, <2>3 DEF HeadInv
    <2>5. Committed(s) \subseteq Kept(s) /\ Committed(s) \subseteq Numbers
      BY DEF Committed, Kept
    <2>6. \A k \in Numbers : k \in Nat /\ k > 0
      BY <2>1, Entries
    <2>7. CASE n = 0
      <3>1. m = 0
        BY <2>4, <2>5, <2>6, <2>7 DEF RollHead
      <3>2. 0 \in Ancestors(0)
        BY DEF Ancestors
      <3> QED
        BY <2>3, <2>7, <3>1, <3>2
    <2>8. CASE n # 0 /\ m = 0
      BY <2>1, <2>2, <2>3, <2>4, <2>5, <2>8, AncestorsFacts DEF RollHead
    <2>9. CASE n # 0 /\ m # 0
      BY <2>1, <2>2, <2>3, <2>4, <2>5, <2>9, LeadersAreAncestors DEF RollHead
    <2> QED
      BY <2>7, <2>8, <2>9
  <1>3. IInv => WitnessedHistory
    BY <1>1, <1>2 DEF WitnessedHistory
  <1> QED
    BY <1>3, Invariant, PTL
==============================================================================
