-------------------------- MODULE ConfigServiceProofs --------------------------
(***************************************************************************)
(* Proofs about ConfigService, for any number of writers and clients, any  *)
(* time to live and any bounds.                                            *)
(***************************************************************************)
EXTENDS ConfigService, SequenceTheorems, TLAPS

\* The committed versions are the single chain OneLineageUnlessOverlapped means.
Chain == \A i \in Id : rows[i].superseded_by = (IF i = Len(rows) THEN None ELSE i + 1)

\* A writer that has seen the newest version will supersede that one.
KnowsHead ==
    \A w \in Writer : writing[w].busy /\ writing[w].seen = Len(rows) => writing[w].head = Len(rows)

LineageInv == ~overlapped => Chain /\ KnowsHead

\* Why an answer, on its way or stored, need not be the effective version.
Excused(e, c) ==
    \/ unread[c] > 0
    \/ e.raced
    \/ \E i \in Id : rows[i].from \in (e.readAt + 1)..now

\* An answer names a version that had come into effect when it was given.
Sound(e, c) ==
    e # NoEntry => /\ e.id \in Id /\ rows[e.id].from <= now /\ e.readAt <= now
                   /\ Effective(e.id) \/ Excused(e, c)

CacheInv == \A c \in Client : Sound(cache[c], c) /\ Sound(fetching[c], c)

IInv == TypeOK /\ LineageInv /\ CacheInv

------------------------------------------------------------------------------
(* The versions.                                                             *)

LEMMA Rows ==
    ASSUME TypeOK
    PROVE  /\ Len(rows) \in Nat /\ Id = 1..Len(rows) /\ now \in Nat
           /\ \A i \in Id : rows[i] \in Version /\ rows[i].from \in Nat
  <1>1. rows \in Seq(Version) /\ now \in Time
    BY DEF TypeOK
  <1>2. Len(rows) \in Nat /\ Id = 1..Len(rows)
    BY <1>1, LenProperties DEF Id
  <1>3. \A i \in Id : rows[i] \in Version
    BY <1>1, <1>2, ElementOfSeq
  <1>4. \A i \in Id : rows[i].from \in Time
    BY <1>3 DEF Version
  <1> QED
    BY <1>1, <1>2, <1>3, <1>4, ConstantsAssumption DEF Time

\* What a write does to the versions.
LEMMA Appended ==
    ASSUME TypeOK, NEW w \in Writer, Write(w)
    PROVE  /\ rows' \in Seq([from : Time, superseded_by : 0..(Len(rows) + 1)])
           /\ Len(rows') = Len(rows) + 1 /\ Id' = 1..(Len(rows) + 1)
           /\ \A i \in 1..Len(rows) :
                 /\ rows'[i].from = rows[i].from
                 /\ rows'[i].superseded_by =
                       IF i = writing[w].head THEN Len(rows) + 1 ELSE rows[i].superseded_by
           /\ rows'[Len(rows) + 1] = [from |-> writing[w].from, superseded_by |-> None]
  <1> DEFINE n == Len(rows)
             R == [from : Time, superseded_by : 0..(n + 1)]
             old == Supersede(rows, writing[w].head, n + 1)
             new == [from |-> writing[w].from, superseded_by |-> None]
  <1>1. n \in Nat /\ Id = 1..n /\ rows \in Seq(Version)
    BY Rows DEF TypeOK
  <1>2. ASSUME NEW i \in 1..n
        PROVE  /\ old[i] \in R /\ old[i].from = rows[i].from
               /\ old[i].superseded_by = IF i = writing[w].head THEN n + 1 ELSE rows[i].superseded_by
    <2>1. rows[i] \in Version
      BY <1>1, Rows
    <2>2. rows[i] \in R /\ rows[i] = [from |-> rows[i].from, superseded_by |-> rows[i].superseded_by]
      BY <1>1, <2>1 DEF Version
    <2>3. old[i] = IF i = writing[w].head THEN [rows[i] EXCEPT !.superseded_by = n + 1] ELSE rows[i]
      BY <1>1 DEF Supersede, Id
    <2> QED
      BY <1>1, <2>2, <2>3
  <1>3. old \in [1..n -> R]
    <2>1. DOMAIN old = 1..n /\ old = [i \in 1..n |-> old[i]]
      BY <1>1 DEF Supersede, Id
    <2> HIDE DEF old, R, n
    <2> QED
      BY <1>2, <2>1
  <1>4. old \in Seq(R) /\ Len(old) = n
    <2> HIDE DEF old, R
    <2>1. old \in Seq(R)
      BY <1>1, <1>3, SeqDef
    <2> QED
      BY <1>1, <1>3, <2>1, LenProperties
  <1>5. new \in R
    BY <1>1 DEF TypeOK, None
  <1>6. rows' = Append(old, new)
    BY DEF Write
  <1> HIDE DEF old, new, R, n
  <1>7. /\ rows' \in Seq(R) /\ Len(rows') = n + 1
        /\ \A i \in 1..n : rows'[i] = old[i]
        /\ rows'[n + 1] = new
    BY <1>1, <1>4, <1>5, <1>6, AppendProperties
  <1>8. Id' = 1..(n + 1)
    BY <1>7, LenProperties DEF Id
  <1> QED
    BY <1>2, <1>7, <1>8 DEF n, R, new

------------------------------------------------------------------------------
(* Types.                                                                    *)

LEMMA ClientTypes ==
    ASSUME TypeOK, NEW c \in Client, Fetch(c) \/ Store(c) \/ ApplyEvent(c) \/ RestartClient(c)
    PROVE  TypeOK'
  <1>1. UNCHANGED <<now, rows, writing, overlapped>> /\ Len(rows) \in Nat
    BY Rows DEF Fetch, Store, ApplyEvent, RestartClient
  <1>2. NoEntry \in Entry
    BY <1>1, ConstantsAssumption DEF NoEntry, None, Entry, Time
  <1>3. restarts' \in Nat
    BY DEF TypeOK, Fetch, Store, ApplyEvent, RestartClient
  <1>4. unread' \in [Client -> Nat]
    <2>1. unread \in [Client -> Nat]
      BY DEF TypeOK
    <2>2. CASE ApplyEvent(c)
      <3>1. unread[c] - 1 \in Nat /\ unread' = [unread EXCEPT ![c] = unread[c] - 1]
        BY <2>1, <2>2 DEF ApplyEvent
      <3> QED
        BY <2>1, <3>1
    <2>3. CASE ~ApplyEvent(c)
      BY <2>1, <2>3 DEF Fetch, Store, RestartClient
    <2> QED
      BY <2>2, <2>3
  <1>5. cache' \in [Client -> Entry] /\ fetching' \in [Client -> Entry]
    <2>1. cache \in [Client -> Entry] /\ fetching \in [Client -> Entry] /\ now \in Time
      BY DEF TypeOK
    <2>2. CASE Fetch(c)
      <3>1. PICK i \in Id : fetching' = [fetching EXCEPT ![c] = [id |-> i, at |-> now, readAt |-> now, raced |-> FALSE]]
        BY <2>2 DEF Fetch
      <3>2. [id |-> i, at |-> now, readAt |-> now, raced |-> FALSE] \in Entry
        BY <2>1, <3>1, Rows DEF Entry
      <3> QED
        BY <2>1, <2>2, <3>1, <3>2 DEF Fetch
    <2>3. CASE Store(c)
      <3>1. [fetching[c] EXCEPT !.at = now] \in Entry
        BY <2>1 DEF Entry
      <3> QED
        BY <1>2, <2>1, <2>3, <3>1 DEF Store
    <2>4. CASE ApplyEvent(c)
      <3>1. [fetching[c] EXCEPT !.raced = TRUE] \in Entry
        BY <2>1 DEF Entry
      <3>2. fetching' \in [Client -> Entry]
        BY <2>1, <2>4, <3>1 DEF ApplyEvent
      <3> QED
        BY <1>2, <2>1, <2>4, <3>2 DEF ApplyEvent
    <2>5. CASE RestartClient(c)
      BY <1>2, <2>1, <2>5 DEF RestartClient
    <2> QED
      BY <2>2, <2>3, <2>4, <2>5
  <1> QED
    BY <1>1, <1>3, <1>4, <1>5 DEF TypeOK, Version, Entry

LEMMA WriterTypes ==
    ASSUME TypeOK, NEW w \in Writer, (\E from \in Time : FindHead(w, from)) \/ WriteFails(w) \/ Write(w)
    PROVE  TypeOK'
  <1> DEFINE n == Len(rows)
             Requests == [head : 0..n, from : Time, seen : 0..n, busy : BOOLEAN]
  <1>1. n \in Nat /\ Id = 1..n /\ writing \in [Writer -> Requests]
    BY Rows DEF TypeOK
  <1>2. Idle \in Requests
    BY <1>1, ConstantsAssumption DEF Idle, None, Time
  <1>3. CASE \E from \in Time : FindHead(w, from)
    <2>1. PICK from \in Time : FindHead(w, from)
      BY <1>3
    <2>2. PICK head \in Id \cup {None} :
             writing' = [writing EXCEPT ![w] = [head |-> head, from |-> from, seen |-> n, busy |-> TRUE]]
      BY <2>1 DEF FindHead
    <2>3. [head |-> head, from |-> from, seen |-> n, busy |-> TRUE] \in Requests
      BY <1>1, <2>2 DEF None
    <2>4. writing' \in [Writer -> Requests]
      BY <1>1, <2>2, <2>3
    <2>5. UNCHANGED <<now, rows, cache, fetching, unread, restarts, overlapped>>
      BY <2>1 DEF FindHead
    <2> QED
      BY <2>4, <2>5 DEF TypeOK, Version, Entry
  <1>4. CASE WriteFails(w)
    <2>1. writing' \in [Writer -> Requests]
      BY <1>1, <1>2, <1>4 DEF WriteFails
    <2>2. UNCHANGED <<now, rows, cache, fetching, unread, restarts, overlapped>>
      BY <1>4 DEF WriteFails
    <2> QED
      BY <2>1, <2>2 DEF TypeOK, Version, Entry
  <1>5. CASE Write(w)
    <2>1. rows' \in Seq(Version)' /\ Len(rows') = n + 1
      BY <1>5, Appended DEF Version, Time
    <2>2. writing' \in [Writer -> [head : 0..(n + 1), from : Time, seen : 0..(n + 1), busy : BOOLEAN]]
      <3>1. writing' \in [Writer -> Requests]
        BY <1>1, <1>2, <1>5 DEF Write
      <3>2. Requests \subseteq [head : 0..(n + 1), from : Time, seen : 0..(n + 1), busy : BOOLEAN]
        BY <1>1
      <3> HIDE DEF Requests, n
      <3> QED
        BY <3>1, <3>2
    <2>3. UNCHANGED <<now, cache, fetching, restarts>> /\ overlapped' \in BOOLEAN
      BY <1>5 DEF Write, TypeOK
    <2>4. Entry \subseteq [id : 0..(n + 1), at : Time, readAt : Time, raced : BOOLEAN]
      BY <1>1 DEF Entry
    <2>5. unread' \in [Client -> Nat]
      BY <1>5 DEF Write, TypeOK
    <2>6. /\ cache \in [Client -> [id : 0..(n + 1), at : Time, readAt : Time, raced : BOOLEAN]]
          /\ fetching \in [Client -> [id : 0..(n + 1), at : Time, readAt : Time, raced : BOOLEAN]]
      BY <2>4 DEF TypeOK
    <2> QED
      BY <2>1, <2>2, <2>3, <2>5, <2>6 DEF TypeOK, Entry, Time
  <1> QED
    BY <1>3, <1>4, <1>5

LEMMA TypeStep ==
    ASSUME TypeOK, [Next]_vars
    PROVE  TypeOK'
  <1>1. CASE Tick
    BY <1>1, ConstantsAssumption DEF Tick, TypeOK, Time, Version, Entry
  <1>2. CASE UNCHANGED vars
    BY <1>2 DEF vars, TypeOK, Version, Entry
  <1> QED
    BY <1>1, <1>2, ClientTypes, WriterTypes DEF Next

------------------------------------------------------------------------------
(* The lineage.                                                              *)

LEMMA LineageStep ==
    ASSUME TypeOK, LineageInv, [Next]_vars
    PROVE  LineageInv'
  <1> DEFINE n == Len(rows)
  <1>1. n \in Nat /\ Id = 1..n
    BY Rows
  <1>2. ASSUME UNCHANGED <<rows, writing, overlapped>> PROVE LineageInv'
    BY <1>2 DEF LineageInv, Chain, KnowsHead, Id
  <1>3. ASSUME NEW w \in Writer, NEW from \in Time, FindHead(w, from) PROVE LineageInv'
    <2> SUFFICES ASSUME ~overlapped PROVE Chain' /\ KnowsHead'
      BY <1>3 DEF FindHead, LineageInv
    <2>1. Chain /\ KnowsHead
      BY DEF LineageInv
    <2>2. UNCHANGED rows
      BY <1>3 DEF FindHead
    <2>3. PICK head \in Id \cup {None} :
             /\ IF Heads = {} THEN head = None ELSE Latest(head, Heads)
             /\ writing' = [writing EXCEPT ![w] = [head |-> head, from |-> from, seen |-> n, busy |-> TRUE]]
      BY <1>3 DEF FindHead
    <2>4. head = n
      <3>1. Heads = {i \in 1..n : i = n}
        BY <1>1, <2>1 DEF Heads, Chain, None
      <3> QED
        BY <1>1, <2>3, <3>1 DEF Latest, None
    <2> QED
      BY <2>1, <2>2, <2>3, <2>4 DEF Chain, KnowsHead, Id, TypeOK
  <1>4. ASSUME NEW w \in Writer, WriteFails(w) PROVE LineageInv'
    BY <1>4 DEF WriteFails, Idle, LineageInv, Chain, KnowsHead, Id, TypeOK
  <1>5. ASSUME NEW w \in Writer, Write(w) PROVE LineageInv'
    <2> SUFFICES ASSUME ~overlapped' PROVE Chain' /\ KnowsHead'
      BY DEF LineageInv
    <2>1. ~overlapped /\ ~(n > writing[w].seen) /\ writing[w].busy
      BY <1>5 DEF Write
    <2>2. writing[w].seen \in 0..n
      BY DEF TypeOK
    <2>3. Chain /\ writing[w].head = n
      BY <1>1, <2>1, <2>2 DEF LineageInv, KnowsHead
    <2>4. /\ Len(rows') = n + 1 /\ Id' = 1..(n + 1)
          /\ \A i \in 1..n : rows'[i].superseded_by = IF i = n THEN n + 1 ELSE rows[i].superseded_by
          /\ rows'[n + 1].superseded_by = None
      <3>1. /\ Len(rows') = n + 1 /\ Id' = 1..(n + 1)
            /\ \A i \in 1..n :
                  rows'[i].superseded_by = IF i = writing[w].head THEN n + 1 ELSE rows[i].superseded_by
            /\ rows'[n + 1] = [from |-> writing[w].from, superseded_by |-> None]
        BY <1>5, Appended
      <3>2. writing[w].head = n
        BY <2>3
      <3>3. rows'[n + 1].superseded_by = None
        BY <3>1
      <3> HIDE DEF n
      <3> QED
        BY <3>1, <3>2, <3>3
    <2>5. Chain'
      <3> SUFFICES ASSUME NEW i \in 1..(n + 1)
                   PROVE  rows'[i].superseded_by = IF i = n + 1 THEN None ELSE i + 1
        BY <2>4 DEF Chain, None
      <3>1. CASE i = n + 1
        BY <2>4, <3>1
      <3>2. CASE i # n + 1
        BY <1>1, <2>3, <2>4, <3>2 DEF Chain
      <3> QED
        BY <3>1, <3>2
    <2>6. KnowsHead'
      <3>1. \A v \in Writer : writing'[v].busy => writing'[v] = writing[v] /\ writing[v].seen \in 0..n
        BY <1>5 DEF Write, Idle, TypeOK
      <3> QED
        BY <1>1, <2>4, <3>1 DEF KnowsHead
    <2> QED
      BY <2>5, <2>6
  <1>6. ASSUME NEW c \in Client, Fetch(c) \/ Store(c) \/ ApplyEvent(c) \/ RestartClient(c) PROVE LineageInv'
    BY <1>2, <1>6 DEF Fetch, Store, ApplyEvent, RestartClient
  <1>7. CASE Tick \/ UNCHANGED vars
    BY <1>2, <1>7 DEF Tick, vars
  <1> QED
    BY <1>3, <1>4, <1>5, <1>6, <1>7 DEF Next

------------------------------------------------------------------------------
(* The caches.                                                               *)

LEMMA CacheStep ==
    ASSUME TypeOK, CacheInv, [Next]_vars
    PROVE  CacheInv'
  <1>1. /\ Len(rows) \in Nat /\ Id = 1..Len(rows) /\ now \in Nat
        /\ \A i \in Id : rows[i].from \in Nat
    BY Rows
  <1>2. /\ cache \in [Client -> Entry] /\ fetching \in [Client -> Entry] /\ unread \in [Client -> Nat]
    BY DEF TypeOK
  <1>3. ASSUME UNCHANGED <<now, rows, cache, fetching, unread>> PROVE CacheInv'
    BY <1>3 DEF CacheInv, Sound, Excused, Effective, Latest, Id
  <1>4. ASSUME NEW w \in Writer, Write(w) PROVE CacheInv'
    <2>1. UNCHANGED <<now, cache, fetching>> /\ \A c \in Client : unread'[c] > 0
      BY <1>2, <1>4 DEF Write
    <2>2. Id' = 1..(Len(rows) + 1) /\ \A i \in Id : i \in Id' /\ rows'[i].from = rows[i].from
      <3>1. Id' = 1..(Len(rows) + 1) /\ \A i \in 1..Len(rows) : rows'[i].from = rows[i].from
        BY <1>4, Appended
      <3> QED
        BY <1>1, <3>1
    <2> QED
      BY <2>1, <2>2 DEF CacheInv, Sound, Excused
  <1>5. ASSUME Tick PROVE CacheInv'
    <2>1. UNCHANGED <<rows, cache, fetching, unread>> /\ now' = now + 1
      BY <1>5 DEF Tick
    <2>2. ASSUME NEW c \in Client, NEW e \in Entry, Sound(e, c) PROVE Sound(e, c)'
      <3> SUFFICES ASSUME e # NoEntry
                   PROVE  /\ e.id \in Id /\ rows[e.id].from <= now + 1 /\ e.readAt <= now + 1
                          /\ Effective(e.id)' \/ Excused(e, c)'
        BY <2>1 DEF Sound, Id
      <3>1. e.id \in Id /\ rows[e.id].from <= now /\ e.readAt <= now /\ (Effective(e.id) \/ Excused(e, c))
        BY <2>2 DEF Sound
      <3>2. e.readAt \in Nat /\ rows[e.id].from \in Nat
        BY <1>1, <3>1 DEF Entry, Time
      <3>3. CASE Excused(e, c)
        BY <1>1, <2>1, <3>1, <3>2, <3>3 DEF Excused, Id
      <3>4. CASE Effective(e.id) /\ ~Excused(e, c)
        <4>1. CASE \E j \in Id : rows[j].from = now + 1
          <5>1. PICK j \in Id : rows[j].from = now + 1
            BY <4>1
          <5>2. j \in Id' /\ rows'[j].from \in (e.readAt + 1)..now'
            BY <1>1, <2>1, <3>1, <3>2, <5>1 DEF Id
          <5>3. Excused(e, c)'
            BY <5>2 DEF Excused
          <5> QED
            BY <1>1, <3>1, <3>2, <5>3
        <4>2. CASE ~\E j \in Id : rows[j].from = now + 1
          <5>1. \A j \in Id : rows[j].from <= now => rows[j].from <= rows[e.id].from
            BY <3>4 DEF Effective, Latest
          <5>2. \A j \in Id : rows[j].from <= now + 1 => rows[j].from <= now
            BY <1>1, <4>2
          <5>3. Effective(e.id)'
            BY <1>1, <2>1, <3>1, <3>2, <5>1, <5>2 DEF Effective, Latest, Id
          <5> QED
            BY <1>1, <3>1, <3>2, <5>3
        <4> QED
          BY <4>1, <4>2
      <3> QED
        BY <1>1, <3>1, <3>3, <3>4
    <2> QED
      BY <1>2, <2>1, <2>2 DEF CacheInv
  <1>6. ASSUME NEW c \in Client, Fetch(c) PROVE CacheInv'
    <2>1. UNCHANGED <<now, rows, cache, unread>>
      BY <1>6 DEF Fetch
    <2>2. PICK i \in Id : /\ Effective(i)
                          /\ fetching' = [fetching EXCEPT ![c] = [id |-> i, at |-> now, readAt |-> now, raced |-> FALSE]]
      BY <1>6 DEF Fetch
    <2>3. rows[i].from <= now
      BY <2>2 DEF Effective, Latest
    <2>4. \A d \in Client : Sound(cache[d], d)'
      BY <2>1 DEF CacheInv, Sound, Excused, Effective, Latest, Id
    <2>5. \A d \in Client \ {c} : Sound(fetching[d], d)'
      BY <1>2, <2>1, <2>2 DEF CacheInv, Sound, Excused, Effective, Latest, Id
    <2>6. Sound(fetching[c], c)'
      <3>1. fetching'[c].id = i /\ fetching'[c].readAt = now
        BY <1>2, <2>2
      <3> QED
        BY <1>1, <2>1, <2>2, <2>3, <3>1 DEF Sound, Effective, Latest, Id
    <2> QED
      BY <2>4, <2>5, <2>6 DEF CacheInv
  <1>7. ASSUME NEW c \in Client, Store(c) PROVE CacheInv'
    <2>1. /\ UNCHANGED <<now, rows, unread>>
          /\ cache' = [cache EXCEPT ![c] = [fetching[c] EXCEPT !.at = now]]
          /\ fetching' = [fetching EXCEPT ![c] = NoEntry] /\ fetching[c] # NoEntry
      BY <1>7 DEF Store
    <2>2. /\ cache'[c].id = fetching[c].id /\ cache'[c].readAt = fetching[c].readAt
          /\ cache'[c].raced = fetching[c].raced
      BY <1>2, <2>1 DEF Entry
    <2>3. Sound(fetching[c], c)
      BY DEF CacheInv
    <2>4. ASSUME NEW e, e.id = fetching[c].id, e.readAt = fetching[c].readAt, e.raced = fetching[c].raced
          PROVE  /\ e.id \in Id /\ rows[e.id].from <= now /\ e.readAt <= now
                 /\ Effective(e.id) \/ Excused(e, c)
      BY <2>1, <2>3, <2>4 DEF Sound, Excused
    <2>5. Sound(cache[c], c)'
      <3> DEFINE e == cache'[c]
      <3>1. /\ e.id \in Id /\ rows[e.id].from <= now /\ e.readAt <= now
            /\ Effective(e.id) \/ Excused(e, c)
        BY <2>2, <2>4
      <3> QED
        BY <2>1, <3>1 DEF Sound, Excused, Effective, Latest, Id
    <2>6. \A d \in Client \ {c} : Sound(cache[d], d)' /\ Sound(fetching[d], d)'
      BY <1>2, <2>1 DEF CacheInv, Sound, Excused, Effective, Latest, Id
    <2>7. Sound(fetching[c], c)'
      BY <1>2, <2>1 DEF Sound
    <2> QED
      BY <2>5, <2>6, <2>7 DEF CacheInv
  <1>8. ASSUME NEW c \in Client, ApplyEvent(c) PROVE CacheInv'
    <2>1. /\ UNCHANGED <<now, rows>> /\ cache' = [cache EXCEPT ![c] = NoEntry]
          /\ unread' = [unread EXCEPT ![c] = @ - 1]
          /\ fetching' = [fetching EXCEPT ![c] = IF @ = NoEntry THEN @ ELSE [@ EXCEPT !.raced = TRUE]]
      BY <1>8 DEF ApplyEvent
    <2>2. fetching'[c] # NoEntry =>
             /\ fetching[c] # NoEntry /\ fetching'[c].id = fetching[c].id
             /\ fetching'[c].readAt = fetching[c].readAt /\ fetching'[c].raced
      BY <1>2, <2>1 DEF Entry
    <2>3. Sound(fetching[c], c)'
      BY <2>1, <2>2 DEF CacheInv, Sound, Excused, Id
    <2>4. Sound(cache[c], c)'
      BY <1>2, <2>1 DEF Sound
    <2>5. \A d \in Client \ {c} : Sound(cache[d], d)' /\ Sound(fetching[d], d)'
      BY <1>2, <2>1 DEF CacheInv, Sound, Excused, Effective, Latest, Id
    <2> QED
      BY <2>3, <2>4, <2>5 DEF CacheInv
  <1>9. ASSUME NEW c \in Client, RestartClient(c) PROVE CacheInv'
    <2>1. /\ UNCHANGED <<now, rows, unread>> /\ cache' = [cache EXCEPT ![c] = NoEntry]
          /\ fetching' = [fetching EXCEPT ![c] = NoEntry]
      BY <1>9 DEF RestartClient
    <2> QED
      BY <1>2, <2>1 DEF CacheInv, Sound, Excused, Effective, Latest, Id
  <1>10. ASSUME NEW w \in Writer, (\E from \in Time : FindHead(w, from)) \/ WriteFails(w) PROVE CacheInv'
    BY <1>3, <1>10 DEF FindHead, WriteFails
  <1>11. CASE UNCHANGED vars
    BY <1>3, <1>11 DEF vars
  <1> QED
    BY <1>4, <1>5, <1>6, <1>7, <1>8, <1>9, <1>10, <1>11 DEF Next

------------------------------------------------------------------------------
(* The theorems.                                                             *)

LEMMA InitInv == Init => IInv
  <1> SUFFICES ASSUME Init PROVE IInv
    OBVIOUS
  <1>1. rows = <<>> /\ Len(rows) = 0 /\ Id = {} /\ rows \in Seq(Version)
    <2>1. rows = <<>>
      BY DEF Init
    <2>2. Len(rows) = 0 /\ rows \in Seq(Version)
      BY <2>1, EmptySeq
    <2>3. DOMAIN rows = 1..0
      BY <2>2, LenProperties
    <2> QED
      BY <2>1, <2>2, <2>3 DEF Id
  <1>2. TypeOK
    <2>1. NoEntry \in Entry /\ 0 \in Time
      BY <1>1, ConstantsAssumption DEF NoEntry, None, Entry, Time
    <2>2. Idle \in [head : 0..Len(rows), from : Time, seen : 0..Len(rows), busy : BOOLEAN]
      BY <1>1, <2>1 DEF Idle, None
    <2> QED
      BY <1>1, <2>1, <2>2 DEF Init, TypeOK
  <1>3. LineageInv
    BY <1>1 DEF Init, LineageInv, Chain, KnowsHead, Idle
  <1>4. CacheInv
    BY DEF Init, CacheInv, Sound
  <1> QED
    BY <1>2, <1>3, <1>4 DEF IInv

LEMMA Invariance == Spec => []IInv
  <1>1. IInv /\ [Next]_vars => IInv'
    BY TypeStep, LineageStep, CacheStep DEF IInv
  <1> QED
    BY <1>1, InitInv, PTL DEF Spec

\* Versions, requests and cached answers are what they are meant to be; a link
\* and an answer name a version that exists.
THEOREM TypeCorrect == Spec => []TypeOK
  BY Invariance, PTL DEF IInv

\* Two heads of one lineage have two writes behind them that overlapped: a
\* writer that looked after the last commit extends the one chain
\* (write_config_version, which looks for the head without a lock).
THEOREM LineageHolds == Spec => []OneLineageUnlessOverlapped
  <1>1. IInv => OneLineageUnlessOverlapped
    BY DEF IInv, LineageInv, Chain, OneLineageUnlessOverlapped
  <1> QED
    BY <1>1, Invariance, PTL

\* A client that answers with a version other than the effective one has an
\* event to apply or applied one while it was asking, or the version has come
\* into effect since, of which no event tells (ConfigClient.get, invalidate).
THEOREM StalenessExplained == Spec => []StaleHasAReason
  <1>1. IInv => StaleHasAReason
    BY DEF IInv, CacheInv, Sound, Excused, StaleHasAReason
  <1> QED
    BY <1>1, Invariance, PTL
==============================================================================
