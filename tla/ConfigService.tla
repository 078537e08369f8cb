---------------------------- MODULE ConfigService ----------------------------
(***************************************************************************)
(* The versions of one configuration value (one scope and key): writers    *)
(* that add versions, the lineage link superseded_by, the reading of the   *)
(* effective version, and the clients that cache it and are told by        *)
(* events when a version was written.                                      *)
(*                                                                         *)
(* A version's id is its position in the order of the commits.  Time is a  *)
(* counter up to MaxClock; a version may take effect before or after it is *)
(* written.  Left out: the content of the value, and author and approver,  *)
(* whose equality write_config_version refuses before its first statement. *)
(***************************************************************************)
EXTENDS Naturals, Sequences, FiniteSets

CONSTANTS
    Writer,      \* requests that may be writing at the same time
    Client,      \* processes with a ConfigClient, each with a group of its own
    MaxClock,    \* bound of the clock
    MaxVersions, \* bound of the number of versions
    MaxRestarts, \* bound of the restarts of clients
    TTL          \* ttl_seconds of the clients, in ticks

ASSUME ConstantsAssumption ==
    /\ MaxClock \in Nat /\ MaxVersions \in Nat /\ MaxRestarts \in Nat
    /\ TTL \in Nat \ {0}

VARIABLES
    now,        \* the time
    rows,       \* the committed versions: effective_from and superseded_by
    writing,    \* of a writer: the request it is serving
    cache,      \* of a client: its entry for the effective version
    fetching,   \* of a client: the answer it has received and not yet stored
    unread,     \* of a client: the events committed and not yet applied
    restarts,   \* history: the restarts so far
    overlapped  \* history: a version was written since another writer looked

vars == <<now, rows, writing, cache, fetching, unread, restarts, overlapped>>

Time == 0..MaxClock
None == 0
Id == DOMAIN rows
NoEntry == [id |-> None, at |-> 0, readAt |-> 0, raced |-> FALSE]
Idle == [head |-> None, from |-> 0, seen |-> 0, busy |-> FALSE]

-----------------------------------------------------------------------------
(* The writers.                                                            *)

Latest(i, S) == i \in S /\ \A j \in S : rows[j].from <= rows[i].from

Heads == {i \in Id : rows[i].superseded_by = None}

\* The first statement: the newest version nothing supersedes, without a lock.
FindHead(w, from) ==
    /\ ~writing[w].busy /\ Len(rows) < MaxVersions
    /\ \E head \in Id \cup {None} :
        /\ IF Heads = {} THEN head = None ELSE Latest(head, Heads)
        /\ writing' = [writing EXCEPT ![w] =
                [head |-> head, from |-> from, seen |-> Len(rows), busy |-> TRUE]]
    /\ UNCHANGED <<now, rows, cache, fetching, unread, restarts, overlapped>>

\* A mutant: the links of every version are rewritten.
SupersedeAll(versions, head, id) ==
    [i \in DOMAIN versions |-> [versions[i] EXCEPT !.superseded_by = id]]

Supersede(versions, head, id) ==
    [i \in DOMAIN versions |->
        IF i = head THEN [versions[i] EXCEPT !.superseded_by = id] ELSE versions[i]]

\* The mutant: no event for a version that is not yet in effect, or only just.
WriteQuietly(w) ==
    LET r == writing[w]
        id == Len(rows) + 1
    IN /\ r.busy /\ id <= MaxVersions
       /\ \A i \in Id : rows[i].from # r.from
       /\ rows' = Append(Supersede(rows, r.head, id),
                         [from |-> r.from, superseded_by |-> None])
       /\ unread' = [c \in Client |-> IF r.from < now THEN unread[c] + 1 ELSE unread[c]]
       /\ overlapped' = (overlapped \/ Len(rows) > r.seen)
       /\ writing' = [writing EXCEPT ![w] = Idle]
       /\ UNCHANGED <<now, cache, fetching, restarts>>

\* The rest of the transaction: the insert, the link from the head it found,
\* the audit entry, the event, and the commit.  Two of them wait for each
\* other at the unique index or at the head's row and go on with what the
\* other has committed, so each is one step.
Write(w) ==
    LET r == writing[w]
        id == Len(rows) + 1
    IN /\ r.busy /\ id <= MaxVersions
       /\ \A i \in Id : rows[i].from # r.from
       /\ rows' = Append(Supersede(rows, r.head, id),
                         [from |-> r.from, superseded_by |-> None])
       /\ unread' = [c \in Client |-> unread[c] + 1]
       /\ overlapped' = (overlapped \/ Len(rows) > r.seen)
       /\ writing' = [writing EXCEPT ![w] = Idle]
       /\ UNCHANGED <<now, cache, fetching, restarts>>

\* The unique (scope, key, effective_from), or any other failure, rolls back.
WriteFails(w) ==
    /\ writing[w].busy
    /\ writing' = [writing EXCEPT ![w] = Idle]
    /\ UNCHANGED <<now, rows, cache, fetching, unread, restarts, overlapped>>

-----------------------------------------------------------------------------
(* The clients.                                                            *)

Effective(i) == Latest(i, {j \in Id : rows[j].from <= now})

Expired(c) == now - cache[c].at >= TTL

\* A get that finds no entry, or an expired one, asks the service.  It
\* refuses inside a pinned scope, and a missing version raises: no change.
Fetch(c) ==
    /\ fetching[c] = NoEntry
    /\ cache[c] = NoEntry \/ Expired(c)
    /\ \E i \in Id :
        /\ Effective(i)
        /\ fetching' = [fetching EXCEPT ![c] =
                [id |-> i, at |-> now, readAt |-> now, raced |-> FALSE]]
    /\ UNCHANGED <<now, rows, writing, cache, unread, restarts, overlapped>>

\* The answer has come: it is stored under the time of its arrival.
Store(c) ==
    /\ fetching[c] # NoEntry
    /\ cache' = [cache EXCEPT ![c] = [fetching[c] EXCEPT !.at = now]]
    /\ fetching' = [fetching EXCEPT ![c] = NoEntry]
    /\ UNCHANGED <<now, rows, writing, unread, restarts, overlapped>>

\* The subscriber applies one event: the entry goes, an answer under way stays.
ApplyEvent(c) ==
    /\ unread[c] > 0
    /\ cache' = [cache EXCEPT ![c] = NoEntry]
    /\ unread' = [unread EXCEPT ![c] = @ - 1]
    /\ fetching' = [fetching EXCEPT ![c] = IF @ = NoEntry THEN @ ELSE [@ EXCEPT !.raced = TRUE]]
    /\ UNCHANGED <<now, rows, writing, restarts, overlapped>>

\* The caches are in memory; the group keeps its place in the stream.
RestartClient(c) ==
    /\ restarts < MaxRestarts
    /\ restarts' = restarts + 1
    /\ cache' = [cache EXCEPT ![c] = NoEntry]
    /\ fetching' = [fetching EXCEPT ![c] = NoEntry]
    /\ UNCHANGED <<now, rows, writing, unread, overlapped>>

Tick ==
    /\ now < MaxClock
    /\ now' = now + 1
    /\ UNCHANGED <<rows, writing, cache, fetching, unread, restarts, overlapped>>

Init ==
    /\ now = 0 /\ rows = <<>> /\ restarts = 0 /\ overlapped = FALSE
    /\ writing = [w \in Writer |-> Idle]
    /\ cache = [c \in Client |-> NoEntry]
    /\ fetching = [c \in Client |-> NoEntry]
    /\ unread = [c \in Client |-> 0]

Next ==
    \/ \E w \in Writer : \/ \E from \in Time : FindHead(w, from)
                         \/ Write(w)
                         \/ WriteFails(w)
    \/ \E c \in Client : Fetch(c) \/ Store(c) \/ ApplyEvent(c) \/ RestartClient(c)
    \/ Tick

Spec == Init /\ [][Next]_vars

-----------------------------------------------------------------------------
(* Properties.                                                             *)

\* The type of every variable; a link names a version that exists.
Version == [from : Time, superseded_by : 0..Len(rows)]
Entry == [id : 0..Len(rows), at : Time, readAt : Time, raced : BOOLEAN]
TypeOK ==
    /\ now \in Time /\ restarts \in Nat /\ overlapped \in BOOLEAN
    /\ rows \in Seq(Version)
    /\ writing \in [Writer -> [head : 0..Len(rows), from : Time,
                               seen : 0..Len(rows), busy : BOOLEAN]]
    /\ cache \in [Client -> Entry]
    /\ fetching \in [Client -> Entry]
    /\ unread \in [Client -> Nat]

\* write_config_version looks for "the current head": as long as no version
\* was written between a writer's look and its own write, the versions form
\* one chain in the order of their commits, back-dated ones included, and the
\* last one is its only head.  After such an overlap two heads stay for good.
OneLineageUnlessOverlapped ==
    ~overlapped =>
        \A i \in Id : rows[i].superseded_by = (IF i = Len(rows) THEN None ELSE i + 1)

\* The event path by itself (whatever the TTL): a client whose entry is not
\* the effective version has an event to apply, or applied one between its
\* fetch and its store, or a version has come into effect since it asked -
\* no event marks that moment, only the TTL heals it.
StaleHasAReason ==
    \A c \in Client : cache[c] # NoEntry /\ ~Effective(cache[c].id) =>
        \/ unread[c] > 0
        \/ cache[c].raced
        \/ \E i \in Id : rows[i].from \in (cache[c].readAt + 1)..now
=============================================================================
