------------------------------ MODULE AuditChain ------------------------------
(***************************************************************************)
(* The sharded, hash-chained audit log (landaudit): transactions that call *)
(* chain.append one or more times before their caller commits, the         *)
(* periodic roll of the global root with its anchoring, and the two        *)
(* verifications.                                                          *)
(*                                                                         *)
(* An entry is its number in insertion order; its hash is its number too,  *)
(* because the hash covers the whole entry.  0 stands for no entry.        *)
(* Statements run under PostgreSQL's READ COMMITTED: a SELECT sees what is *)
(* committed when it starts, and FOR UPDATE waits for a locked row and     *)
(* then returns that row, since it was locked and not updated.             *)
(***************************************************************************)
EXTENDS Naturals, Sequences, FiniteSets

CONSTANTS
    Writer,         (* concurrent database sessions that append            *)
    Late,           (* writers whose host clock is behind the others'      *)
    NumShards,      (* NUM_SHARDS                                          *)
    Genesis,        (* shards 1..Genesis hold one entry when we start      *)
    MaxEntries,     (* bound: entries ever inserted                        *)
    MaxRolls        (* bound: roots ever rolled                            *)

ASSUME ChainAssumption ==
    /\ Late \subseteq Writer
    /\ NumShards \in Nat \ {0}
    /\ Genesis \in 0..NumShards
    /\ MaxEntries \in Nat /\ Genesis <= MaxEntries
    /\ MaxRolls \in Nat

VARIABLES
    log,            (* every entry inserted: shard, prev_hash, at          *)
    status,         (* whether its transaction is open, committed, aborted *)
    author,         (* the session that inserted it                        *)
    lock,           (* who holds the row lock of an entry, or NoOne        *)
    pc,             (* where each session is in append                     *)
    target,         (* the shard it appends to and the last row it was given *)
    touched,        (* history: shards its transaction has appended to     *)
    contended,      (* history: shards on which transactions overlapped    *)
    heads,          (* shard heads read so far by the roll under way       *)
    receipt,        (* the witness has answered the roll under way         *)
    anchored,       (* roots (lists of heads) the witness has stored       *)
    rolls           (* chain_root rows, oldest first                       *)

entries == <<log, status, author, lock>>
sessions == <<pc, target, touched, contended>>
roller == <<heads, receipt, anchored, rolls>>
vars == <<entries, sessions, roller>>

Shard == 1..NumShards
NoOne == <<>>
NoTarget == [shard |-> 0, last |-> 0]

Numbers == DOMAIN log
Committed(s) == {n \in Numbers : log[n].shard = s /\ status[n] = "committed"}
OpenOf(w) == {n \in Numbers : author[n] = w /\ status[n] = "open"}

\* ORDER BY at ASC LIMIT 1, for a faulty variant below.
Oldest(S) == IF S = {} THEN 0 ELSE CHOOSE n \in S : \A m \in S : log[m].at >= log[n].at

\* ORDER BY at DESC LIMIT 1 over a set of entries.
Newest(S) == IF S = {} THEN 0 ELSE CHOOSE n \in S : \A m \in S : log[m].at <= log[n].at

\* Faulty variant: rows of other open transactions too.
SeesUncommitted(w, s) == {n \in Numbers : log[n].shard = s /\ status[n] # "aborted"}

\* What a session's SELECT on a shard sees: what is committed and its own rows.
Sees(w, s) == Committed(s) \cup {n \in OpenOf(w) : log[n].shard = s}

\* Faulty variant: the oldest entry.
LastRowOldest(w, s) == Oldest(Sees(w, s))

\* chain.append's SELECT: the newest entry of the shard that w sees.
LastRow(w, s) == Newest(Sees(w, s))

------------------------------------------------------------------------------
(* chain.append, and the end of the transaction it runs in.                  *)

\* The bound: every append under way has room for its entry.
Room == Len(log) + Cardinality({w \in Writer : pc[w] \in {"waiting", "locked"}}) < MaxEntries

\* The SELECT ... FOR UPDATE is sent.
Select(w, s) ==
    /\ pc[w] \in {"idle", "open"}
    /\ Room
    /\ LET last == LastRow(w, s)
       IN  /\ target' = [target EXCEPT ![w] = [shard |-> s, last |-> last]]
           /\ IF last # 0 /\ lock[last] \notin {NoOne, w}
              THEN /\ pc' = [pc EXCEPT ![w] = "waiting"]
                   /\ UNCHANGED lock
              ELSE /\ pc' = [pc EXCEPT ![w] = "locked"]
                   /\ lock' = [n \in Numbers |-> IF n = last THEN w ELSE lock[n]]
    /\ touched' = [touched EXCEPT ![w] = @ \cup {s}]
    /\ contended' = IF \E v \in Writer \ {w} : s \in touched[v]
                    THEN contended \cup {s} ELSE contended
    /\ UNCHANGED <<log, status, author, roller>>

\* The row it waited for is free: it is returned as it was.
Wake(w) ==
    /\ pc[w] = "waiting"
    /\ lock[target[w].last] = NoOne
    /\ lock' = [lock EXCEPT ![target[w].last] = w]
    /\ pc' = [pc EXCEPT ![w] = "locked"]
    /\ UNCHANGED <<log, status, author, target, touched, contended, roller>>

\* The entry takes the time of its host, in steps of one insertion; a late
\* clock is more than one step behind.
Now(w) == 2 * (Len(log) + 1) - (IF w \in Late THEN 3 ELSE 0) + 3

\* Faulty variant: every entry starts a chain of its own.
InsertUnchained(w) ==
    /\ pc[w] = "locked"
    /\ log' = Append(log, [shard |-> target[w].shard, prev |-> 0, at |-> Now(w)])
    /\ status' = Append(status, "open")
    /\ author' = Append(author, w)
    /\ lock' = Append(lock, NoOne)
    /\ pc' = [pc EXCEPT ![w] = "open"]
    /\ target' = [target EXCEPT ![w] = NoTarget]
    /\ UNCHANGED <<touched, contended, roller>>

Insert(w) ==
    /\ pc[w] = "locked"
    /\ log' = Append(log, [shard |-> target[w].shard, prev |-> target[w].last, at |-> Now(w)])
    /\ status' = Append(status, "open")
    /\ author' = Append(author, w)
    /\ lock' = Append(lock, NoOne)
    /\ pc' = [pc EXCEPT ![w] = "open"]
    /\ target' = [target EXCEPT ![w] = NoTarget]
    /\ UNCHANGED <<touched, contended, roller>>

\* Faulty variant: the locks outlive the transaction.
StillLocked(w) == lock

Unlocked(w) == [n \in Numbers |-> IF lock[n] = w THEN NoOne ELSE lock[n]]

EndTransaction(w, outcome) ==
    /\ status' = [n \in Numbers |-> IF n \in OpenOf(w) THEN outcome ELSE status[n]]
    /\ lock' = Unlocked(w)
    /\ pc' = [pc EXCEPT ![w] = "idle"]
    /\ target' = [target EXCEPT ![w] = NoTarget]
    /\ touched' = [touched EXCEPT ![w] = {}]
    /\ UNCHANGED <<log, author, contended, roller>>

Commit(w) == pc[w] = "open" /\ EndTransaction(w, "committed")

\* The caller raised, or the session was killed, anywhere in the transaction.
Abort(w) == pc[w] # "idle" /\ EndTransaction(w, "aborted")

\* Transactions that append to several shards can wait for each other; the
\* database then aborts one of them.
Deadlocked(w) ==
    \E S \in SUBSET Writer :
        /\ w \in S
        /\ \A v \in S : pc[v] = "waiting" /\ lock[target[v].last] \in S

DeadlockAbort(w) == Deadlocked(w) /\ EndTransaction(w, "aborted")

------------------------------------------------------------------------------
(* rollup.perform_roll: one SELECT per shard, the witness, then the commit.  *)

\* Faulty variant: the head is read with rows that may never be committed.
ShardHeadDirty(s) == Newest({n \in Numbers : log[n].shard = s})

ShardHead(s) == Newest(Committed(s))

ReadHead ==
    /\ Len(rolls) < MaxRolls
    /\ Len(heads) < NumShards
    /\ heads' = Append(heads, ShardHead(Len(heads) + 1))
    /\ UNCHANGED <<entries, sessions, receipt, anchored, rolls>>

WitnessStores == anchored' = anchored \cup {heads}

\* Faulty variant: the roll goes on without the witness.
AnchorSkipped ==
    /\ Len(heads) = NumShards /\ ~receipt
    /\ receipt' = TRUE
    /\ UNCHANGED <<entries, sessions, heads, anchored, rolls>>

\* witness.anchor stores the root where no rollback reaches it.
Anchor ==
    /\ Len(heads) = NumShards /\ ~receipt
    /\ WitnessStores
    /\ receipt' = TRUE
    /\ UNCHANGED <<entries, sessions, heads, rolls>>

EndRoll ==
    /\ heads' = <<>>
    /\ receipt' = FALSE
    /\ UNCHANGED <<entries, sessions>>

\* The caller commits: chain_root and anchor_receipt together.
CommitRoll ==
    /\ receipt
    /\ rolls' = Append(rolls, heads)
    /\ EndRoll
    /\ UNCHANGED anchored

\* The witness (with or without having stored the root) or the database failed:
\* nothing of the roll is kept but what the witness holds.
RollFails ==
    /\ heads # <<>>
    /\ UNCHANGED anchored \/ (Len(heads) = NumShards /\ WitnessStores)
    /\ EndRoll
    /\ UNCHANGED rolls

------------------------------------------------------------------------------
Init ==
    /\ log = [n \in 1..Genesis |-> [shard |-> n, prev |-> 0, at |-> 2 * n]]
    /\ status = [n \in 1..Genesis |-> "committed"]
    /\ author = [n \in 1..Genesis |-> NoOne]
    /\ lock = [n \in 1..Genesis |-> NoOne]
    /\ pc = [w \in Writer |-> "idle"]
    /\ target = [w \in Writer |-> NoTarget]
    /\ touched = [w \in Writer |-> {}]
    /\ contended = {}
    /\ heads = <<>> /\ receipt = FALSE /\ anchored = {} /\ rolls = <<>>

Session(w) ==
    \/ \E s \in Shard : Select(w, s)
    \/ Wake(w) \/ Insert(w) \/ Commit(w) \/ Abort(w) \/ DeadlockAbort(w)

Roller == ReadHead \/ Anchor \/ CommitRoll \/ RollFails

Next == Roller \/ \E w \in Writer : Session(w)

Spec == Init /\ [][Next]_vars

\* The caller of append commits or rolls back in the end; the database serves
\* lock waiters in turn and detects deadlocks.
FairSpec ==
    /\ Spec
    /\ \A w \in Writer :
          /\ WF_vars(Insert(w)) /\ WF_vars(Commit(w)) /\ WF_vars(DeadlockAbort(w))
          /\ SF_vars(Wake(w))

------------------------------------------------------------------------------
(* The verifications.                                                        *)

\* verify_shard: the entries in order of their time, each chained to the one
\* before it.
Before(n, s) == Newest({m \in Committed(s) : log[m].at < log[n].at})
VerifyShard(s) == \A n \in Committed(s) : log[n].prev = Before(n, s)

\* The time order of a shard is the order its entries were inserted in.
InClockOrder(s) == \A m, n \in Committed(s) : m < n => log[m].at < log[n].at

\* bound_tamper_window: a roll whose head of s is no longer an entry of s.
DisagreeingRoll(s) ==
    \E i \in DOMAIN rolls : rolls[i][s] # 0 /\ rolls[i][s] \notin Committed(s)

------------------------------------------------------------------------------
(* Properties.                                                               *)

TypeOK ==
    /\ log \in Seq([shard : Shard, prev : Nat, at : Nat])
    /\ Len(status) = Len(log) /\ Len(author) = Len(log) /\ DOMAIN lock = DOMAIN log
    /\ \A n \in Numbers :
          /\ log[n].prev < n
          /\ status[n] \in {"open", "committed", "aborted"}
          /\ author[n] \in Writer \cup {NoOne}
          /\ lock[n] \in Writer \cup {NoOne}
    /\ pc \in [Writer -> {"idle", "waiting", "locked", "open"}]
    /\ target \in [Writer -> [shard : 0..NumShards, last : Nat]]
    /\ touched \in [Writer -> SUBSET Shard]
    /\ contended \subseteq Shard
    /\ Len(heads) <= NumShards
    /\ receipt \in BOOLEAN
    /\ \A r \in anchored : Len(r) = NumShards
    /\ \A i \in DOMAIN rolls : Len(rolls[i]) = NumShards

\* A shard verifies from its first entry to its last as long as no two
\* transactions were appending to it at the same time and the clocks of the
\* hosts stamped its entries in the order they were inserted in: over any
\* interleaving with other shards, aborts and deadlocks.
VerifiesUnlessContended ==
    \A s \in Shard : s \notin contended /\ InClockOrder(s) => VerifyShard(s)

\* No committed entry is chained to one that was rolled back or is still open.
PrevIsCommitted ==
    \A s \in Shard : \A n \in Committed(s) : log[n].prev \in Committed(s) \cup {0}

\* perform_roll anchors before it commits: every chain_root row is a root the
\* witness holds.
RollsAreAnchored == \A i \in DOMAIN rolls : rolls[i] \in anchored

\* verify.bound_tamper_window: a recorded head, whether or not its roll met
\* open transactions, never stops existing, so no window is ever reported for a
\* log nobody tampered with.
NoFalseTamperWindow == \A s \in Shard : ~DisagreeingRoll(s)

\* Following prev_hash from entry n: what every set has that holds n and, with an
\* entry, the one it is chained to.
Ancestors(n) ==
    {m \in 0..n : \A S \in SUBSET (0..n) :
        n \in S /\ (\A k \in S \ {0} : log[k].prev \in S) => m \in S}

\* Successive roots commit to one growing history of each shard: the head an
\* older roll names is an ancestor of the head a younger one names.
RootsExtend ==
    \A s \in Shard : s \notin contended =>
        \A i, j \in DOMAIN rolls : i < j => rolls[i][s] \in Ancestors(rolls[j][s])

\* The witnessed roots are a history of the log (rollup.perform_roll under
\* concurrent appends): each is at the witness before its row is committed, each
\* head goes on to be an entry, and younger roots grow out of older ones.
WitnessedHistory == RollsAreAnchored /\ NoFalseTamperWindow /\ RootsExtend

\* Every transaction that appends comes to an end.
EveryTransactionEnds == \A w \in Writer : (pc[w] # "idle") ~> (pc[w] = "idle")

\* chain.append: "so two concurrent writers to the same shard don't both
\* compute a hash chained off the same prev_hash".
NoTwoFromOnePrev ==
    \A s \in Shard : \A m, n \in Committed(s) : m # n => log[m].prev # log[n].prev
==============================================================================
