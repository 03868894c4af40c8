----------------------------- MODULE LockStore -----------------------------
(***************************************************************************)
(* SQLiteLockStore, one row per lock key, and the PathLock / LeaseGuard     *)
(* callers on top of it.  Every call is one SQLite write transaction; a    *)
(* fenced section is different: its transaction stays open, from BEGIN     *)
(* IMMEDIATE to COMMIT, while the caller's body runs, and every other      *)
(* writer finds the database busy.                                         *)
(*                                                                         *)
(* acquire, renew and discard_idle read the clock before they wait for the *)
(* write lock, so they judge leases at an instant up to BusyWait old.  The *)
(* clock is the wall clock: it may also be set back.                       *)
(*                                                                         *)
(* A uuid token is the number of the grant of its key that it names; the   *)
(* code compares tokens only for equality.  0 is the empty token of a      *)
(* released row.                                                           *)
(***************************************************************************)
EXTENDS Naturals, FiniteSets

CONSTANTS
    Client,     \* threads and processes that take locks
    Key,        \* lock keys
    None,       \* nobody
    NoRow,      \* the key has no row
    TTL,        \* max(1, ttl_seconds), in ticks
    BusyWait,   \* timeout_seconds of the SQLite connection, in ticks
    MaxGrants,  \* bound: grants of one key
    MaxTime,    \* bound: the clock
    MaxSteps    \* bound: times the clock is set back

ASSUME LockConstants ==
    /\ None \notin Client
    /\ TTL \in Nat \ {0}
    /\ {BusyWait, MaxGrants, MaxTime, MaxSteps} \subseteq Nat
    /\ NoRow \notin [token: Nat, expires: Nat, fence: Nat]

VARIABLES
    now,        \* the wall clock
    row,        \* Key -> row of the locks table
    granted,    \* Key -> grants so far: the next fresh token
    guard,      \* Client -> Key -> the LockToken that client's lease guard holds
    writer,     \* the client whose fenced section holds the SQLite write lock
    body,       \* the keys of that section
    steps       \* times the clock was set back

lockVars == <<now, row, granted, guard, writer, body, steps>>

Row == [token: Nat, expires: Nat, fence: Nat]
Token == [token: Nat, fence: Nat]
NoToken == [token |-> 0, fence |-> 0]

InitLocks ==
    /\ now = 0
    /\ row = [k \in Key |-> NoRow]
    /\ granted = [k \in Key |-> 0]
    /\ guard = [c \in Client |-> [k \in Key |-> NoToken]]
    /\ writer = None
    /\ body = {}
    /\ steps = 0

-----------------------------------------------------------------------------
(* Mutant of LeaseActive: any lease that was ever written counts.           *)
LeaseActiveForever(expires, t) == expires > 0

(* A lease that ends at this very instant is over.                          *)
LeaseActive(expires, t) == expires > t

(* assert_owned, and the same test inside renew and fenced.                 *)
Owned(k, tok, t) ==
    /\ row[k] # NoRow
    /\ row[k].token = tok.token
    /\ row[k].fence = tok.fence
    /\ LeaseActive(row[k].expires, t)

Holds(c, k) == guard[c][k] # NoToken

(* The instants a call that now gets the write lock may have read.          *)
ReadInstant == {t \in 0..MaxTime : t <= now /\ now <= t + BusyWait}

Takeable(k, t) == row[k] # NoRow => ~LeaseActive(row[k].expires, t)

Grant(k) ==
    [token |-> granted[k] + 1,
     fence |-> IF row[k] = NoRow THEN 1 ELSE row[k].fence + 1]

Acquire(c, k, t) ==
    /\ writer = None
    /\ ~Holds(c, k)
    /\ granted[k] < MaxGrants
    /\ t + TTL <= MaxTime
    /\ Takeable(k, t)
    /\ row' = [row EXCEPT ![k] = [token |-> Grant(k).token, expires |-> t + TTL,
                                  fence |-> Grant(k).fence]]
    /\ granted' = [granted EXCEPT ![k] = @ + 1]
    /\ guard' = [guard EXCEPT ![c][k] = Grant(k)]
    /\ UNCHANGED <<now, writer, body, steps>>

(* LeaseGuard.checkpoint; it may run in the heartbeat while the same client *)
(* does something else.                                                     *)
Renew(c, k, t) ==
    /\ writer = None
    /\ Holds(c, k)
    /\ t + TTL <= MaxTime
    /\ Owned(k, guard[c][k], t)
    /\ row' = [row EXCEPT ![k].expires = t + TTL]
    /\ UNCHANGED <<now, granted, guard, writer, body, steps>>

(* Mutant of EnterFenced: the leases are checked in a transaction that does *)
(* not keep the write lock while the body runs.                             *)
EnterFencedDeferred(c, ks) ==
    /\ body = {}
    /\ \A k \in ks : Holds(c, k) /\ Owned(k, guard[c][k], now)
    /\ body' = {<<c, k>> : k \in ks}
    /\ UNCHANGED <<now, row, granted, guard, writer, steps>>

(* BEGIN IMMEDIATE, every lease checked; the renewal written here is only   *)
(* committed by ExitFenced, which overwrites it.                            *)
EnterFenced(c, ks) ==
    /\ writer = None
    /\ \A k \in ks : Holds(c, k) /\ Owned(k, guard[c][k], now)
    /\ writer' = c
    /\ body' = {<<c, k>> : k \in ks}
    /\ UNCHANGED <<now, row, granted, guard, steps>>

ExitFenced(c) ==
    /\ \E k \in Key : <<c, k>> \in body
    /\ now + TTL <= MaxTime
    /\ writer' = None
    /\ body' = {}
    /\ row' = [k \in Key |->
                 IF <<c, k>> \in body /\ row[k] # NoRow
                    /\ row[k].token = guard[c][k].token
                    /\ row[k].fence = guard[c][k].fence
                 THEN [row[k] EXCEPT !.expires = now + TTL]
                 ELSE row[k]]
    /\ UNCHANGED <<now, granted, guard, steps>>

(* The body raises, or COMMIT does: what the body did to files stays, the   *)
(* renewal is rolled back.                                                  *)
AbortFenced(c) ==
    /\ \E k \in Key : <<c, k>> \in body
    /\ writer' = None
    /\ body' = {}
    /\ UNCHANGED <<now, row, granted, guard, steps>>

(* Mutant of Freed: release matches the key alone.                          *)
FreedByKey(c, k) ==
    IF row[k] = NoRow THEN NoRow ELSE [row[k] EXCEPT !.token = 0, !.expires = now]

(* The row after UPDATE ... WHERE lock_key AND token AND fence match.       *)
Freed(c, k) ==
    IF /\ row[k] # NoRow
       /\ row[k].token = guard[c][k].token
       /\ row[k].fence = guard[c][k].fence
    THEN [row[k] EXCEPT !.token = 0, !.expires = now]
    ELSE row[k]

Release(c, k) ==
    /\ writer = None
    /\ Holds(c, k)
    /\ <<c, k>> \notin body
    /\ row' = [row EXCEPT ![k] = Freed(c, k)]
    /\ guard' = [guard EXCEPT ![c][k] = NoToken]
    /\ UNCHANGED <<now, granted, writer, body, steps>>

(* The database stays busy past the wait: the row is left to its lease.     *)
ReleaseFails(c, k) ==
    /\ writer \notin {None, c}
    /\ Holds(c, k)
    /\ guard' = [guard EXCEPT ![c][k] = NoToken]
    /\ UNCHANGED <<now, row, granted, writer, body, steps>>

(* discard_idle, called by whoever has just retired what the key protects.  *)
DiscardIdle(k, t) ==
    /\ writer = None
    /\ row[k] # NoRow
    /\ ~(row[k].token # 0 /\ LeaseActive(row[k].expires, t))
    /\ row' = [row EXCEPT ![k] = NoRow]
    /\ UNCHANGED <<now, granted, guard, writer, body, steps>>

(* The process dies: its tokens are gone, its open transaction rolls back.  *)
Crash(c) ==
    /\ \E k \in Key : Holds(c, k)
    /\ guard' = [guard EXCEPT ![c] = [k \in Key |-> NoToken]]
    /\ writer' = IF writer = c THEN None ELSE writer
    /\ body' = {p \in body : p[1] # c}
    /\ UNCHANGED <<now, row, granted, steps>>

Tick ==
    /\ now < MaxTime
    /\ now' = now + 1
    /\ UNCHANGED <<row, granted, guard, writer, body, steps>>

SetBack(t) ==
    /\ steps < MaxSteps
    /\ t < now
    /\ now' = t
    /\ steps' = steps + 1
    /\ UNCHANGED <<row, granted, guard, writer, body>>

NextLocks ==
    \/ \E c \in Client, k \in Key, t \in ReadInstant :
          Acquire(c, k, t) \/ Renew(c, k, t)
    \/ \E c \in Client, ks \in SUBSET Key \ {{}} : EnterFenced(c, ks)
    \/ \E c \in Client : ExitFenced(c) \/ AbortFenced(c) \/ Crash(c)
    \/ \E c \in Client, k \in Key : Release(c, k) \/ ReleaseFails(c, k)
    \/ \E k \in Key, t \in ReadInstant : DiscardIdle(k, t)
    \/ Tick
    \/ \E t \in 0..MaxTime : SetBack(t)

LocksSpec == InitLocks /\ [][NextLocks]_lockVars

(* Time passes, and a body that runs ends: nothing else is promised.        *)
FairSpec == LocksSpec /\ WF_lockVars(Tick) /\ \A c \in Client : WF_lockVars(AbortFenced(c))

-----------------------------------------------------------------------------
LocksTypeOK ==
    /\ now \in Nat
    /\ row \in [Key -> Row \cup {NoRow}]
    /\ granted \in [Key -> Nat]
    /\ guard \in [Client -> [Key -> Token]]
    /\ writer \in Client \cup {None}
    /\ body \subseteq Client \X Key
    /\ steps \in Nat

(* While a fenced body runs, every lock it was entered with is still the    *)
(* caller's own: no later grant of the key exists and its row still carries *)
(* the caller's token, however long the body takes and whatever the clock   *)
(* does, and although deleting an idle row restarts its fence numbers.      *)
FencedIsCurrent ==
    \A p \in body :
        /\ guard[p[1]][p[2]].token = granted[p[2]]
        /\ row[p[2]] # NoRow
        /\ row[p[2]].token = granted[p[2]]

(* Two callers never both pass the ownership test for one key, at whatever  *)
(* instants they read the clock: a released, expired, deleted and re-taken  *)
(* row never admits an earlier token.                                       *)
OneOwner ==
    \A c, d \in Client, k \in Key, t, u \in 0..MaxTime :
        ( /\ Holds(c, k) /\ Holds(d, k)
          /\ Owned(k, guard[c][k], t)
          /\ Owned(k, guard[d][k], u) ) => c = d

(* A lease is only ever taken from a live holder once it has run out: a key *)
(* is granted again only if its row was given up, or its lease had ended by *)
(* the clock the new holder read, and release only frees the caller's own   *)
(* grant.                                                                   *)
NoEviction ==
    [][ \A k \in Key, c \in Client :
          ( /\ Holds(c, k)
            /\ \A t \in ReadInstant : Owned(k, guard[c][k], t)
            /\ guard'[c] = guard[c] ) =>
          (row'[k] # NoRow /\ row'[k].token = guard[c][k].token) ]_lockVars

Abandoned(k) ==
    /\ row[k] # NoRow
    /\ LeaseActive(row[k].expires, now)
    /\ \A c \in Client : ~(Holds(c, k) /\ guard[c][k].token = row[k].token)

(* A lock whose holder died, or could not release it, does not stay locked: *)
(* its lease runs out and the key can be taken again.                       *)
AbandonedLeaseEnds == \A k \in Key : Abandoned(k) ~> ~Abandoned(k)
=============================================================================
