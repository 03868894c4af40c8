------------------------ MODULE JournalAndLockProofs ------------------------
(* Two components that meet at the archive's and the outbox's path locks:   *)
(* LockStore hands out the fenced sections, ConversationJournal does its    *)
(* writes inside them.  Neither specification mentions the other's state;   *)
(* their proofs stand side by side, the locks first.                        *)
EXTENDS ConversationJournal, LockStore, TLAPS

-----------------------------------------------------------------------------
(*                              THE LOCK STORE                              *)

(* Tokens handed out are known grants, and each to one caller only.         *)
TokensKnown ==
    \A c \in Client, k \in Key :
        /\ guard[c][k].token <= granted[k]
        /\ Holds(c, k) => guard[c][k].token # 0

TokensApart ==
    \A c, d \in Client, k \in Key :
        (guard[c][k].token = guard[d][k].token /\ guard[c][k].token # 0) => c = d

(* A row is either given up or carries the newest grant of its key.         *)
RowsNewest ==
    \A k \in Key : row[k] # NoRow => row[k].token \in {0, granted[k]}

(* The section that is open belongs to the SQLite writer and its rows carry *)
(* the writer's tokens.                                                     *)
BodyHeld ==
    \A p \in body :
        /\ writer = p[1]
        /\ Holds(p[1], p[2])
        /\ row[p[2]] # NoRow
        /\ row[p[2]].token = guard[p[1]][p[2]].token

ClockBounded == now <= MaxTime

LInv == LocksTypeOK /\ ClockBounded /\ TokensKnown /\ TokensApart /\ RowsNewest /\ BodyHeld

(* No section is open while the write lock is free.                         *)
LEMMA FreeMeansNoBody ==
    ASSUME LocksTypeOK, BodyHeld, writer = None
    PROVE  body = {}
  <1>1. \A p \in body : p[1] \in Client  BY DEF LocksTypeOK
  <1> QED BY <1>1, LockConstants DEF BodyHeld

(* No row and no token exists at first.                                     *)
LEMMA InitLInv == InitLocks => LInv
  BY LockConstants DEF InitLocks, LInv, LocksTypeOK, TokensKnown, TokensApart, RowsNewest,
     BodyHeld, Holds, NoToken, Token, Row, ClockBounded

(* A call that opens a new grant keeps the invariant.                       *)
LEMMA AcquireKeeps ==
    ASSUME LInv, NEW c \in Client, NEW k \in Key, NEW t \in ReadInstant,
           Acquire(c, k, t)
    PROVE  LInv'
  <1> USE LockConstants
  <1> DEFINE g == Grant(k)
             r == [token |-> g.token, expires |-> t + TTL, fence |-> g.fence]
  <1>0. /\ body = {} /\ row \in [Key -> Row \cup {NoRow}] /\ granted \in [Key -> Nat]
        /\ guard \in [Client -> [Key -> Token]] /\ t \in Nat /\ now \in Nat
    BY FreeMeansNoBody DEF LInv, LocksTypeOK, Acquire, ReadInstant
  <1>1. g \in Token /\ g.token = granted[k] + 1
    BY <1>0 DEF Grant, Token, Row
  <1>2. r \in Row /\ r.token = granted[k] + 1 /\ r # NoRow
    BY <1>0, <1>1 DEF Row, Token
  <1>3. row' = [row EXCEPT ![k] = r]  BY DEF Acquire
  <1>4. guard' = [guard EXCEPT ![c][k] = g] /\ granted' = [granted EXCEPT ![k] = @ + 1]
    BY DEF Acquire
  <1>5. body' = {} /\ UNCHANGED <<now, writer, steps>>  BY <1>0 DEF Acquire
  <1> HIDE DEF g, r
  <1>6. LocksTypeOK'
    <2>1. row' \in [Key -> Row \cup {NoRow}]  BY <1>0, <1>2, <1>3
    <2>2. granted' \in [Key -> Nat]  BY <1>0, <1>4
    <2>3. guard' \in [Client -> [Key -> Token]]  BY <1>0, <1>1, <1>4
    <2> QED BY <2>1, <2>2, <2>3, <1>5 DEF LInv, LocksTypeOK
  <1>7. \A d \in Client, l \in Key :
          guard'[d][l] = IF d = c /\ l = k THEN g ELSE guard[d][l]
    BY <1>0, <1>4
  <1>8. \A l \in Key : /\ granted'[l] = IF l = k THEN granted[k] + 1 ELSE granted[l]
                       /\ row'[l] = IF l = k THEN r ELSE row[l]
    BY <1>0, <1>3, <1>4
  <1>9. \A d \in Client, l \in Key : guard[d][l] \in Token /\ guard[d][l].token \in Nat
    BY <1>0 DEF Token
  <1>10. TokensKnown'
    BY <1>0, <1>1, <1>7, <1>8, <1>9 DEF LInv, TokensKnown, Holds, NoToken, Token
  <1>11. TokensApart'
    BY <1>0, <1>1, <1>7, <1>8, <1>9 DEF LInv, TokensApart, TokensKnown
  <1>12. RowsNewest'
    BY <1>2, <1>8 DEF LInv, RowsNewest
  <1>13. BodyHeld'  BY <1>5 DEF BodyHeld
  <1>14. ClockBounded'  BY <1>5 DEF LInv, ClockBounded
  <1> QED BY <1>6, <1>10, <1>11, <1>12, <1>13, <1>14 DEF LInv

(* A step that only changes what rows say about their end, frees or deletes *)
(* rows, or drops tokens, keeps the invariant as long as the rows of an     *)
(* open section keep their tokens.                                          *)
LEMMA WeakeningKeeps ==
    ASSUME LInv, LocksTypeOK', granted' = granted,
           \A c \in Client, k \in Key : guard'[c][k] \in {guard[c][k], NoToken},
           \A k \in Key : row'[k] # NoRow =>
               (row[k] # NoRow /\ row'[k].token \in {0, row[k].token}),
           BodyHeld', ClockBounded'
    PROVE  LInv'
  <1> USE LockConstants
  <1>1. \A c \in Client, k \in Key : guard[c][k] \in Token /\ granted[k] \in Nat
    BY DEF LInv, LocksTypeOK
  <1>2. TokensKnown'
    BY <1>1 DEF LInv, TokensKnown, Holds, NoToken, Token
  <1>3. TokensApart'
    BY <1>1 DEF LInv, TokensApart, NoToken, Token
  <1>4. RowsNewest'
    BY DEF LInv, RowsNewest
  <1> QED BY <1>2, <1>3, <1>4 DEF LInv

(* Fenced sections, releases, discards, crashes and the clock.              *)
LEMMA OthersKeep ==
    ASSUME LInv, [NextLocks]_lockVars,
           ~ \E c \in Client, k \in Key, t \in ReadInstant : Acquire(c, k, t)
    PROVE  LInv'
  <1> USE LockConstants
  <1>0. LocksTypeOK /\ BodyHeld  BY DEF LInv
  <1>c. now' = now => ClockBounded'  BY DEF LInv, ClockBounded
  <1>a. \A k \in Key : row[k] # NoRow => row[k] \in Row  BY <1>0 DEF LocksTypeOK
  <1>b. NoToken \in Token  BY DEF NoToken, Token
  <1>1. ASSUME NEW c \in Client, NEW k \in Key, NEW t \in ReadInstant, Renew(c, k, t)
        PROVE  LInv'
    <2>1. t \in Nat /\ t + TTL \in Nat  BY DEF ReadInstant
    <2>2. row[k] \in Row /\ row[k] # NoRow  BY <1>1, <1>a DEF Renew, Owned
    <2>3. row' = [row EXCEPT ![k].expires = t + TTL]  BY <1>1 DEF Renew
    <2>4. [row[k] EXCEPT !.expires = t + TTL] \in Row  BY <2>1, <2>2 DEF Row
    <2>5. row'[k].token = row[k].token  BY <2>2, <2>3, <1>0 DEF LocksTypeOK, Row
    <2>6. row' \in [Key -> Row \cup {NoRow}]  BY <2>3, <2>4, <1>0 DEF LocksTypeOK
    <2>7. LocksTypeOK'  BY <2>6, <1>1, <1>0 DEF Renew, LocksTypeOK
    <2>8. BodyHeld'  BY <1>1, <1>0, FreeMeansNoBody DEF Renew, BodyHeld
    <2> QED BY <2>2, <2>3, <2>5, <2>7, <2>8, <1>1, <1>0, <1>c, WeakeningKeeps
        DEF Renew, LocksTypeOK
  <1>2. ASSUME NEW c \in Client, NEW ks \in SUBSET Key \ {{}}, EnterFenced(c, ks)
        PROVE  LInv'
    <2>1. LocksTypeOK'  BY <1>2, <1>0 DEF EnterFenced, LocksTypeOK
    <2>2. BodyHeld'  BY <1>2 DEF EnterFenced, BodyHeld, Owned, Holds
    <2> QED BY <2>1, <2>2, <1>2, <1>c, WeakeningKeeps DEF EnterFenced
  <1>3. ASSUME NEW c \in Client, ExitFenced(c)
        PROVE  LInv'
    <2> DEFINE R(k) == [row[k] EXCEPT !.expires = now + TTL]
               W(k) == <<c, k>> \in body /\ row[k] # NoRow
                         /\ row[k].token = guard[c][k].token
                         /\ row[k].fence = guard[c][k].fence
    <2>1. \A k \in Key : row[k] # NoRow => (R(k) \in Row /\ R(k).token = row[k].token)
      BY <1>a, <1>0 DEF Row, LocksTypeOK
    <2>2. row' = [k \in Key |-> IF W(k) THEN R(k) ELSE row[k]]  BY <1>3 DEF ExitFenced
    <2>3. \A k \in Key : W(k) => row[k] # NoRow  OBVIOUS
    <2> HIDE DEF R, W
    <2>4. row' \in [Key -> Row \cup {NoRow}]  BY <2>1, <2>2, <2>3, <1>0 DEF LocksTypeOK
    <2>5. LocksTypeOK'  BY <2>4, <1>3, <1>0 DEF ExitFenced, LocksTypeOK
    <2>6. BodyHeld'  BY <1>3 DEF ExitFenced, BodyHeld
    <2>7. \A k \in Key : row'[k] # NoRow =>
               (row[k] # NoRow /\ row'[k].token \in {0, row[k].token})
      BY <2>1, <2>2, <2>3
    <2> QED BY <2>5, <2>6, <2>7, <1>3, <1>c, WeakeningKeeps DEF ExitFenced
  <1>4. ASSUME NEW c \in Client, AbortFenced(c)
        PROVE  LInv'
    <2>1. LocksTypeOK'  BY <1>4, <1>0 DEF AbortFenced, LocksTypeOK
    <2>2. BodyHeld'  BY <1>4 DEF AbortFenced, BodyHeld
    <2> QED BY <2>1, <2>2, <1>4, <1>c, WeakeningKeeps DEF AbortFenced
  <1>5. ASSUME NEW c \in Client, Crash(c)
        PROVE  LInv'
    <2>1. guard' = [guard EXCEPT ![c] = [k \in Key |-> NoToken]]  BY <1>5 DEF Crash
    <2>2. \A d \in Client, k \in Key :
            guard'[d][k] = IF d = c THEN NoToken ELSE guard[d][k]
      BY <2>1, <1>0 DEF LocksTypeOK
    <2>3. LocksTypeOK'
      <3>1. guard' \in [Client -> [Key -> Token]]  BY <2>1, <1>b, <1>0 DEF LocksTypeOK
      <3>2. writer' \in Client \cup {None} /\ body' \subseteq Client \X Key
        BY <1>5, <1>0 DEF Crash, LocksTypeOK
      <3> QED BY <3>1, <3>2, <1>5, <1>0 DEF Crash, LocksTypeOK
    <2>4. BodyHeld'
      <3> SUFFICES ASSUME NEW p \in body'
                   PROVE /\ writer' = p[1] /\ Holds(p[1], p[2])'
                         /\ row'[p[2]] # NoRow
                         /\ row'[p[2]].token = guard'[p[1]][p[2]].token
        BY DEF BodyHeld
      <3>1. p \in body /\ p[1] # c  BY <1>5 DEF Crash
      <3>2. p[1] \in Client /\ p[2] \in Key  BY <3>1, <1>0 DEF LocksTypeOK
      <3>3. writer = p[1]  BY <3>1, <1>0 DEF BodyHeld
      <3>4. guard'[p[1]][p[2]] = guard[p[1]][p[2]]  BY <3>1, <3>2, <2>2
      <3> QED BY <3>1, <3>3, <3>4, <1>5, <1>0 DEF Crash, BodyHeld, Holds
    <2> QED BY <2>2, <2>3, <2>4, <1>5, <1>c, WeakeningKeeps DEF Crash
  <1>6. ASSUME NEW c \in Client, NEW k \in Key, Release(c, k)
        PROVE  LInv'
    <2> DEFINE r == [row[k] EXCEPT !.token = 0, !.expires = now]
    <2>1. row[k] # NoRow => (r \in Row /\ r.token = 0)  BY <1>a, <1>0 DEF Row, LocksTypeOK
    <2>2. row' = [row EXCEPT ![k] = Freed(c, k)]  BY <1>6 DEF Release
    <2>3. Freed(c, k) = row[k] \/ (row[k] # NoRow /\ Freed(c, k) = r)  BY DEF Freed
    <2> HIDE DEF r
    <2>4. row' \in [Key -> Row \cup {NoRow}]  BY <2>1, <2>2, <2>3, <1>0 DEF LocksTypeOK
    <2>5. \A l \in Key : row'[l] # NoRow =>
               (row[l] # NoRow /\ row'[l].token \in {0, row[l].token})
      BY <2>1, <2>2, <2>3, <1>0 DEF LocksTypeOK
    <2>6. \A d \in Client, l \in Key : guard'[d][l] \in {guard[d][l], NoToken}
      BY <1>6, <1>0 DEF Release, LocksTypeOK
    <2>7. LocksTypeOK'
      <3>1. guard' \in [Client -> [Key -> Token]]  BY <1>6, <1>b, <1>0 DEF Release, LocksTypeOK
      <3> QED BY <3>1, <2>4, <1>6, <1>0 DEF Release, LocksTypeOK
    <2>8. BodyHeld'  BY <1>6, <1>0, FreeMeansNoBody DEF Release, BodyHeld
    <2> QED BY <2>5, <2>6, <2>7, <2>8, <1>6, <1>c, WeakeningKeeps DEF Release
  <1>7. ASSUME NEW c \in Client, NEW k \in Key, ReleaseFails(c, k)
        PROVE  LInv'
    <2>1. guard' \in [Client -> [Key -> Token]]  BY <1>7, <1>b, <1>0 DEF ReleaseFails, LocksTypeOK
    <2>2. LocksTypeOK'  BY <2>1, <1>7, <1>0 DEF ReleaseFails, LocksTypeOK
    <2>3. \A d \in Client, l \in Key :
            guard'[d][l] = IF d = c /\ l = k THEN NoToken ELSE guard[d][l]
      BY <1>7, <1>0 DEF ReleaseFails, LocksTypeOK
    <2>4. BodyHeld'
      <3> SUFFICES ASSUME NEW p \in body'
                   PROVE /\ writer' = p[1] /\ Holds(p[1], p[2])'
                         /\ row'[p[2]] # NoRow
                         /\ row'[p[2]].token = guard'[p[1]][p[2]].token
        BY DEF BodyHeld
      <3>1. p \in body /\ p[1] \in Client /\ p[2] \in Key  BY <1>7, <1>0 DEF ReleaseFails, LocksTypeOK
      <3>2. writer = p[1] /\ p[1] # c  BY <3>1, <1>7, <1>0 DEF BodyHeld, ReleaseFails
      <3>3. guard'[p[1]][p[2]] = guard[p[1]][p[2]]  BY <3>1, <3>2, <2>3
      <3> QED BY <3>1, <3>2, <3>3, <1>7, <1>0 DEF ReleaseFails, BodyHeld, Holds
    <2> QED BY <2>2, <2>3, <2>4, <1>7, <1>c, WeakeningKeeps DEF ReleaseFails
  <1>8. ASSUME NEW k \in Key, NEW t \in ReadInstant, DiscardIdle(k, t)
        PROVE  LInv'
    <2>1. row' = [row EXCEPT ![k] = NoRow]  BY <1>8 DEF DiscardIdle
    <2>2. LocksTypeOK'  BY <2>1, <1>8, <1>0 DEF DiscardIdle, LocksTypeOK
    <2>3. BodyHeld'  BY <1>8, <1>0, FreeMeansNoBody DEF DiscardIdle, BodyHeld
    <2> QED BY <2>1, <2>2, <2>3, <1>8, <1>0, <1>c, WeakeningKeeps DEF DiscardIdle, LocksTypeOK
  <1>9. CASE Tick \/ (\E t \in 0..MaxTime : SetBack(t)) \/ UNCHANGED lockVars
    <2>1. UNCHANGED <<row, granted, guard, writer, body>>  BY <1>9 DEF Tick, SetBack, lockVars
    <2>2. now' \in Nat /\ steps' \in Nat  BY <1>9, <1>0 DEF Tick, SetBack, lockVars, LocksTypeOK
    <2>3. LocksTypeOK'  BY <2>1, <2>2, <1>0 DEF LocksTypeOK
    <2>4. BodyHeld'  BY <2>1, <1>0 DEF BodyHeld, Holds
    <2>5. ClockBounded'
      BY <1>9, <1>0 DEF LInv, ClockBounded, Tick, SetBack, lockVars, LocksTypeOK
    <2> QED BY <2>1, <2>3, <2>4, <2>5, WeakeningKeeps
  <1> QED BY <1>1, <1>2, <1>3, <1>4, <1>5, <1>6, <1>7, <1>8, <1>9 DEF NextLocks

(* Every step keeps the invariant.                                          *)
LEMMA LStepKeeps == LInv /\ [NextLocks]_lockVars => LInv'
  BY AcquireKeeps, OthersKeep

(* It holds in every behaviour.                                             *)
LEMMA LInvAlways == LocksSpec => []LInv
  BY InitLInv, LStepKeeps, PTL DEF LocksSpec

-----------------------------------------------------------------------------
(* Every row, token and section has its type, in every behaviour.           *)
THEOREM LockTypeCorrect == LocksSpec => []LocksTypeOK
  <1>1. LInv => LocksTypeOK  BY DEF LInv
  <1> QED BY <1>1, LInvAlways, PTL

(* A fenced body only ever runs under the newest grant of each of its keys, *)
(* for every number of callers and keys, however long it runs and whatever  *)
(* the clock does.                                                          *)
THEOREM BodiesAreCurrent == LocksSpec => []FencedIsCurrent
  <1>1. LInv => FencedIsCurrent
    <2> SUFFICES ASSUME LInv, NEW p \in body
                 PROVE  /\ guard[p[1]][p[2]].token = granted[p[2]]
                        /\ row[p[2]] # NoRow /\ row[p[2]].token = granted[p[2]]
      BY DEF FencedIsCurrent
    <2>1. p[1] \in Client /\ p[2] \in Key  BY DEF LInv, LocksTypeOK
    <2>2. /\ Holds(p[1], p[2]) /\ row[p[2]] # NoRow
          /\ row[p[2]].token = guard[p[1]][p[2]].token
      BY DEF LInv, BodyHeld
    <2>3. guard[p[1]][p[2]].token # 0  BY <2>1, <2>2 DEF LInv, TokensKnown
    <2> QED BY <2>1, <2>2, <2>3 DEF LInv, RowsNewest
  <1> QED BY <1>1, LInvAlways, PTL

(* At most one caller passes the ownership test of a key, although deleting *)
(* idle rows makes fence numbers come back.                                 *)
THEOREM OwnersAreUnique == LocksSpec => []OneOwner
  <1>1. LInv => OneOwner
    <2> SUFFICES ASSUME LInv, NEW c \in Client, NEW d \in Client, NEW k \in Key,
                        NEW t \in 0..MaxTime, NEW u \in 0..MaxTime, Holds(c, k),
                        Owned(k, guard[c][k], t), Owned(k, guard[d][k], u)
                 PROVE  c = d
      BY DEF OneOwner
    <2>1. guard[c][k].token = guard[d][k].token  BY DEF Owned
    <2>2. guard[c][k].token # 0  BY DEF LInv, TokensKnown
    <2> QED BY <2>1, <2>2 DEF LInv, TokensApart
  <1> QED BY <1>1, LInvAlways, PTL

(* No step takes a running lease from a live holder, at any instant a call  *)
(* may have read.                                                           *)
THEOREM NobodyIsEvicted == LocksSpec => NoEviction
  <1> USE LockConstants
  <1> DEFINE A == \A k \in Key, c \in Client :
          ( /\ Holds(c, k)
            /\ \A t \in ReadInstant : Owned(k, guard[c][k], t)
            /\ guard'[c] = guard[c] ) =>
          (row'[k] # NoRow /\ row'[k].token = guard[c][k].token)
  <1>1. LInv /\ [NextLocks]_lockVars => [A]_lockVars
    <2> SUFFICES ASSUME LInv, [NextLocks]_lockVars, NEW k \in Key, NEW c \in Client,
                        Holds(c, k), \A t \in ReadInstant : Owned(k, guard[c][k], t),
                        guard'[c] = guard[c]
                 PROVE  row'[k] # NoRow /\ row'[k].token = guard[c][k].token
      OBVIOUS
    <2>0. /\ row \in [Key -> Row \cup {NoRow}] /\ granted \in [Key -> Nat]
          /\ guard \in [Client -> [Key -> Token]] /\ now \in Nat /\ now <= MaxTime
      BY DEF LInv, LocksTypeOK, ClockBounded
    <2>1. now \in ReadInstant  BY <2>0 DEF ReadInstant
    <2>2. row[k] # NoRow /\ row[k] \in Row /\ row[k].token = guard[c][k].token
      BY <2>0, <2>1 DEF Owned
    <2>3. guard[c][k].token # 0  BY DEF LInv, TokensKnown
    <2>4. ASSUME NEW d \in Client, NEW l \in Key, NEW t \in ReadInstant, Acquire(d, l, t)
          PROVE  row'[k] = row[k]
      <3>1. l # k  BY <2>4 DEF Acquire, Takeable, Owned
      <3> QED BY <3>1, <2>4, <2>0 DEF Acquire
    <2>5. ASSUME NEW d \in Client, NEW l \in Key, NEW t \in ReadInstant, Renew(d, l, t)
          PROVE  row'[k] # NoRow /\ row'[k].token = row[k].token
      <3>1. row' = [row EXCEPT ![l].expires = t + TTL]  BY <2>5 DEF Renew
      <3>2. [row[k] EXCEPT !.expires = t + TTL].token = row[k].token  BY <2>2 DEF Row
      <3>3. t + TTL \in Nat  BY DEF ReadInstant
      <3>4. [row[k] EXCEPT !.expires = t + TTL] \in Row  BY <2>2, <3>3 DEF Row
      <3>5. [row[k] EXCEPT !.expires = t + TTL] # NoRow  BY <3>4 DEF Row
      <3> QED BY <3>1, <3>2, <3>5, <2>0, <2>2
    <2>6. ASSUME NEW d \in Client, ExitFenced(d)
          PROVE  row'[k] # NoRow /\ row'[k].token = row[k].token
      <3>1. row'[k] = row[k] \/ row'[k] = [row[k] EXCEPT !.expires = now + TTL]
        BY <2>6 DEF ExitFenced
      <3>2. [row[k] EXCEPT !.expires = now + TTL].token = row[k].token  BY <2>2 DEF Row
      <3>3. [row[k] EXCEPT !.expires = now + TTL] \in Row  BY <2>0, <2>2 DEF Row
      <3>4. [row[k] EXCEPT !.expires = now + TTL] # NoRow  BY <3>3 DEF Row
      <3> QED BY <3>1, <3>2, <3>4, <2>2
    <2>7. ASSUME NEW d \in Client, NEW l \in Key, Release(d, l)
          PROVE  row'[k] = row[k]
      <3>1. row' = [row EXCEPT ![l] = Freed(d, l)]
            /\ guard' = [guard EXCEPT ![d][l] = NoToken]
        BY <2>7 DEF Release
      <3>2. CASE l = k
        <4>1. d # c  BY <3>1, <3>2, <2>0 DEF Holds
        <4>2. row[k].token # guard[d][k].token  BY <4>1, <2>2, <2>3 DEF LInv, TokensApart
        <4>3. Freed(d, l) = row[k]  BY <4>2, <3>2 DEF Freed
        <4> QED BY <4>3, <3>1, <3>2, <2>0
      <3>3. CASE l # k  BY <3>3, <3>1, <2>0
      <3> QED BY <3>2, <3>3
    <2>8. ASSUME NEW l \in Key, NEW t \in ReadInstant, DiscardIdle(l, t)
          PROVE  row'[k] = row[k]
      <3>1. l # k  BY <2>8, <2>2, <2>3 DEF DiscardIdle, Owned
      <3> QED BY <3>1, <2>8, <2>0 DEF DiscardIdle
    <2>9. ASSUME \/ \E d \in Client, ks \in SUBSET Key \ {{}} : EnterFenced(d, ks)
                 \/ \E d \in Client : AbortFenced(d) \/ Crash(d)
                 \/ \E d \in Client, l \in Key : ReleaseFails(d, l)
                 \/ Tick \/ (\E t \in 0..MaxTime : SetBack(t)) \/ UNCHANGED lockVars
          PROVE  row' = row
      BY <2>9 DEF EnterFenced, AbortFenced, Crash, ReleaseFails, Tick, SetBack, lockVars
    <2> QED BY <2>2, <2>4, <2>5, <2>6, <2>7, <2>8, <2>9 DEF NextLocks
  <1> QED BY <1>1, LInvAlways, PTL DEF NoEviction, LocksSpec

-----------------------------------------------------------------------------
(*                         THE CONVERSATION JOURNAL                         *)

-----------------------------------------------------------------------------
(* Files.                                                                   *)

(* A file with messages: consecutive sequence numbers, known bodies.        *)
Seg(f) ==
    /\ DOMAIN f # {} /\ DOMAIN f \subseteq Sequence
    /\ DOMAIN f = Lo(f)..Hi(f) /\ Lo(f) \in Nat /\ Hi(f) \in Nat /\ Lo(f) <= Hi(f)
    /\ f \in [DOMAIN f -> Body]

(* Two files agree on the messages both have.                               *)
Same(f, g) == \A n \in DOMAIN f \cap DOMAIN g : f[n] = g[n]

(* A function on an interval has the ends of the interval.                  *)
LEMMA MakeSeg ==
    ASSUME NEW a \in Nat, NEW b \in Nat, a <= b, a..b \subseteq Sequence,
           NEW f \in [a..b -> Body]
    PROVE  /\ Seg(f) /\ Lo(f) = a /\ Hi(f) = b /\ DOMAIN f = a..b
  <1>1. DOMAIN f = a..b /\ a \in a..b /\ b \in a..b
    OBVIOUS
  <1>2. Min(a..b) = a
    <2>1. \A x \in a..b : (\A y \in a..b : x =< y) => x = a
      BY <1>1
    <2>2. \A y \in a..b : a =< y
      OBVIOUS
    <2> QED BY <1>1, <2>1, <2>2, Zenon DEF Min
  <1>3. Max(a..b) = b
    <2>1. \A x \in a..b : (\A y \in a..b : x >= y) => x = b
      BY <1>1
    <2>2. \A y \in a..b : b >= y
      OBVIOUS
    <2> QED BY <1>1, <2>1, <2>2, Zenon DEF Max
  <1>4. Lo(f) = a /\ Hi(f) = b
    BY <1>1, <1>2, <1>3 DEF Lo, Hi
  <1> QED BY <1>1, <1>4 DEF Seg

(* It is one of the segments of TypeOK.                                     *)
LEMMA SegType ==
    ASSUME NEW f, Seg(f) PROVE f \in Segment /\ Lo(f) \in Sequence /\ Hi(f) \in Sequence
  <1>1. Lo(f) \in Sequence /\ Hi(f) \in Sequence
    BY DEF Seg
  <1>2. DOMAIN f \in Ranges
    BY <1>1 DEF Seg, Ranges
  <1> QED BY <1>1, <1>2 DEF Seg, Segment

(* Files with the same range and the same messages are equal.               *)
LEMMA SegEqual ==
    ASSUME NEW f, NEW g, Seg(f), Seg(g), Lo(f) = Lo(g), Hi(f) = Hi(g), Same(f, g)
    PROVE  f = g
  <1>1. DOMAIN f = DOMAIN g
    BY DEF Seg
  <1>2. \A n \in DOMAIN f : f[n] = g[n]
    BY <1>1 DEF Same
  <1> QED BY <1>1, <1>2 DEF Seg

(* A non-empty part of a file is a file.                                    *)
LEMMA RestrictSeg ==
    ASSUME NEW f, Seg(f), NEW a, NEW b, a \in Nat /\ b \in Nat,
           Lo(f) <= a, a <= b, b <= Hi(f), NEW g, g = Restrict(f, a..b)
    PROVE  /\ Seg(g) /\ Lo(g) = a /\ Hi(g) = b /\ DOMAIN g = a..b
           /\ \A n \in a..b : g[n] = f[n]
  <1>1. a..b \subseteq DOMAIN f /\ a..b \subseteq Sequence
    BY DEF Seg
  <1>2. g \in [a..b -> Body]
    BY <1>1 DEF Seg, Restrict
  <1>3. \A n \in a..b : g[n] = f[n]
    BY DEF Restrict
  <1> QED BY <1>1, <1>2, <1>3, MakeSeg

(* Nothing is left of a function but the empty file.                        *)
LEMMA RestrictEmpty ==
    ASSUME NEW f, NEW S, S = {} PROVE Restrict(f, S) = Empty
  BY DEF Restrict, Empty

(* The empty file has no messages.                                          *)
LEMMA EmptyFile == DOMAIN Empty = {} /\ (\A f : Seg(f) => f # Empty)
  BY DEF Empty, Seg

(* A delivery is a file.                                                    *)
LEMMA BatchSeg == \A r \in Request : Seg(r.batch)
  <1> SUFFICES ASSUME NEW r \in Request PROVE Seg(r.batch)
    OBVIOUS
  <1>1. PICK a \in Sequence, b \in Sequence : a <= b /\ r.batch \in [a..b -> Body]
    BY JournalConstants
  <1>2. a \in Nat /\ b \in Nat
    BY JournalConstants
  <1>3. a..b \subseteq Sequence
    <2>1. DOMAIN r.batch = a..b
      BY <1>1
    <2> QED BY <2>1 DEF Sequence
  <1> QED BY <1>1, <1>2, <1>3, MakeSeg

(* What the files have together, when they agree.                           *)
LEMMA MergeIs ==
    ASSUME NEW files, \A f, g \in files : Same(f, g)
    PROVE  /\ DOMAIN Merge(files) = UNION {DOMAIN f : f \in files}
           /\ \A f \in files : \A n \in DOMAIN f : Merge(files)[n] = f[n]
  <1>1. DOMAIN Merge(files) = UNION {DOMAIN f : f \in files}
    BY DEF Merge
  <1>2. ASSUME NEW f \in files, NEW n \in DOMAIN f PROVE Merge(files)[n] = f[n]
    <2> DEFINE g == CHOOSE h \in files : n \in DOMAIN h
    <2>1. g \in files /\ n \in DOMAIN g
      OBVIOUS
    <2>2. n \in UNION {DOMAIN h : h \in files}
      OBVIOUS
    <2>3. Merge(files)[n] = g[n]
      BY <2>2 DEF Merge
    <2> QED BY <2>1, <2>3 DEF Same
  <1> QED BY <1>1, <1>2

-----------------------------------------------------------------------------
(* The files of a conversation.                                             *)

(* The archived and the released number, -1 for none, and the last segment. *)
CursorRecord == [archived : Sequence \cup {-1}, released : Sequence \cup {-1},
                 latest : Segment \cup {Empty}]

Apart(s, t) == Hi(s) < Lo(t) \/ Hi(t) < Lo(s)

(* History files and the live file never contradict each other.             *)
FilesTyped ==
    /\ live = Empty \/ Seg(live)
    /\ \A s \in history : Seg(s)
    /\ cursor \in CursorRecord /\ cursor.released <= cursor.archived
    /\ \A s \in history : Same(s, live)
    /\ \A s, t \in history : s # t => Apart(s, t)

(* A history file is released, or listed, or left by a seal that was cut    *)
(* off; the listed ones are all there.                                      *)
IsStale(s) == Hi(s) <= cursor.released
IsActive(s) == cursor.released < Lo(s) /\ Hi(s) <= cursor.archived
IsNewer(s) == Lo(s) = cursor.archived + 1

(* The listed files cover every number from the released to the archived    *)
(* one.                                                                     *)
Tiled ==
    /\ \A s \in history : IsStale(s) \/ IsActive(s) \/ IsNewer(s)
    /\ \A n \in (cursor.released + 1)..cursor.archived : \E s \in history : n \in DOMAIN s
    /\ cursor.archived > cursor.released =>
          cursor.latest \in history /\ Hi(cursor.latest) = cursor.archived

(* The live file continues the history, or still has the segment that was   *)
(* sealed last.                                                             *)
NoNewer == \A s \in history : ~IsNewer(s)

Joins ==
    live # Empty =>
      /\ \A s \in history : IsNewer(s) =>
            \/ Lo(live) = Lo(s) /\ Hi(s) <= Hi(live)
            \/ Lo(live) = Hi(s) + 1
      /\ NoNewer =>
            \/ Lo(live) = cursor.archived + 1
            \/ /\ cursor.archived > cursor.released
               /\ Lo(live) = Lo(cursor.latest) /\ cursor.archived <= Hi(live)

(* The invariant of the files.                                              *)
FilesInv == FilesTyped /\ Tiled /\ Joins

(* Nothing is left to repair or to trim.                                    *)
Quiet == NoNewer /\ (live # Empty => Lo(live) = cursor.archived + 1)

(* What the steps of others cannot take back: a segment is off the live     *)
(* file; a segment was published; a message is stored.                      *)
Cut(s) == Hi(s) <= cursor.archived /\ (live # Empty => Hi(s) < Lo(live))
Published(s) == s \in history \/ Hi(s) <= cursor.released
Stored(n, x) == \E f \in history \cup {live} : n \in DOMAIN f /\ f[n] = x

(* What no step takes back.                                                 *)
Stable ==
    /\ cursor.released <= cursor'.released /\ cursor.archived <= cursor'.archived
    /\ \A s : Seg(s) /\ Cut(s) => Cut(s)'
    /\ \A s : Seg(s) /\ Published(s) => Published(s)'
    /\ \A n \in Nat : \A x : n > cursor'.released /\ Stored(n, x) => Stored(n, x)'

(* The cursor counts from -1.                                               *)
LEMMA CursorType ==
    ASSUME FilesInv
    PROVE  /\ cursor.archived \in Int /\ cursor.released \in Int
           /\ cursor.archived >= -1 /\ cursor.released >= -1
           /\ cursor.archived + 1 \in Nat
  <1>1. ASSUME NEW x \in Sequence \cup {-1} PROVE x \in Int /\ x >= -1 /\ x + 1 \in Nat
    <2>1. CASE x = -1
      BY <2>1
    <2>2. CASE x \in Sequence
      <3>1. x \in Nat
        BY <2>2, JournalConstants
      <3> QED BY <3>1
    <2> QED BY <2>1, <2>2
  <1>2. cursor.archived \in Sequence \cup {-1} /\ cursor.released \in Sequence \cup {-1}
    BY DEF FilesInv, FilesTyped, CursorRecord
  <1> QED BY <1>1, <1>2

(* A live file is empty or a segment.                                       *)
LEMMA LiveEmpty ==
    ASSUME FilesInv PROVE (DOMAIN live # {} <=> live # Empty) /\ (live # Empty => Seg(live))
  <1>1. live = Empty \/ Seg(live)
    BY DEF FilesInv, FilesTyped
  <1>2. Seg(live) => DOMAIN live # {} /\ live # Empty
    BY EmptyFile DEF Seg
  <1>3. live = Empty => DOMAIN live = {}
    BY EmptyFile
  <1> QED BY <1>1, <1>2, <1>3

(* A seal that was cut off left one file at most.                           *)
LEMMA OneNewer ==
    ASSUME FilesInv
    PROVE  /\ Newer = {s \in history : IsNewer(s)}
           /\ \A s, t \in history : IsNewer(s) /\ IsNewer(t) => s = t
  <1>1. \A s \in history : Seg(s) /\ (Lo(s) > cursor.archived <=> IsNewer(s))
    <2> SUFFICES ASSUME NEW s \in history PROVE Seg(s) /\ (Lo(s) > cursor.archived <=> IsNewer(s))
      OBVIOUS
    <2>1. Seg(s) /\ (IsStale(s) \/ IsActive(s) \/ IsNewer(s)) /\ cursor.released <= cursor.archived
      BY DEF FilesInv, FilesTyped, Tiled
    <2> QED BY <2>1, CursorType DEF IsStale, IsActive, IsNewer, Seg
  <1>2. ASSUME NEW s \in history, NEW t \in history, IsNewer(s), IsNewer(t), s # t PROVE FALSE
    <2>1. Apart(s, t) /\ Seg(s) /\ Seg(t)
      BY <1>2 DEF FilesInv, FilesTyped
    <2> QED BY <1>2, <2>1 DEF Apart, IsNewer, Seg
  <1> QED BY <1>1, <1>2 DEF Newer

(* The repaired cursor.                                                     *)
LEMMA RepairedIs ==
    ASSUME FilesInv
    PROVE  /\ NoNewer <=> Newer = {}
           /\ NoNewer => Repaired = cursor
           /\ \A s \in history : IsNewer(s) =>
                 Repaired = [cursor EXCEPT !.archived = Hi(s), !.latest = s]
  <1>1. NoNewer <=> Newer = {}
    BY OneNewer DEF NoNewer
  <1>2. ASSUME NEW s \in history, IsNewer(s)
        PROVE  Repaired = [cursor EXCEPT !.archived = Hi(s), !.latest = s]
    <2>1. Newer = {s}
      BY <1>2, OneNewer
    <2>2. Seg(s)
      BY DEF FilesInv, FilesTyped
    <2>3. Lo(s) <= Lo(s)
      BY <2>2 DEF Seg
    <2>4. (CHOOSE last \in Newer : \A t \in Newer : Lo(t) <= Lo(last)) = s
      BY <2>1, <2>3
    <2> QED BY <2>1, <2>4 DEF Repaired
  <1>3. NoNewer => Repaired = cursor
    BY <1>1 DEF Repaired
  <1> QED BY <1>1, <1>2, <1>3

(* An opened journal is quiet.                                              *)
LEMMA OpenedQuiet ==
    ASSUME FilesInv, Newer = {}, Overlap(cursor) = {} PROVE Quiet
  <1>1. NoNewer
    BY RepairedIs
  <1>2. ASSUME live # Empty, Lo(live) # cursor.archived + 1 PROVE FALSE
    <2>1. cursor.archived > cursor.released /\ Lo(live) = Lo(cursor.latest)
      BY <1>1, <1>2 DEF FilesInv, Joins
    <2>2. Seg(live) /\ Seg(cursor.latest)
      BY <1>2, <2>1, LiveEmpty DEF FilesInv, FilesTyped, Tiled
    <2>3. Lo(live) \in DOMAIN live \cap DOMAIN cursor.latest
      BY <2>1, <2>2 DEF Seg
    <2>4. Latest(cursor) = cursor.latest
      BY <2>1, CursorType DEF Latest
    <2> QED BY <2>3, <2>4 DEF Overlap
  <1> QED BY <1>1, <1>2 DEF Quiet

-----------------------------------------------------------------------------
(* The ways a step changes the files.                                       *)

(* A step may leave the files, take up what a cut-off seal published, or    *)
(* take a published segment off the live file.                              *)
Still == UNCHANGED <<live, history, cursor>>

Repairs == ~NoNewer /\ cursor' = Repaired /\ UNCHANGED <<live, history>>

Shortens(s) ==
    /\ s \in history /\ UNCHANGED <<history, cursor>>
    /\ live # Empty /\ Lo(live) = Lo(s) /\ Hi(s) <= Hi(live)
    /\ IsNewer(s) \/ (NoNewer /\ s = cursor.latest /\ cursor.archived > cursor.released)
    /\ live' = Restrict(live, DOMAIN live \ DOMAIN s)

(* What is left of a file without its beginning.                            *)
LEMMA EndOf ==
    ASSUME NEW f, NEW s, Seg(f), Seg(s), Lo(f) = Lo(s), Hi(s) <= Hi(f), Hi(f) # Hi(s),
           NEW g, g = Restrict(f, (Hi(s) + 1)..Hi(f))
    PROVE  /\ Seg(g) /\ Lo(g) = Hi(s) + 1 /\ Hi(g) = Hi(f)
           /\ \A n \in DOMAIN g : g[n] = f[n]
  <1>1. Hi(s) + 1 \in Nat /\ Hi(f) \in Nat /\ Lo(f) <= Hi(s) + 1 /\ Hi(s) + 1 <= Hi(f)
    BY DEF Seg
  <1>2. /\ Seg(g) /\ Lo(g) = Hi(s) + 1 /\ Hi(g) = Hi(f) /\ DOMAIN g = (Hi(s) + 1)..Hi(f)
        /\ \A n \in DOMAIN g : g[n] = f[n]
    BY <1>1, RestrictSeg
  <1> QED BY <1>2

(* It may be nothing.                                                       *)
LEMMA RestIs ==
    ASSUME NEW f, NEW s, Seg(f), Seg(s), Lo(f) = Lo(s), Hi(s) <= Hi(f)
    PROVE  \E g : /\ g = Restrict(f, DOMAIN f \ DOMAIN s)
                 /\ \/ g = Empty /\ Hi(f) = Hi(s)
                    \/ /\ Seg(g) /\ Lo(g) = Hi(s) + 1 /\ Hi(g) = Hi(f)
                       /\ \A n \in DOMAIN g : g[n] = f[n]
  <1>1. DOMAIN f \ DOMAIN s = (Hi(s) + 1)..Hi(f)
    BY DEF Seg
  <1>2. CASE Hi(f) = Hi(s)
    <2>1. DOMAIN f \ DOMAIN s = {}
      BY <1>1, <1>2 DEF Seg
    <2>2. Restrict(f, DOMAIN f \ DOMAIN s) = Empty
      BY <2>1, RestrictEmpty
    <2> QED BY <1>2, <2>2
  <1>3. CASE Hi(f) # Hi(s)
    <2>1. PICK g : g = Restrict(f, (Hi(s) + 1)..Hi(f))
      OBVIOUS
    <2>2. /\ Seg(g) /\ Lo(g) = Hi(s) + 1 /\ Hi(g) = Hi(f)
          /\ \A n \in DOMAIN g : g[n] = f[n]
      BY <1>3, <2>1, EndOf
    <2>3. g = Restrict(f, DOMAIN f \ DOMAIN s)
      BY <1>1, <2>1
    <2> QED BY <2>2, <2>3
  <1> QED BY <1>2, <1>3

(* What is left of a file after its front part.                             *)
LEMMA RestOf ==
    ASSUME NEW f, NEW s, Seg(f), Seg(s), Lo(f) = Lo(s), Hi(s) <= Hi(f),
           NEW g, g = Restrict(f, DOMAIN f \ DOMAIN s)
    PROVE  \/ g = Empty /\ Hi(f) = Hi(s)
           \/ /\ Seg(g) /\ Lo(g) = Hi(s) + 1 /\ Hi(g) = Hi(f)
              /\ \A n \in DOMAIN g : g[n] = f[n]
  <1> QED BY RestIs

(* A repair only moves the cursor over the file that a seal left.           *)
LEMMA RepairsTo ==
    ASSUME FilesInv, Repairs, NEW s \in history, IsNewer(s)
    PROVE  /\ cursor' \in CursorRecord /\ cursor'.archived = Hi(s) /\ cursor'.latest = s
           /\ cursor'.released = cursor.released /\ history' = history /\ live' = live
           /\ Seg(s) /\ Lo(s) = cursor.archived + 1
           /\ \A t \in history : t # s => (IsStale(t) \/ IsActive(t))
           /\ NoNewer'
  <1>2. Seg(s) /\ s \in Segment /\ Hi(s) \in Sequence /\ Hi(s) \in Nat /\ Lo(s) <= Hi(s) /\ Lo(s) \in Nat
    BY SegType DEF FilesInv, FilesTyped, Seg
  <1>3. /\ cursor' \in CursorRecord /\ cursor'.archived = Hi(s) /\ cursor'.latest = s
        /\ cursor'.released = cursor.released /\ history' = history /\ live' = live
    <2>1. cursor' = [cursor EXCEPT !.archived = Hi(s), !.latest = s] /\ cursor \in CursorRecord
      BY RepairedIs DEF Repairs, FilesInv, FilesTyped
    <2> QED BY <2>1, <1>2 DEF CursorRecord, Repairs
  <1>4. \A t \in history : Seg(t)
    BY DEF FilesInv, FilesTyped
  <1>5. Lo(s) = cursor.archived + 1
    BY DEF IsNewer
  <1>6. \A t \in history : t # s => (IsStale(t) \/ IsActive(t))
    BY OneNewer DEF FilesInv, Tiled
  <1>7. NoNewer'
    <2> SUFFICES ASSUME NEW t \in history, Lo(t) = Hi(s) + 1 PROVE FALSE
      BY <1>3 DEF NoNewer, IsNewer
    <2>1. t # s
      BY <1>2
    <2>2. Seg(t) /\ Hi(t) <= cursor.archived
      <3>1. cursor.released <= cursor.archived /\ Seg(t)
        BY <1>4 DEF FilesInv, FilesTyped
      <3> QED BY <1>6, <2>1, <3>1, CursorType DEF IsStale, IsActive, Seg
    <2> QED BY <1>2, <1>5, <2>2, CursorType DEF Seg
  <1> QED BY <1>2, <1>3, <1>5, <1>6, <1>7

(* It leaves the files as an operation finds them.                          *)
LEMMA RepairsKeep == FilesInv /\ Repairs => FilesInv' /\ Stable
  <1> SUFFICES ASSUME FilesInv, Repairs PROVE FilesInv' /\ Stable
    OBVIOUS
  <1>1. PICK s \in history : IsNewer(s)
    BY DEF Repairs, NoNewer
  <1>2. Seg(s) /\ s \in Segment /\ Hi(s) \in Sequence /\ Hi(s) \in Nat /\ Lo(s) <= Hi(s) /\ Lo(s) \in Nat
    BY SegType DEF FilesInv, FilesTyped, Seg
  <1>3. /\ cursor' \in CursorRecord /\ cursor'.archived = Hi(s) /\ cursor'.latest = s
        /\ cursor'.released = cursor.released /\ history' = history /\ live' = live
    BY <1>1, RepairsTo
  <1>4. \A t \in history : Seg(t)
    BY DEF FilesInv, FilesTyped
  <1>5. Lo(s) = cursor.archived + 1
    BY <1>1 DEF IsNewer
  <1>6. \A t \in history : t # s => (IsStale(t) \/ IsActive(t))
    BY <1>1, RepairsTo
  <1>7. NoNewer'
    BY <1>1, RepairsTo
  <1>8. FilesTyped'
    BY <1>2, <1>3, <1>5, CursorType DEF FilesInv, FilesTyped
  <1>9. Tiled'
    <2>1. \A t \in history : IsStale(t)' \/ IsActive(t)'
      <3> SUFFICES ASSUME NEW t \in history PROVE Hi(t) <= cursor.released \/ IsActive(t)'
        BY <1>3 DEF IsStale
      <3>1. CASE t = s
        <4>1. cursor.released < Lo(s)
          BY <1>5, CursorType DEF FilesInv, FilesTyped
        <4> QED BY <1>2, <1>3, <3>1, <4>1 DEF IsActive
      <3>2. CASE t # s
        <4>1. IsStale(t) \/ IsActive(t)
          BY <1>6, <3>2
        <4>2. Hi(t) \in Nat /\ cursor.archived < Hi(s) /\ Hi(s) \in Nat
          BY <1>2, <1>4, <1>5, CursorType DEF Seg
        <4> QED BY <1>3, <4>1, <4>2, CursorType DEF IsStale, IsActive
      <3> QED BY <3>1, <3>2
    <2>2. ASSUME NEW n \in (cursor.released + 1)..Hi(s) PROVE \E t \in history : n \in DOMAIN t
      <3>1. CASE n <= cursor.archived
        BY <3>1, CursorType DEF FilesInv, Tiled
      <3>2. CASE n > cursor.archived
        <4>1. n \in Lo(s)..Hi(s)
          BY <1>2, <1>5, <3>2, CursorType
        <4> QED BY <1>2, <4>1 DEF Seg
      <3> QED BY <3>1, <3>2, CursorType
    <2> QED BY <1>3, <2>1, <2>2 DEF Tiled
  <1>10. Joins'
    <2> SUFFICES ASSUME live # Empty
                 PROVE  \/ Lo(live) = Hi(s) + 1
                        \/ Hi(s) > cursor.released /\ Lo(live) = Lo(s) /\ Hi(s) <= Hi(live)
      BY <1>3, <1>7 DEF Joins, NoNewer
    <2> QED BY <1>1, <1>2, <1>5, CursorType DEF FilesInv, Joins, FilesTyped
  <1>11. Stable
    <2>1. cursor.released <= cursor'.released /\ cursor.archived <= cursor'.archived
      BY <1>2, <1>3, <1>5, CursorType DEF FilesInv, FilesTyped
    <2>2. ASSUME NEW t, Seg(t), Cut(t) PROVE Cut(t)'
      BY <1>2, <1>3, <1>5, <2>2, CursorType DEF Cut, Seg
    <2>3. ASSUME NEW t, Seg(t), Published(t) PROVE Published(t)'
      BY <1>3, <2>3 DEF Published
    <2>4. ASSUME NEW n \in Nat, NEW x, Stored(n, x) PROVE Stored(n, x)'
      BY <1>3, <2>4 DEF Stored
    <2> QED BY <2>1, <2>2, <2>3, <2>4 DEF Stable
  <1> QED BY <1>8, <1>9, <1>10, <1>11 DEF FilesInv

(* The end of a seal takes off the live file what is in the history.        *)
LEMMA ShortensKeep == ASSUME NEW s, FilesInv, Shortens(s) PROVE FilesInv' /\ Stable
  <1>1. /\ Seg(live) /\ Seg(s) /\ live # Empty /\ Same(s, live)
        /\ s \in history /\ history' = history /\ cursor' = cursor
        /\ \A t \in history : Seg(t)
    BY LiveEmpty DEF Shortens, FilesInv, FilesTyped
  <1>2. \/ live' = Empty /\ Hi(live) = Hi(s)
        \/ /\ Seg(live') /\ Lo(live') = Hi(s) + 1 /\ Hi(live') = Hi(live)
           /\ \A n \in DOMAIN live' : live'[n] = live[n]
    BY <1>1, RestOf DEF Shortens
  <1>3. DOMAIN live' \subseteq DOMAIN live /\ \A n \in DOMAIN live' : live'[n] = live[n]
    <2>1. live' = Restrict(live, DOMAIN live \ DOMAIN s)
      BY DEF Shortens
    <2> QED BY <2>1 DEF Restrict
  <1>4. FilesTyped'
    <2>1. live' = Empty \/ Seg(live')
      BY <1>2
    <2>2. \A t \in history : Same(t, live')
      BY <1>3 DEF FilesInv, FilesTyped, Same
    <2> QED BY <1>1, <2>1, <2>2 DEF FilesInv, FilesTyped
  <1>5. Tiled'
    BY <1>1 DEF FilesInv, Tiled, IsStale, IsActive, IsNewer
  <1>6. Joins'
    <2> SUFFICES ASSUME live' # Empty
                 PROVE  /\ \A t \in history : IsNewer(t) => Lo(live') = Hi(t) + 1
                        /\ NoNewer => Lo(live') = cursor.archived + 1
      BY <1>1 DEF Joins, IsNewer, NoNewer
    <2>1. Lo(live') = Hi(s) + 1
      BY <1>2
    <2>2. CASE IsNewer(s)
      BY <1>1, <2>1, <2>2, OneNewer DEF NoNewer
    <2>3. CASE NoNewer /\ s = cursor.latest /\ cursor.archived > cursor.released
      BY <2>1, <2>3 DEF FilesInv, Tiled, NoNewer
    <2> QED BY <2>2, <2>3 DEF Shortens
  <1>7. Stable
    <2>1. ASSUME NEW t, Seg(t), Cut(t) PROVE Cut(t)'
      <3>1. live' # Empty => Hi(t) < Lo(live')
        <4>1. Hi(t) < Lo(s) /\ Hi(t) \in Nat /\ Lo(s) <= Hi(s) /\ Lo(s) \in Nat /\ Hi(s) \in Nat
          BY <1>1, <2>1 DEF Cut, Seg, Shortens
        <4> QED BY <1>2, <4>1
      <3> QED BY <1>1, <2>1, <3>1 DEF Cut
    <2>2. ASSUME NEW n \in Nat, NEW x, Stored(n, x) PROVE Stored(n, x)'
      <3>1. PICK f \in history \cup {live} : n \in DOMAIN f /\ f[n] = x
        BY <2>2 DEF Stored
      <3>2. CASE f \in history
        BY <1>1, <3>1, <3>2 DEF Stored
      <3>3. CASE f = live
        <4>1. CASE n \in DOMAIN s
          <5>1. s[n] = x
            BY <1>1, <3>1, <3>3, <4>1 DEF Same
          <5> QED BY <1>1, <4>1, <5>1 DEF Stored
        <4>2. CASE n \notin DOMAIN s
          <5>1. n \in DOMAIN live'
            BY <3>1, <3>3, <4>2 DEF Shortens, Restrict
          <5> QED BY <1>3, <3>1, <3>3, <5>1 DEF Stored
        <4> QED BY <4>1, <4>2
      <3> QED BY <3>1, <3>2, <3>3
    <2> QED BY <1>1, <2>1, <2>2, CursorType DEF Stable, Published
  <1> QED BY <1>4, <1>5, <1>6, <1>7 DEF FilesInv

(* Appending and sealing go on where the files end.                         *)
Extends(b) ==
    /\ Quiet /\ Seg(b) /\ Lo(b) <= next_sequence /\ next_sequence <= Hi(b)
    /\ live' = AppendedLive(b) /\ UNCHANGED <<history, cursor>>

(* A front part of the live file, which a seal publishes.                   *)
PrefixOf(s) == Seg(s) /\ Lo(s) = Lo(live) /\ Hi(s) <= Hi(live) /\ Same(s, live)

Publishes(s) ==
    /\ Quiet /\ live # Empty /\ PrefixOf(s)
    /\ history' = history \cup {s} /\ UNCHANGED <<live, cursor>>

(* Whole segments are released, and deleted afterwards.                     *)
Releases(n) ==
    /\ NoNewer
    /\ \E s \in history : Hi(s) = n /\ cursor.released < Lo(s) /\ Cut(s)
    /\ cursor' = ReleasedCursor(n) /\ UNCHANGED <<live, history>>

(* Released files are deleted.                                              *)
Drops(s) == IsStale(s) /\ history' = history \ {s} /\ UNCHANGED <<live, cursor>>

(* next_sequence is the number after the last message.                      *)
LEMMA NextIs ==
    ASSUME FilesInv
    PROVE  /\ next_sequence \in Nat
           /\ live = Empty => next_sequence = cursor.archived + 1
           /\ live # Empty => next_sequence = Hi(live) + 1
  BY LiveEmpty, CursorType DEF next_sequence, Seg

(* What an append writes.                                                   *)
LEMMA AppendedIs ==
    ASSUME FilesInv, Quiet, NEW b, Seg(b), Lo(b) <= next_sequence, next_sequence <= Hi(b),
           NEW g, g = AppendedLive(b)
    PROVE  /\ Seg(g) /\ Hi(g) = Hi(b)
           /\ Lo(g) = (IF live = Empty THEN cursor.archived + 1 ELSE Lo(live))
           /\ DOMAIN g = DOMAIN live \cup (next_sequence..Hi(b))
           /\ \A n \in DOMAIN live : g[n] = live[n]
           /\ \A n \in next_sequence..Hi(b) : n \in DOMAIN b /\ g[n] = b[n]
  <1> DEFINE new == Restrict(b, Unseen(b))
             next == next_sequence
  <1>0. next \in Nat /\ Hi(b) \in Nat /\ Lo(b) \in Nat /\ DOMAIN b = Lo(b)..Hi(b)
    BY NextIs DEF Seg
  <1>1. Unseen(b) = next..Hi(b)
    BY <1>0 DEF Unseen
  <1>2. new = Restrict(b, next..Hi(b))
    BY <1>1
  <1>u. AppendedLive(b) = Merge({live, new})
    BY DEF AppendedLive
  <1> HIDE DEF new, next
  <1>3. /\ Seg(new) /\ Lo(new) = next /\ Hi(new) = Hi(b) /\ DOMAIN new = next..Hi(b)
        /\ \A n \in next..Hi(b) : new[n] = b[n]
    <2>1. Lo(b) <= next /\ next <= Hi(b)
      BY DEF next
    <2> QED BY <1>0, <1>2, <2>1, RestrictSeg
  <1>4. \A n \in DOMAIN live : n \in Nat /\ n < next
    <2>1. DOMAIN live = {} \/ (Seg(live) /\ next = Hi(live) + 1)
      BY LiveEmpty, NextIs DEF next
    <2> QED BY <2>1 DEF Seg
  <1>5. Same(live, new) /\ Same(new, live) /\ Same(live, live) /\ Same(new, new)
    BY <1>0, <1>3, <1>4 DEF Same
  <1>6. /\ DOMAIN g = DOMAIN live \cup DOMAIN new
        /\ \A n \in DOMAIN live : g[n] = live[n]
        /\ \A n \in DOMAIN new : g[n] = new[n]
    <2>1. \A f, h \in {live, new} : Same(f, h)
      BY <1>5
    <2>2. /\ DOMAIN Merge({live, new}) = UNION {DOMAIN f : f \in {live, new}}
          /\ \A f \in {live, new} : \A n \in DOMAIN f : Merge({live, new})[n] = f[n]
      BY <2>1, MergeIs
    <2>3. g = Merge({live, new})
      BY <1>u
    <2> QED BY <2>2, <2>3
  <1>7. PICK a \in Nat : /\ a = (IF live = Empty THEN cursor.archived + 1 ELSE Lo(live))
                         /\ DOMAIN g = a..Hi(b) /\ a <= Hi(b)
    <2>1. CASE live = Empty
      <3>1. DOMAIN g = next..Hi(b)
        BY <1>3, <1>6, <2>1, EmptyFile
      <3>2. next = cursor.archived + 1 /\ next <= Hi(b)
        BY <2>1, NextIs DEF next
      <3> QED BY <1>0, <2>1, <3>1, <3>2
    <2>2. CASE live # Empty
      <3>1. Seg(live) /\ next = Hi(live) + 1 /\ next <= Hi(b)
        BY <2>2, NextIs, LiveEmpty DEF next
      <3>2. DOMAIN g = Lo(live)..Hi(b)
        BY <1>0, <1>3, <1>6, <3>1 DEF Seg
      <3> QED BY <1>0, <2>2, <3>1, <3>2 DEF Seg
    <2> QED BY <2>1, <2>2
  <1>8. DOMAIN g \subseteq Sequence /\ \A n \in DOMAIN g : g[n] \in Body
    <2>1. ASSUME NEW n \in DOMAIN live PROVE n \in Sequence /\ g[n] \in Body
      BY <1>6, LiveEmpty, EmptyFile DEF Seg
    <2>2. ASSUME NEW n \in DOMAIN new PROVE n \in Sequence /\ g[n] \in Body
      BY <1>3, <1>6 DEF Seg
    <2> QED BY <1>6, <2>1, <2>2
  <1>9. g \in [DOMAIN g -> Body]
    <2>1. g = [n \in DOMAIN g |-> g[n]]
      BY <1>u DEF Merge
    <2> QED BY <1>8, <2>1
  <1>10. Seg(g) /\ Lo(g) = a /\ Hi(g) = Hi(b)
    <2>1. g \in [a..Hi(b) -> Body] /\ a..Hi(b) \subseteq Sequence
      BY <1>7, <1>8, <1>9
    <2> QED BY <1>0, <1>7, <2>1, MakeSeg
  <1>11. \A n \in next..Hi(b) : n \in DOMAIN b /\ g[n] = b[n]
    <2>1. Lo(b) <= next
      BY DEF next
    <2> QED BY <1>0, <1>3, <1>6, <2>1
  <1> QED BY <1>3, <1>6, <1>7, <1>10, <1>11 DEF next

(* What is in a quiet journal's history is listed or released.              *)
LEMMA QuietPast ==
    ASSUME FilesInv, NoNewer
    PROVE  \A s \in history : Seg(s) /\ Hi(s) <= cursor.archived
  <1> SUFFICES ASSUME NEW s \in history PROVE Seg(s) /\ Hi(s) <= cursor.archived
    OBVIOUS
  <1>1. Seg(s) /\ cursor.released <= cursor.archived /\ (IsStale(s) \/ IsActive(s))
    BY DEF FilesInv, FilesTyped, Tiled, NoNewer
  <1> QED BY <1>1, CursorType DEF IsStale, IsActive, Seg

(* An append leaves every stored message where it is.                       *)
LEMMA ExtendsKeep == ASSUME NEW b, FilesInv, Extends(b) PROVE FilesInv' /\ Stable
  <1>1. /\ Seg(live') /\ Hi(live') = Hi(b)
        /\ Lo(live') = (IF live = Empty THEN cursor.archived + 1 ELSE Lo(live))
        /\ \A n \in DOMAIN live : n \in DOMAIN live' /\ live'[n] = live[n]
        /\ \A n \in next_sequence..Hi(b) : n \in DOMAIN b /\ live'[n] = b[n]
        /\ DOMAIN live' = DOMAIN live \cup (next_sequence..Hi(b))
    <2>1. Quiet /\ Seg(b) /\ Lo(b) <= next_sequence /\ next_sequence <= Hi(b)
      BY DEF Extends
    <2>2. PICK g : g = AppendedLive(b)
      OBVIOUS
    <2>3. /\ Seg(g) /\ Hi(g) = Hi(b)
          /\ Lo(g) = (IF live = Empty THEN cursor.archived + 1 ELSE Lo(live))
          /\ DOMAIN g = DOMAIN live \cup (next_sequence..Hi(b))
          /\ \A n \in DOMAIN live : g[n] = live[n]
          /\ \A n \in next_sequence..Hi(b) : n \in DOMAIN b /\ g[n] = b[n]
      BY <2>1, <2>2, AppendedIs
    <2>4. live' = g
      BY <2>2 DEF Extends
    <2> QED BY <2>3, <2>4
  <1>2. /\ history' = history /\ cursor' = cursor /\ NoNewer
        /\ live # Empty => Lo(live) = cursor.archived + 1
    BY DEF Extends, Quiet
  <1>3. Lo(live') = cursor.archived + 1
    BY <1>1, <1>2
  <1>4. \A s \in history : Seg(s) /\ Hi(s) <= cursor.archived
    BY <1>2, QuietPast
  <1>5. \A s \in history : Same(s, live')
    <2> SUFFICES ASSUME NEW s \in history, NEW n \in DOMAIN s \cap DOMAIN live' PROVE FALSE
      BY DEF Same
    <2>1. n \in Lo(s)..Hi(s) /\ n \in Lo(live')..Hi(live')
      BY <1>1, <1>4 DEF Seg
    <2> QED BY <1>3, <1>4, <2>1, CursorType DEF Seg
  <1>6. FilesTyped'
    BY <1>1, <1>2, <1>5 DEF FilesInv, FilesTyped
  <1>7. Tiled' /\ Joins'
    BY <1>2, <1>3 DEF FilesInv, Tiled, Joins, IsStale, IsActive, IsNewer, NoNewer
  <1>8. Stable
    <2>1. ASSUME NEW s, Seg(s), Cut(s) PROVE Cut(s)'
      <3>1. Hi(s) <= cursor.archived /\ Hi(s) \in Nat
        BY <2>1 DEF Cut, Seg
      <3> QED BY <1>2, <1>3, <3>1, CursorType DEF Cut
    <2>2. ASSUME NEW n \in Nat, NEW x, Stored(n, x) PROVE Stored(n, x)'
      BY <1>1, <1>2, <2>2 DEF Stored
    <2> QED BY <1>2, <2>1, <2>2, CursorType DEF Stable, Published
  <1> QED BY <1>6, <1>7, <1>8 DEF FilesInv

(* A published segment is a copy of what the live file begins with.         *)
LEMMA PublishesKeep == ASSUME NEW s, FilesInv, Publishes(s) PROVE FilesInv' /\ Stable
  <1>1. /\ history' = history \cup {s} /\ cursor' = cursor /\ live' = live
        /\ NoNewer /\ live # Empty /\ Lo(live) = cursor.archived + 1
        /\ Seg(s) /\ Lo(s) = Lo(live) /\ Hi(s) <= Hi(live) /\ Same(s, live) /\ Seg(live)
    BY LiveEmpty DEF Publishes, Quiet, PrefixOf
  <1>2. \A t \in history : Seg(t) /\ Hi(t) <= cursor.archived
    BY <1>1, QuietPast
  <1>3. \A t \in history : Apart(s, t) /\ Apart(t, s)
    BY <1>1, <1>2, CursorType DEF Apart, Seg
  <1>4. FilesTyped'
    BY <1>1, <1>3 DEF FilesInv, FilesTyped
  <1>5. Tiled'
    <2>1. IsNewer(s)
      BY <1>1 DEF IsNewer
    <2> QED BY <1>1, <2>1 DEF FilesInv, Tiled, IsStale, IsActive, IsNewer
  <1>6. Joins'
    <2>1. \A t \in history' : IsNewer(t)' => t = s
      BY <1>1 DEF NoNewer, IsNewer
    <2>2. ~NoNewer'
      BY <1>1 DEF NoNewer, IsNewer
    <2> QED BY <1>1, <2>1, <2>2 DEF Joins
  <1>7. Stable
    BY <1>1, CursorType DEF Stable, Cut, Published, Stored
  <1> QED BY <1>4, <1>5, <1>6, <1>7 DEF FilesInv

(* A release stops at the end of a segment.                                 *)
LEMMA ReleasesKeep == ASSUME NEW n, FilesInv, Releases(n) PROVE FilesInv' /\ Stable
  <1>1. PICK s \in history : Hi(s) = n /\ cursor.released < Lo(s) /\ Cut(s)
    BY DEF Releases
  <1>2. /\ Seg(s) /\ Lo(s) \in Nat /\ n \in Nat /\ Lo(s) <= n /\ n <= cursor.archived /\ n \in Sequence
        /\ live # Empty => n < Lo(live)
    BY <1>1, SegType DEF FilesInv, FilesTyped, Seg, Cut
  <1>3. /\ history' = history /\ live' = live /\ NoNewer /\ cursor' \in CursorRecord
        /\ cursor'.released = n /\ cursor'.archived = cursor.archived /\ cursor'.latest = cursor.latest
    BY <1>2 DEF Releases, ReleasedCursor, CursorRecord, FilesInv, FilesTyped
  <1>4. FilesTyped'
    BY <1>2, <1>3 DEF FilesInv, FilesTyped
  <1>5. NoNewer'
    BY <1>3 DEF NoNewer, IsNewer
  <1>6. ASSUME NEW t \in history PROVE IsStale(t)' \/ IsActive(t)'
    <2>1. Seg(t) /\ Hi(t) <= cursor.archived /\ (t = s \/ Apart(s, t))
      BY <1>3, QuietPast DEF FilesInv, FilesTyped
    <2> QED BY <1>1, <1>2, <1>3, <2>1, CursorType DEF Apart, IsStale, IsActive, Seg
  <1>7. Tiled'
    <2>1. \A i \in (n + 1)..cursor.archived : \E t \in history : i \in DOMAIN t
      <3> SUFFICES ASSUME NEW i \in (n + 1)..cursor.archived PROVE \E t \in history : i \in DOMAIN t
        OBVIOUS
      <3>1. i \in (cursor.released + 1)..cursor.archived
        BY <1>1, <1>2, CursorType
      <3> QED BY <3>1 DEF FilesInv, Tiled
    <2>2. cursor.archived > n => cursor.latest \in history /\ Hi(cursor.latest) = cursor.archived
      <3>1. cursor.archived > n => cursor.archived > cursor.released
        BY <1>1, <1>2, CursorType
      <3> QED BY <3>1 DEF FilesInv, Tiled
    <2> QED BY <1>3, <1>6, <2>1, <2>2 DEF Tiled
  <1>8. Joins'
    <2> SUFFICES ASSUME live # Empty
                 PROVE  \/ Lo(live) = cursor.archived + 1
                        \/ /\ cursor.archived > n
                           /\ Lo(live) = Lo(cursor.latest) /\ cursor.archived <= Hi(live)
      BY <1>3, <1>5 DEF Joins, NoNewer
    <2>1. CASE /\ cursor.archived > cursor.released
               /\ Lo(live) = Lo(cursor.latest) /\ cursor.archived <= Hi(live)
      <3>1. Seg(cursor.latest) /\ Hi(cursor.latest) = cursor.archived
        BY <2>1 DEF FilesInv, FilesTyped, Tiled
      <3> QED BY <1>2, <2>1, <3>1, CursorType DEF Seg
    <2> QED BY <1>3, <2>1 DEF FilesInv, Joins
  <1>9. Stable
    <2>1. cursor.released < n
      BY <1>1, <1>2, CursorType
    <2>2. \A t : Seg(t) /\ Published(t) => Published(t)'
      BY <1>2, <1>3, <2>1, CursorType DEF Published, Seg
    <2> QED BY <1>2, <1>3, <2>1, <2>2, CursorType DEF Stable, Cut, Stored
  <1> QED BY <1>4, <1>7, <1>8, <1>9 DEF FilesInv

(* Only files of released messages are deleted.                             *)
LEMMA DropsKeep == ASSUME NEW s, FilesInv, Drops(s), Seg(s) PROVE FilesInv' /\ Stable
  <1>1. /\ history' = history \ {s} /\ live' = live /\ cursor' = cursor
        /\ Hi(s) <= cursor.released /\ cursor.released <= cursor.archived
    BY DEF Drops, IsStale, FilesInv, FilesTyped
  <1>2. FilesTyped'
    BY <1>1 DEF FilesInv, FilesTyped
  <1>3. \A n \in DOMAIN s : n <= cursor.released
    BY <1>1, CursorType DEF Seg
  <1>4. Tiled'
    <2>1. \A n \in (cursor.released + 1)..cursor.archived : \E t \in history \ {s} : n \in DOMAIN t
      BY <1>3, CursorType DEF FilesInv, Tiled
    <2>2. cursor.archived > cursor.released => cursor.latest # s
      BY <1>1, CursorType DEF FilesInv, Tiled, Seg
    <2> QED BY <1>1, <2>1, <2>2 DEF FilesInv, Tiled, IsStale, IsActive, IsNewer
  <1>5. Joins'
    <2>1. NoNewer' => NoNewer
      BY <1>1, CursorType DEF NoNewer, IsNewer, Seg
    <2> QED BY <1>1, <2>1 DEF FilesInv, Joins, IsNewer
  <1>6. Stable
    <2>1. ASSUME NEW n \in Nat, NEW x, n > cursor.released, Stored(n, x) PROVE Stored(n, x)'
      BY <1>1, <1>3, <2>1, CursorType DEF Stored
    <2> QED BY <1>1, <2>1, CursorType DEF Stable, Cut, Published
  <1> QED BY <1>2, <1>4, <1>5, <1>6 DEF FilesInv

(* The files do not change.                                                 *)
LEMMA StillKeep == FilesInv /\ Still => FilesInv' /\ Stable
  <1> SUFFICES ASSUME FilesInv, Still PROVE FilesInv' /\ Stable
    OBVIOUS
  <1>1. live' = live /\ history' = history /\ cursor' = cursor
    BY DEF Still
  <1>2. FilesTyped' /\ Tiled' /\ Joins'
    BY <1>1 DEF FilesInv, FilesTyped, Tiled, Joins, IsStale, IsActive, IsNewer, NoNewer
  <1>3. Stable
    BY <1>1, CursorType DEF Stable, Cut, Published, Stored
  <1> QED BY <1>2, <1>3 DEF FilesInv

-----------------------------------------------------------------------------
(* The callers.                                                             *)

(* The phases, and the records a caller is in.                              *)
Phase == Holding \cup {"idle", "listing", "completing", "boundary", "lost", "sealed", "enqueued", "chosen"}

CallerRecord ==
    [phase : Phase, req : Request \cup {Idle.req}, through : Sequence \cup {0},
     seg : File, job : File, why : {"new", "complete", "exhausted", "recover"},
     todo : SUBSET [seg : File, exhausted : BOOLEAN], checked : BOOLEAN, completed : BOOLEAN]

(* Who does what.                                                           *)
Foregrounding == {"append", "prepared", "written", "plan", "listing", "completing", "read",
                  "boundary", "seal", "staging", "lost", "staged", "created", "trimmed",
                  "sealed", "enqueued", "idle"}
Role(c, v) ==
    /\ c \in Foreground => /\ v.phase \in Foregrounding /\ v.why # "recover"
                           /\ v.phase = "read" => v.why # "new"
    /\ c = "worker" => /\ v.phase \in {"idle", "read", "boundary", "seal", "created", "trimmed", "sealed"}
                       /\ v.phase # "idle" => v.why = "recover"
    /\ c = "keeper" => v.phase \in {"idle", "list", "purge", "chosen", "release", "unlink"}

(* What a caller remembers of the files is still so.                        *)
Remembers(v) ==
    /\ v.phase \in {"staging", "lost", "staged", "created", "trimmed", "sealed", "enqueued"} => Seg(v.seg)
    /\ v.phase # "idle" /\ v.why # "new" => Seg(v.job)
    /\ \A t \in v.todo : Seg(t.seg)
    /\ v.phase \in {"append", "prepared", "written"} => v.req \in Request

(* What the files look like while its operation runs under the lock.        *)
Relies(v) ==
    /\ v.phase \in {"prepared", "written"} => Quiet
    /\ v.phase \in {"staging", "staged"} => Quiet /\ live # Empty /\ PrefixOf(v.seg)
    /\ v.phase = "created" =>
          /\ v.seg \in history /\ IsNewer(v.seg)
          /\ live # Empty /\ Lo(live) = Lo(v.seg)
    /\ v.phase = "trimmed" =>
          /\ v.seg \in history /\ (IsNewer(v.seg) \/ (NoNewer /\ Hi(v.seg) = cursor.archived))
          /\ live # Empty => Hi(v.seg) < Lo(live)

(* What stays true after the lock is free.                                  *)
Knows(v) ==
    /\ v.phase \in {"sealed", "enqueued"} => Cut(v.seg) /\ Published(v.seg)
    /\ v.phase \in {"chosen", "release"} =>
          \E s \in history : Hi(s) = v.through /\ cursor.released < Lo(s) /\ Cut(s)
    /\ v.phase = "unlink" => \A t \in v.todo : Hi(t.seg) <= cursor.released

(* A caller in the middle of its operation.                                 *)
Doing(v) == Remembers(v) /\ Relies(v) /\ Knows(v)

(* The lock of the conversation has one holder.                             *)
Exclusive ==
    \A c, d \in Caller : callers[c].phase \in Holding /\ callers[d].phase \in Holding => c = d

(* The invariant of the callers.                                            *)
CallersInv ==
    /\ callers \in [Caller -> CallerRecord]
    /\ Exclusive
    /\ \A c \in Caller : Role(c, callers[c]) /\ Doing(callers[c])

(* What a job goes through.                                                 *)
JobStatus == {"STAGED", "QUEUED", "FAILED", "BLOCKED", "COMMITTED"}

(* A job runs only for a segment that is published and off the live file.   *)
JobsInv ==
    /\ jobs \in [DOMAIN jobs -> JobStatus] /\ \A s \in DOMAIN jobs : Seg(s)
    /\ \A s \in DOMAIN jobs : jobs[s] \in {"QUEUED", "BLOCKED", "COMMITTED"} => Cut(s) /\ Published(s)

(* The invariant.                                                           *)
DiskInv == FilesInv /\ CallersInv /\ JobsInv

-----------------------------------------------------------------------------
(* What a step does to the files, and who may do it.                        *)
Move(d) ==
    \/ Still
    \/ /\ callers[d].phase \in Holding
       /\ \/ Repairs
          \/ \E s : Shortens(s)
          \/ \E b : Extends(b)
          \/ \E s : Publishes(s)
          \/ d = "keeper" /\ \E n : Releases(n)
          \/ d = "keeper" /\ \E s : Seg(s) /\ Drops(s)

(* Every move of a caller keeps the shape of the files and what the others  *)
(* know.                                                                    *)
LEMMA MoveKeeps == ASSUME NEW d, FilesInv, Move(d) PROVE FilesInv' /\ Stable
  BY StillKeep, RepairsKeep, ShortensKeep, ExtendsKeep, PublishesKeep, ReleasesKeep,
     DropsKeep DEF Move

(* Only the keeper releases and deletes.                                    *)
LEMMA MoveOthers ==
    ASSUME NEW d, FilesInv, Move(d), d # "keeper"
    PROVE  history \subseteq history' /\ cursor'.released = cursor.released
  <1>1. CASE Repairs
    <2>1. PICK s \in history : IsNewer(s)
      BY <1>1 DEF Repairs, NoNewer
    <2>2. cursor' = [cursor EXCEPT !.archived = Hi(s), !.latest = s] /\ cursor \in CursorRecord
      BY <1>1, <2>1, RepairedIs DEF Repairs, FilesInv, FilesTyped
    <2> QED BY <1>1, <2>2 DEF CursorRecord, Repairs
  <1> QED BY <1>1 DEF Move, Still, Shortens, Extends, Publishes

(* What a caller knows survives what the others do.                         *)
LEMMA KnowsKept ==
    ASSUME FilesInv, Stable, NEW v, Remembers(v), Knows(v),
           history \subseteq history', cursor'.released = cursor.released
    PROVE  Knows(v)'
  <1>1. v.phase \in {"sealed", "enqueued"} => (Cut(v.seg) /\ Published(v.seg))'
    BY DEF Knows, Remembers, Stable
  <1>2. ASSUME NEW s \in history, Cut(s) PROVE Cut(s)'
    <2>1. Seg(s)
      BY DEF FilesInv, FilesTyped
    <2> QED BY <1>2, <2>1 DEF Stable
  <1> QED BY <1>1, <1>2 DEF Knows

(* A step of one caller: it moves the files if it holds the lock, takes     *)
(* the lock when it is free, and is then somewhere in its operation.        *)
Step(d) ==
    /\ callers' \in [Caller -> CallerRecord] /\ \A c \in Caller \ {d} : callers'[c] = callers[c]
    /\ Move(d)
    /\ callers'[d].phase \in Holding => callers[d].phase \in Holding \/ Free(d)
    /\ Role(d, callers'[d]) /\ Doing(callers[d])'

(* A step keeps the files and what every caller remembers: either the step  *)
(* is the caller's own, or the mover holds the lock and the caller does     *)
(* not.                                                                     *)
LEMMA StepKeeps == ASSUME NEW d \in Caller, DiskInv, Step(d) PROVE FilesInv' /\ CallersInv'
  <1>0. FilesInv' /\ Stable
    BY MoveKeeps DEF DiskInv, Step
  <1>1. Exclusive'
    <2> SUFFICES ASSUME NEW a \in Caller, NEW b \in Caller, a # b,
                        callers'[a].phase \in Holding, callers'[b].phase \in Holding
                 PROVE  FALSE
      BY DEF Exclusive
    <2> QED BY DEF DiskInv, CallersInv, Exclusive, Step, Free
  <1>2. ASSUME NEW c \in Caller, c # d PROVE Role(c, callers'[c]) /\ Doing(callers[c])'
    <2>1. callers'[c] = callers[c] /\ Role(c, callers[c]) /\ Doing(callers[c])
      BY <1>2 DEF Step, DiskInv, CallersInv
    <2>2. PICK v : v = callers[c]
      OBVIOUS
    <2>3. Role(c, callers'[c])
      BY <2>1
    <2>4. Remembers(v)
      BY <2>1, <2>2 DEF Doing
    <2>5. Relies(v)'
      <3>1. CASE Still
        BY <2>1, <2>2, <3>1 DEF Still, Doing, Relies, Quiet, NoNewer, IsNewer, PrefixOf
      <3>2. CASE callers[d].phase \in Holding
        <4>1. v.phase \notin Holding
          BY <1>2, <2>2, <3>2 DEF DiskInv, CallersInv, Exclusive
        <4> QED BY <4>1 DEF Relies, Holding, Fenced
      <3> QED BY <3>1, <3>2 DEF Step, Move
    <2>6. Knows(v)'
      <3>1. Knows(v)
        BY <2>1, <2>2 DEF Doing
      <3>2. v.phase \in {"sealed", "enqueued"} => (Cut(v.seg) /\ Published(v.seg))'
        BY <1>0, <2>4, <3>1 DEF Knows, Remembers, Stable
      <3>3. CASE d = "keeper"
        <4>1. v.phase \notin {"chosen", "release", "unlink"}
          BY <1>2, <2>1, <2>2, <3>3 DEF Role, Caller, Foregrounding
        <4> QED BY <3>2, <4>1 DEF Knows
      <3>4. CASE d # "keeper"
        <4>1. history \subseteq history' /\ cursor'.released = cursor.released
          BY <3>4, MoveOthers DEF Step, DiskInv
        <4> QED BY <1>0, <2>4, <3>1, <4>1, KnowsKept DEF DiskInv
      <3> QED BY <3>3, <3>4
    <2> QED BY <2>1, <2>2, <2>3, <2>4, <2>5, <2>6 DEF Doing
  <1> QED BY <1>0, <1>1, <1>2 DEF CallersInv, Step

(* An idle caller owes nothing and knows nothing.                           *)
LEMMA IdleIs ==
    /\ Idle \in CallerRecord /\ Idle.phase = "idle" /\ Idle.why = "new" /\ Idle.todo = {}
    /\ ~Idle.checked /\ Doing(Idle)
    /\ \A c : Role(c, Idle)
  <1>1. Idle \in CallerRecord
    BY DEF Idle, CallerRecord, Phase, File
  <1>2. Idle.phase = "idle" /\ Idle.why = "new" /\ Idle.todo = {} /\ ~Idle.checked
    BY DEF Idle
  <1>3. Doing(Idle)
    BY <1>2 DEF Doing, Remembers, Relies, Knows
  <1> QED BY <1>1, <1>2, <1>3 DEF Role, Foregrounding

(* A caller that goes on to v while it moves the files.                     *)
LEMMA GoStep ==
    ASSUME DiskInv, NEW d \in Caller, NEW v \in CallerRecord, Go(d, v), Move(d),
           v.phase \in Holding => callers[d].phase \in Holding \/ Free(d),
           Role(d, v), Doing(v)'
    PROVE  Step(d)
  <1>1. callers \in [Caller -> CallerRecord] /\ callers' = [callers EXCEPT ![d] = v]
    BY DEF DiskInv, CallersInv, Go
  <1>2. callers' \in [Caller -> CallerRecord] /\ callers'[d] = v
        /\ \A c \in Caller \ {d} : callers'[c] = callers[c]
    BY <1>1
  <1>3. Doing(callers[d])'
    BY <1>2
  <1> QED BY <1>2, <1>3 DEF Step

(* A step that leaves the files alone changes nothing a caller knows.       *)
LEMMA StillDoing == ASSUME NEW v, Still, Doing(v) PROVE Doing(v)'
  BY DEF Still, Doing, Remembers, Relies, Knows, Quiet, NoNewer, IsNewer, PrefixOf,
     Cut, Published

(* A caller that goes on while the files stay.                              *)
LEMMA GoStill ==
    ASSUME DiskInv, NEW d \in Caller, NEW v \in CallerRecord, Go(d, v), Still,
           v.phase \in Holding => callers[d].phase \in Holding \/ Free(d),
           Role(d, v), Doing(v)
    PROVE  Step(d)
  BY GoStep, StillDoing DEF Move

(* Returning is a step.                                                     *)
LEMMA ReturnStep == ASSUME DiskInv, NEW d \in Caller, Return(d), Move(d) PROVE Step(d)
  <1>1. Doing(Idle)'
    BY IdleIs DEF Doing, Remembers, Relies, Knows
  <1>2. "idle" \notin Holding
    BY DEF Holding, Fenced
  <1> QED BY <1>1, <1>2, IdleIs, GoStep DEF Return

(* A caller that stays where it is.                                         *)
LEMMA StayStep ==
    ASSUME DiskInv, NEW d \in Caller, callers' = callers, Move(d), Doing(callers[d])' PROVE Step(d)
  BY DEF DiskInv, CallersInv, Step

(* What happens to the jobs.                                                *)
Jobbed ==
    /\ jobs' \in [DOMAIN jobs' -> JobStatus] /\ \A s \in DOMAIN jobs' : Seg(s)
    /\ \A s \in DOMAIN jobs' : jobs'[s] \in {"QUEUED", "BLOCKED", "COMMITTED"} =>
          \/ s \in DOMAIN jobs /\ jobs[s] \in {"QUEUED", "BLOCKED", "COMMITTED"}
          \/ Cut(s) /\ Published(s)

(* Untouched jobs are as they should be.                                    *)
LEMMA JobsSame == DiskInv /\ UNCHANGED jobs => Jobbed
  BY DEF DiskInv, JobsInv, Jobbed

(* Files only move on: a job that was allowed to run still is.              *)
LEMMA JobbedKeeps == DiskInv /\ Stable /\ Jobbed => JobsInv'
  <1> SUFFICES ASSUME DiskInv, Stable, Jobbed PROVE JobsInv'
    OBVIOUS
  <1>1. ASSUME NEW s \in DOMAIN jobs', jobs'[s] \in {"QUEUED", "BLOCKED", "COMMITTED"}
        PROVE  (Cut(s) /\ Published(s))'
    <2>1. Seg(s) /\ Cut(s) /\ Published(s)
      BY <1>1 DEF Jobbed, DiskInv, JobsInv
    <2> QED BY <2>1 DEF Stable
  <1> QED BY <1>1 DEF Jobbed, JobsInv

(* The invariant of the disk is kept, one caller's step at a time.          *)
LEMMA StepInv == ASSUME NEW d \in Caller, DiskInv, Step(d), Jobbed PROVE DiskInv'
  BY StepKeeps, MoveKeeps, JobbedKeeps DEF DiskInv, Step

(* A caller that only changes its phase keeps the rest of what it knows.    *)
LEMMA PhaseRecord ==
    ASSUME NEW v \in CallerRecord, NEW p \in Phase, NEW u, u = [v EXCEPT !.phase = p]
    PROVE  /\ u \in CallerRecord /\ u.phase = p /\ u.req = v.req /\ u.through = v.through
           /\ u.seg = v.seg /\ u.job = v.job /\ u.why = v.why /\ u.todo = v.todo
           /\ u.checked = v.checked
  BY DEF CallerRecord

(* What the invariant says of one caller.                                   *)
LEMMA Known ==
    ASSUME DiskInv, NEW c \in Caller
    PROVE  /\ callers[c] \in CallerRecord /\ Role(c, callers[c])
           /\ Remembers(callers[c]) /\ Relies(callers[c]) /\ Knows(callers[c])
           /\ FilesInv
  BY DEF DiskInv, CallersInv, Doing

(* The roles are told apart by the caller's name.                           *)
LEMMA Names ==
    /\ \A c \in Foreground : c \in Caller /\ c # "worker" /\ c # "keeper"
    /\ "worker" \in Caller /\ "keeper" \in Caller /\ "worker" \notin Foreground /\ "keeper" \notin Foreground
  BY JournalConstants DEF Caller

-----------------------------------------------------------------------------
(* append *)

LEMMA StartAppendStep ==
    ASSUME DiskInv, NEW c \in Foreground, NEW r \in Request, StartAppend(c, r) PROVE Step(c) /\ Jobbed
  <1>1. PICK v : v = [Idle EXCEPT !.phase = "append", !.req = r]
    OBVIOUS
  <1>2. /\ v \in CallerRecord /\ v.phase = "append" /\ v.req = r /\ v.why = "new" /\ v.todo = {}
    BY <1>1, IdleIs DEF CallerRecord, Phase, Holding, Fenced, Idle
  <1>3. Doing(v)
    BY <1>2 DEF Doing, Remembers, Relies, Knows
  <1>4. Role(c, v)
    BY <1>2, Names DEF Role, Foregrounding
  <1>5. Go(c, v) /\ Still /\ Free(c) /\ UNCHANGED jobs
    BY <1>1 DEF StartAppend, Still, disk
  <1> QED BY <1>2, <1>3, <1>4, <1>5, Names, GoStill, JobsSame

(* append of a delivery whose receipt is committed touches no file.         *)
LEMMA AppendKnownStep ==
    ASSUME DiskInv, NEW c \in Foreground, AppendKnown(c) \/ AppendRefused(c) PROVE Step(c) /\ Jobbed
  <1>1. Return(c) /\ Still /\ UNCHANGED jobs
    BY DEF AppendKnown, AppendRefused, Still, disk
  <1> QED BY <1>1, Names, ReturnStep, JobsSame DEF Move

(* append first repairs the archive, then writes the prepared receipt.      *)
LEMMA PrepareStep ==
    ASSUME DiskInv, NEW c \in Foreground, Prepare(c) PROVE Step(c) /\ Jobbed
  <1>1. PICK v : v = [callers[c] EXCEPT !.phase = "prepared"]
    OBVIOUS
  <1>2. callers[c].phase = "append" /\ Go(c, v) /\ Still /\ UNCHANGED jobs /\ Opened
    BY <1>1 DEF Prepare, Still
  <1>3. /\ v \in CallerRecord /\ v.phase = "prepared" /\ v.req = callers[c].req /\ v.seg = callers[c].seg
        /\ v.job = callers[c].job /\ v.why = callers[c].why /\ v.todo = callers[c].todo
    <2>1. callers[c] \in CallerRecord
      BY Names, Known
    <2>2. "prepared" \in Phase
      BY DEF Phase, Holding, Fenced
    <2> QED BY <1>1, <2>1, <2>2, PhaseRecord
  <1>4. Quiet
    BY <1>2, Names, Known, OpenedQuiet DEF Opened, Loaded
  <1>5. Doing(v)
    BY <1>2, <1>3, <1>4, Names, Known DEF Doing, Remembers, Relies, Knows
  <1>6. Role(c, v)
    BY <1>3, Names, Known DEF Role, Foregrounding
  <1>7. callers[c].phase \in Holding
    BY <1>2 DEF Holding, Fenced
  <1> QED BY <1>2, <1>3, <1>5, <1>6, <1>7, Names, GoStill, JobsSame

(* The live file is replaced by one that continues it.                      *)
LEMMA WriteLiveStep ==
    ASSUME DiskInv, NEW c \in Foreground, WriteLive(c) PROVE Step(c) /\ Jobbed
  <1> DEFINE b == callers[c].req.batch
  <1>1. PICK v : v = [callers[c] EXCEPT !.phase = "written"]
    OBVIOUS
  <1>2. /\ callers[c].phase = "prepared" /\ Acceptable(b) /\ Go(c, v) /\ UNCHANGED <<history, cursor, jobs>>
        /\ live' = IF Unseen(b) = {} THEN live ELSE AppendedLive(b)
    BY <1>1 DEF WriteLive
  <1>3. /\ v \in CallerRecord /\ v.phase = "written" /\ v.req = callers[c].req /\ v.seg = callers[c].seg
        /\ v.job = callers[c].job /\ v.why = callers[c].why /\ v.todo = callers[c].todo
    <2>1. callers[c] \in CallerRecord
      BY Names, Known
    <2>2. "written" \in Phase
      BY DEF Phase, Holding, Fenced
    <2> QED BY <1>1, <2>1, <2>2, PhaseRecord
  <1>4. Quiet /\ Seg(b) /\ FilesInv
    BY <1>2, Names, Known, BatchSeg DEF Relies, Remembers
  <1>5. Lo(b) <= next_sequence /\ next_sequence \in Nat
    BY <1>2, <1>4, NextIs DEF Acceptable
  <1>6. callers[c].phase \in Holding
    BY <1>2 DEF Holding, Fenced
  <1>7. Move(c) /\ Quiet'
    <2>1. CASE Unseen(b) = {}
      BY <1>2, <1>4, <2>1 DEF Move, Still, Quiet, NoNewer, IsNewer
    <2>2. CASE Unseen(b) # {}
      <3>1. next_sequence <= Hi(b)
        BY <1>4, <1>5, <2>2 DEF Unseen, Seg
      <3>2. Extends(b)
        BY <1>2, <1>4, <1>5, <2>2, <3>1 DEF Extends
      <3>3. Lo(live') = IF live = Empty THEN cursor.archived + 1 ELSE Lo(live)
        BY <1>2, <1>4, <1>5, <2>2, <3>1, AppendedIs
      <3>4. Quiet'
        BY <1>2, <1>4, <3>3 DEF Quiet, NoNewer, IsNewer
      <3> QED BY <1>6, <3>2, <3>4 DEF Move
    <2> QED BY <2>1, <2>2
  <1>8. Doing(v)'
    BY <1>2, <1>3, <1>7, Names, Known DEF Doing, Remembers, Relies, Knows
  <1>9. Role(c, v)
    BY <1>3, Names, Known DEF Role, Foregrounding
  <1> QED BY <1>2, <1>3, <1>6, <1>7, <1>8, <1>9, Names, GoStep, JobsSame

(* The committed receipt ends the append.                                   *)
LEMMA CommitReceiptStep ==
    ASSUME DiskInv, NEW c \in Foreground, CommitReceipt(c) PROVE Step(c) /\ Jobbed
  <1>1. Return(c) /\ Still /\ UNCHANGED jobs
    BY DEF CommitReceipt, Still
  <1> QED BY <1>1, Names, ReturnStep, JobsSame DEF Move

-----------------------------------------------------------------------------
(* enqueue_ready_segments                                                   *)

(* A caller that is at the beginning of something.                          *)
LEMMA BeginStep ==
    ASSUME DiskInv, NEW c \in Caller, NEW v \in CallerRecord, Go(c, v), Still,
           v.phase \in Holding => callers[c].phase \in Holding \/ Free(c),
           v.phase \in {"plan", "boundary", "listing", "completing", "read", "seal", "list", "purge"},
           v.why # "new" => Seg(v.job), \A t \in v.todo : Seg(t.seg),
           Role(c, v)
    PROVE  Step(c)
  <1>1. Doing(v)
    BY DEF Doing, Remembers, Relies, Knows
  <1> QED BY <1>1, GoStill

(* A pass starts without touching a file.                                   *)
LEMMA StartPassStep ==
    ASSUME DiskInv, NEW c \in Foreground, StartPass(c) PROVE Step(c) /\ Jobbed
  <1>1. PICK v : v = [Idle EXCEPT !.phase = "plan"]
    OBVIOUS
  <1>2. v \in CallerRecord /\ v.phase = "plan" /\ v.why = "new" /\ v.todo = {}
    BY <1>1, IdleIs DEF CallerRecord, Phase, Holding, Fenced, Idle
  <1>3. Role(c, v)
    BY <1>2, Names DEF Role, Foregrounding
  <1>4. Go(c, v) /\ Still /\ Free(c) /\ UNCHANGED jobs
    BY <1>1 DEF StartPass, Still, disk
  <1> QED BY <1>2, <1>3, <1>4, Names, BeginStep, JobsSame

(* plan_seal reads, and repairs what a cut-off seal left.                   *)
LEMMA PlanStep ==
    ASSUME DiskInv, NEW c \in Foreground, Plan(c) PROVE Step(c) /\ Jobbed
  <1>1. CASE Return(c)
    <2>1. Still /\ UNCHANGED jobs
      BY DEF Plan, Still, disk
    <2> QED BY <1>1, <2>1, Names, ReturnStep, JobsSame DEF Move
  <1>2. ASSUME NEW n \in DOMAIN live, NEW p, p \in {"boundary", "listing"},
               Go(c, [callers[c] EXCEPT !.phase = p, !.through = n])
        PROVE  Step(c) /\ Jobbed
    <2>1. PICK v : v = [callers[c] EXCEPT !.phase = p, !.through = n]
      OBVIOUS
    <2>2. n \in Sequence
      BY Names, Known, LiveEmpty DEF Seg
    <2>3. /\ v \in CallerRecord /\ v.phase = p
          /\ v.job = callers[c].job /\ v.why = callers[c].why /\ v.todo = callers[c].todo
      BY <1>2, <2>1, <2>2, Names, Known DEF CallerRecord, Phase
    <2>4. callers[c].phase = "plan" /\ Still /\ UNCHANGED jobs
      BY DEF Plan, Still, disk
    <2>5. Role(c, v)
      BY <1>2, <2>3, Names, Known DEF Role, Foregrounding
    <2>6. Remembers(callers[c])
      BY Names, Known
    <2>7. callers[c].phase \in Holding
      BY <2>4 DEF Holding, Fenced
    <2>8. (v.why # "new" => Seg(v.job)) /\ \A t \in v.todo : Seg(t.seg)
      BY <2>3, <2>4, <2>6 DEF Remembers
    <2>9. Go(c, v)
      BY <1>2, <2>1
    <2> QED BY <1>2, <2>3, <2>4, <2>5, <2>7, <2>8, <2>9, Names, BeginStep, JobsSame
  <1>3. Return(c) \/ \E n \in DOMAIN live :
           Go(c, [callers[c] EXCEPT !.phase = IF callers[c].checked THEN "boundary" ELSE "listing",
                                    !.through = n])
    BY DEF Plan
  <1>4. (IF callers[c].checked THEN "boundary" ELSE "listing") \in {"boundary", "listing"}
    OBVIOUS
  <1> QED BY <1>1, <1>2, <1>3, <1>4

(* The staged jobs are listed.                                              *)
LEMMA ListStagedStep ==
    ASSUME DiskInv, NEW c \in Foreground, ListStaged(c) PROVE Step(c) /\ Jobbed
  <1>1. PICK u : u = {[seg |-> s, exhausted |-> jobs[s] = "FAILED"] : s \in Unfinished}
    OBVIOUS
  <1>2. PICK v : v = [callers[c] EXCEPT !.phase = "completing", !.checked = TRUE, !.todo = u]
    OBVIOUS
  <1>3. callers[c].phase = "listing" /\ Go(c, v) /\ Still /\ UNCHANGED jobs
    BY <1>1, <1>2 DEF ListStaged, Still, disk
  <1>4. \A t \in u : Seg(t.seg) /\ t \in [seg : File, exhausted : BOOLEAN]
    <2>1. \A s \in Unfinished : Seg(s) /\ s \in File
      BY SegType DEF DiskInv, JobsInv, Unfinished, File
    <2>2. ASSUME NEW t \in u PROVE Seg(t.seg) /\ t \in [seg : File, exhausted : BOOLEAN]
      <3>1. PICK s \in Unfinished : t = [seg |-> s, exhausted |-> jobs[s] = "FAILED"]
        BY <1>1
      <3>2. t.seg = s
        BY <3>1
      <3>3. t \in [seg : File, exhausted : BOOLEAN]
        BY <2>1, <3>1
      <3> QED BY <2>1, <3>2, <3>3
    <2> QED BY <2>2
  <1>5. /\ v \in CallerRecord /\ v.phase = "completing" /\ v.todo = u
        /\ v.job = callers[c].job /\ v.why = callers[c].why
    <2>1. u \in SUBSET [seg : File, exhausted : BOOLEAN]
      BY <1>4
    <2> QED BY <1>2, <2>1, Names, Known DEF CallerRecord, Phase
  <1>6. Role(c, v)
    BY <1>5, Names, Known DEF Role, Foregrounding
  <1>7. v.why # "new" => Seg(v.job)
    BY <1>3, <1>5, Names, Known DEF Remembers
  <1>8. v.phase \notin Holding
    BY <1>5 DEF Holding, Fenced
  <1> QED BY <1>3, <1>4, <1>5, <1>6, <1>7, <1>8, Names, BeginStep, JobsSame

(* The next staged job is taken up.                                         *)
LEMMA CompleteNextStep ==
    ASSUME DiskInv, NEW c \in Foreground, CompleteNext(c) PROVE Step(c) /\ Jobbed
  <1>1. PICK t \in callers[c].todo :
           /\ Free(c)
           /\ Go(c, [callers[c] EXCEPT !.phase = "read", !.job = t.seg, !.todo = @ \ {t},
                        !.why = IF t.exhausted THEN "exhausted" ELSE "complete"])
    BY DEF CompleteNext
  <1>2. PICK w : w = IF t.exhausted THEN "exhausted" ELSE "complete"
    OBVIOUS
  <1>3. PICK v : v = [callers[c] EXCEPT !.phase = "read", !.job = t.seg, !.todo = @ \ {t}, !.why = w]
    OBVIOUS
  <1>4. Seg(t.seg) /\ t.seg \in File
    BY Names, Known, SegType DEF Remembers, File
  <1>5. /\ v \in CallerRecord /\ v.phase = "read" /\ v.todo = callers[c].todo \ {t}
        /\ v.job = t.seg /\ v.why \in {"complete", "exhausted"}
    <2>1. "read" \in Phase /\ w \in {"new", "complete", "exhausted", "recover"}
      BY <1>2 DEF Phase, Holding, Fenced
    <2>2. callers[c] \in CallerRecord
      BY Names, Known
    <2>3. callers[c].todo \ {t} \in SUBSET [seg : File, exhausted : BOOLEAN]
      BY <2>2 DEF CallerRecord
    <2>4. v \in CallerRecord
      BY <1>3, <1>4, <2>1, <2>2, <2>3 DEF CallerRecord
    <2>5. v.phase = "read" /\ v.todo = callers[c].todo \ {t} /\ v.job = t.seg /\ v.why = w
      BY <1>3, <2>2 DEF CallerRecord
    <2> QED BY <1>2, <2>4, <2>5
  <1>6. Role(c, v)
    BY <1>5, Names, Known DEF Role, Foregrounding
  <1>7. \A x \in v.todo : Seg(x.seg)
    BY <1>5, Names, Known DEF Remembers
  <1>8. Still /\ UNCHANGED jobs
    BY DEF CompleteNext, Still, disk
  <1> QED BY <1>1, <1>2, <1>3, <1>4, <1>5, <1>6, <1>7, <1>8, Names, BeginStep, JobsSame

(* All staged jobs are completed.                                           *)
LEMMA CompletedAllStep ==
    ASSUME DiskInv, NEW c \in Foreground, CompletedAll(c) PROVE Step(c) /\ Jobbed
  <1>1. Still /\ UNCHANGED jobs
    BY DEF CompletedAll, Still, disk
  <1>2. CASE callers[c].completed
    <2>1. PICK v : v = [Idle EXCEPT !.phase = "plan", !.checked = TRUE]
      OBVIOUS
    <2>2. v \in CallerRecord /\ v.phase = "plan" /\ v.why = "new" /\ v.todo = {}
      BY <2>1, IdleIs DEF CallerRecord, Phase, Holding, Fenced, Idle
    <2>3. Role(c, v)
      BY <2>2, Names DEF Role, Foregrounding
    <2>4. Go(c, v) /\ Free(c)
      BY <1>2, <2>1 DEF CompletedAll
    <2> QED BY <1>1, <2>2, <2>3, <2>4, Names, BeginStep, JobsSame
  <1>3. CASE ~callers[c].completed
    <2>1. PICK v : v = [Idle EXCEPT !.phase = "boundary", !.through = callers[c].through, !.checked = TRUE]
      OBVIOUS
    <2>0. callers[c].through \in Sequence \cup {0}
      BY Names, Known DEF CallerRecord
    <2>2. v \in CallerRecord /\ v.phase = "boundary" /\ v.why = "new" /\ v.todo = {}
      BY <2>0, <2>1, IdleIs DEF CallerRecord, Phase, Idle
    <2>3. Role(c, v)
      BY <2>2, Names DEF Role, Foregrounding
    <2>4. Go(c, v)
      BY <1>3, <2>1 DEF CompletedAll
    <2>5. v.phase \notin Holding
      BY <2>2 DEF Holding, Fenced
    <2> QED BY <1>1, <2>2, <2>3, <2>4, <2>5, Names, BeginStep, JobsSame
  <1> QED BY <1>2, <1>3

-----------------------------------------------------------------------------
(* The outbox.                                                              *)

LEMMA StageJobbed == ASSUME DiskInv, NEW s, Seg(s), jobs' = StageJob(s) PROVE Jobbed
  <1>1. CASE s \in DOMAIN jobs
    BY <1>1, JobsSame DEF StageJob
  <1>2. CASE s \notin DOMAIN jobs
    <2>1. jobs' = [t \in DOMAIN jobs \cup {s} |-> IF t = s THEN "STAGED" ELSE jobs[t]]
      BY <1>2 DEF StageJob
    <2>2. jobs \in [DOMAIN jobs -> JobStatus] /\ \A t \in DOMAIN jobs : Seg(t)
      BY DEF DiskInv, JobsInv
    <2>3. DOMAIN jobs' = DOMAIN jobs \cup {s} /\ jobs'[s] = "STAGED" /\ \A t \in DOMAIN jobs : jobs'[t] = jobs[t]
      BY <1>2, <2>1
    <2>4. jobs' \in [DOMAIN jobs' -> JobStatus]
      BY <2>1, <2>2 DEF JobStatus
    <2> QED BY <2>2, <2>3, <2>4 DEF Jobbed
  <1> QED BY <1>1, <1>2

(* A job is activated only once its segment is published and cut off.       *)
LEMMA ActivateJobbed ==
    ASSUME DiskInv, NEW s, Cut(s), Published(s), jobs' = ActivateJob(s) PROVE Jobbed
  <1>1. jobs \in [DOMAIN jobs -> JobStatus] /\ \A t \in DOMAIN jobs : Seg(t)
    BY DEF DiskInv, JobsInv
  <1>2. DOMAIN jobs' = DOMAIN jobs /\ \A t \in DOMAIN jobs : t # s => jobs'[t] = jobs[t]
    BY DEF ActivateJob
  <1>3. jobs' \in [DOMAIN jobs' -> JobStatus]
    BY <1>1 DEF ActivateJob, JobStatus
  <1> QED BY <1>1, <1>2, <1>3 DEF Jobbed

(* The callback stages the job before the segment is sealed.                *)
LEMMA CallbackStep ==
    ASSUME DiskInv, NEW c \in Foreground, Callback(c) PROVE Step(c) /\ Jobbed
  <1>1. Still /\ callers[c].phase \in {"staging", "lost"}
    BY DEF Callback, Still, disk
  <1>2. Jobbed
    <2>1. Seg(callers[c].seg)
      BY <1>1, Names, Known DEF Remembers
    <2> QED BY <2>1, StageJobbed, JobsSame DEF Callback
  <1>3. CASE Return(c)
    BY <1>1, <1>2, <1>3, Names, ReturnStep DEF Move
  <1>4. CASE callers[c].phase = "staging" /\ Go(c, [callers[c] EXCEPT !.phase = "staged"])
    <2>1. PICK v : v = [callers[c] EXCEPT !.phase = "staged"]
      OBVIOUS
    <2>2. /\ v \in CallerRecord /\ v.phase = "staged" /\ v.req = callers[c].req /\ v.seg = callers[c].seg
          /\ v.job = callers[c].job /\ v.why = callers[c].why /\ v.todo = callers[c].todo
      <3>1. "staged" \in Phase /\ callers[c] \in CallerRecord
        BY Names, Known DEF Phase, Holding
      <3> QED BY <2>1, <3>1, PhaseRecord
    <2>3. Doing(v)
      BY <1>4, <2>2, Names, Known DEF Doing, Remembers, Relies, Knows
    <2>4. Role(c, v)
      BY <2>2, Names, Known DEF Role, Foregrounding
    <2>5. callers[c].phase \in Holding
      BY <1>4 DEF Holding
    <2> QED BY <1>1, <1>2, <1>4, <2>1, <2>2, <2>3, <2>4, <2>5, Names, GoStill
  <1> QED BY <1>3, <1>4 DEF Callback

(* The lease runs out while the callback runs.                              *)
LEMMA LoseLeaseStep ==
    ASSUME DiskInv, NEW c \in Foreground, LoseLease(c) PROVE Step(c) /\ Jobbed
  <1>1. Still /\ UNCHANGED jobs
    BY DEF LoseLease, Still, disk
  <1>2. CASE Return(c)
    BY <1>1, <1>2, Names, ReturnStep, JobsSame DEF Move
  <1>3. CASE callers[c].phase = "staging" /\ Go(c, [callers[c] EXCEPT !.phase = "lost"])
    <2>1. PICK v : v = [callers[c] EXCEPT !.phase = "lost"]
      OBVIOUS
    <2>2. /\ v \in CallerRecord /\ v.phase = "lost" /\ v.req = callers[c].req /\ v.seg = callers[c].seg
          /\ v.job = callers[c].job /\ v.why = callers[c].why /\ v.todo = callers[c].todo
      <3>1. "lost" \in Phase /\ callers[c] \in CallerRecord
        BY Names, Known DEF Phase, Holding
      <3> QED BY <2>1, <3>1, PhaseRecord
    <2>3. Doing(v)
      BY <1>3, <2>2, Names, Known DEF Doing, Remembers, Relies, Knows
    <2>4. Role(c, v)
      BY <2>2, Names, Known DEF Role, Foregrounding
    <2>5. v.phase \notin Holding
      BY <2>2 DEF Holding, Fenced
    <2> QED BY <1>1, <1>3, <2>1, <2>2, <2>3, <2>4, <2>5, Names, GoStill, JobsSame
  <1> QED BY <1>2, <1>3 DEF LoseLease

(* Under the lock again, the segment is still the front of the live file or *)
(* the seal is given up.                                                    *)
LEMMA SealSecondStep ==
    ASSUME DiskInv, NEW c \in Foreground, SealSecond(c) PROVE Step(c) /\ Jobbed
  <1>1. PICK v : v = [callers[c] EXCEPT !.phase = "created"]
    OBVIOUS
  <1>2. /\ callers[c].phase = "staged" /\ Go(c, v) /\ UNCHANGED <<live, cursor, jobs>>
        /\ history' = history \cup {callers[c].seg}
    BY <1>1 DEF SealSecond
  <1>3. /\ v \in CallerRecord /\ v.phase = "created" /\ v.req = callers[c].req /\ v.seg = callers[c].seg
        /\ v.job = callers[c].job /\ v.why = callers[c].why /\ v.todo = callers[c].todo
    <2>1. callers[c] \in CallerRecord
      BY Names, Known
    <2>2. "created" \in Phase
      BY DEF Phase, Holding, Fenced
    <2> QED BY <1>1, <2>1, <2>2, PhaseRecord
  <1>4. Quiet /\ live # Empty /\ PrefixOf(v.seg)
    BY <1>2, <1>3, Names, Known DEF Relies
  <1>5. Move(c)
    <2>1. Publishes(v.seg)
      BY <1>2, <1>3, <1>4 DEF Publishes
    <2> QED BY <1>2, <2>1 DEF Move, Holding
  <1>6. (v.seg \in history /\ IsNewer(v.seg) /\ live # Empty /\ Lo(live) = Lo(v.seg))'
    BY <1>2, <1>3, <1>4 DEF Quiet, PrefixOf, IsNewer
  <1>7. Doing(v)'
    BY <1>2, <1>3, <1>6, Names, Known DEF Doing, Remembers, Relies, Knows
  <1>8. Role(c, v)
    BY <1>3, Names, Known DEF Role, Foregrounding
  <1>9. callers[c].phase \in Holding
    BY <1>2 DEF Holding
  <1> QED BY <1>2, <1>3, <1>5, <1>7, <1>8, <1>9, Names, GoStep, JobsSame

(* A job that was staged for nothing is looked up again.                    *)
LEMMA RestageStep ==
    ASSUME DiskInv, NEW c \in Foreground, Restage(c) PROVE Step(c) /\ Jobbed
  <1>1. PICK v : v = [callers[c] EXCEPT !.phase = "enqueued"]
    OBVIOUS
  <1>2. callers[c].phase = "sealed" /\ Go(c, v) /\ Still /\ jobs' = StageJob(callers[c].seg)
    BY <1>1 DEF Restage, Still, disk
  <1>3. /\ v \in CallerRecord /\ v.phase = "enqueued" /\ v.req = callers[c].req /\ v.seg = callers[c].seg
        /\ v.job = callers[c].job /\ v.why = callers[c].why /\ v.todo = callers[c].todo
    <2>1. callers[c] \in CallerRecord
      BY Names, Known
    <2>2. "enqueued" \in Phase
      BY DEF Phase
    <2> QED BY <1>1, <2>1, <2>2, PhaseRecord
  <1>4. Doing(v) /\ Seg(v.seg)
    BY <1>2, <1>3, Names, Known DEF Doing, Remembers, Relies, Knows
  <1>5. Role(c, v)
    BY <1>3, Names, Known DEF Role, Foregrounding
  <1>6. v.phase \notin Holding
    BY <1>3 DEF Holding, Fenced
  <1> QED BY <1>2, <1>3, <1>4, <1>5, <1>6, Names, GoStill, StageJobbed

(* The job of a sealed segment is activated.                                *)
LEMMA EnqueueStep ==
    ASSUME DiskInv, NEW c \in Foreground, Enqueue(c) PROVE Step(c) /\ Jobbed
  <1>1. PICK v : v = [Idle EXCEPT !.phase = "plan", !.checked = TRUE]
    OBVIOUS
  <1>2. v \in CallerRecord /\ v.phase = "plan" /\ v.why = "new" /\ v.todo = {}
    BY <1>1, IdleIs DEF CallerRecord, Phase, Holding, Fenced, Idle
  <1>3. Role(c, v)
    BY <1>2, Names DEF Role, Foregrounding
  <1>4. /\ (Go(c, v) /\ Free(c)) \/ Return(c)
        /\ Still /\ callers[c].phase = "enqueued" /\ jobs' = ActivateJob(callers[c].seg)
    BY <1>1 DEF Enqueue, Still, disk
  <1>5. Jobbed
    BY <1>4, Names, Known, ActivateJobbed DEF Knows
  <1>6. CASE Return(c)
    BY <1>4, <1>5, <1>6, Names, ReturnStep DEF Move
  <1>7. CASE Go(c, v) /\ Free(c)
    BY <1>2, <1>3, <1>4, <1>5, <1>7, Names, BeginStep
  <1> QED BY <1>4, <1>6, <1>7

-----------------------------------------------------------------------------
(* seal                                                                     *)

LEMMA Sealer == \A c \in Foreground \cup {"worker"} : c \in Caller /\ c # "keeper"
  BY Names

(* A seal keeps to the roles of the caller that started it.                 *)
LEMMA SealerRole ==
    ASSUME NEW c \in Foreground \cup {"worker"}, NEW v, NEW u, Role(c, v), v.phase # "idle", u.why = v.why,
           u.phase \in {"boundary", "seal", "created", "trimmed", "sealed"}
    PROVE  Role(c, u)
  <1>1. u.phase \in Foregrounding
    BY DEF Foregrounding
  <1> QED BY <1>1, Names DEF Role

(* A segment that is listed before the last one is off the live file.       *)
LEMMA Listed ==
    ASSUME FilesInv, NoNewer, NEW s \in history, Hi(s) < cursor.archived PROVE Cut(s)
  <1>1. Seg(s) /\ \A t \in history : Seg(t)
    BY DEF FilesInv, FilesTyped
  <1>2. ASSUME live # Empty PROVE Hi(s) < Lo(live)
    <2>1. CASE Lo(live) = cursor.archived + 1
      BY <1>1, <2>1, CursorType DEF Seg
    <2>2. CASE cursor.archived > cursor.released /\ Lo(live) = Lo(cursor.latest)
      <3>1. cursor.latest \in history /\ Hi(cursor.latest) = cursor.archived
        BY <2>2 DEF FilesInv, Tiled
      <3>2. Apart(s, cursor.latest)
        BY <1>1, <3>1 DEF FilesInv, FilesTyped, Seg
      <3> QED BY <1>1, <2>2, <3>1, <3>2, CursorType DEF Apart, Seg
    <2> QED BY <1>2, <2>1, <2>2 DEF FilesInv, Joins
  <1> QED BY <1>1, <1>2, CursorType DEF Cut, Seg

(* completing a staged job finds its segment published, ready to be sealed, *)
(* or lost.                                                                 *)
LEMMA StagedSegmentStep ==
    ASSUME DiskInv, NEW c \in Foreground \cup {"worker"}, StagedSegment(c) PROVE Step(c) /\ Jobbed
  <1>1. callers[c].phase = "read" /\ Newer = {} /\ Still /\ UNCHANGED jobs
    BY DEF StagedSegment, Loaded, Still, disk
  <1>2. /\ callers[c] \in CallerRecord /\ Role(c, callers[c]) /\ Remembers(callers[c]) /\ c \in Caller
        /\ FilesInv /\ callers[c].phase \in Holding
    BY <1>1, Sealer, Known DEF Holding, Fenced
  <1>3. CASE callers[c].why = "exhausted" /\ Go(c, [callers[c] EXCEPT !.phase = "completing"])
    <2>1. PICK v : v = [callers[c] EXCEPT !.phase = "completing"]
      OBVIOUS
    <2>2. "completing" \in Phase
      BY DEF Phase
    <2>3. /\ v \in CallerRecord /\ v.phase = "completing"
          /\ v.job = callers[c].job /\ v.why = callers[c].why /\ v.todo = callers[c].todo
      BY <1>2, <2>1, <2>2, PhaseRecord
    <2>4. c \in Foreground
      BY <1>1, <1>2, <1>3, Names DEF Role
    <2>5. Role(c, v)
      BY <1>2, <2>3, <2>4, Names DEF Role, Foregrounding
    <2> QED BY <1>1, <1>2, <1>3, <2>1, <2>3, <2>5, BeginStep, JobsSame DEF Remembers
  <1>4. CASE /\ cursor.archived > Hi(callers[c].job) /\ callers[c].why # "exhausted"
             /\ callers[c].job \in history /\ Go(c, [callers[c] EXCEPT !.phase = "sealed", !.seg = callers[c].job])
    <2>1. PICK v : v = [callers[c] EXCEPT !.phase = "sealed", !.seg = callers[c].job]
      OBVIOUS
    <2>2. "sealed" \in Phase /\ callers[c].job \in File
      BY <1>2 DEF Phase, CallerRecord
    <2>3. /\ v \in CallerRecord /\ v.phase = "sealed" /\ v.seg = callers[c].job
          /\ v.job = callers[c].job /\ v.why = callers[c].why /\ v.todo = callers[c].todo
      BY <1>2, <2>1, <2>2 DEF CallerRecord
    <2>4. Cut(v.seg) /\ Published(v.seg) /\ Seg(v.seg)
      <3>1. NoNewer /\ Seg(callers[c].job)
        BY <1>1, <1>2, <1>4, RepairedIs DEF FilesInv, FilesTyped
      <3> QED BY <1>2, <1>4, <2>3, <3>1, Listed, CursorType DEF Published, Seg
    <2>5. Doing(v)
      BY <1>1, <1>2, <2>3, <2>4 DEF Doing, Remembers, Relies, Knows
    <2>6. Role(c, v)
      BY <1>1, <1>2, <2>3, SealerRole
    <2> QED BY <1>1, <1>2, <1>4, <2>1, <2>3, <2>5, <2>6, GoStill, JobsSame
  <1>5. CASE Go(c, [callers[c] EXCEPT !.phase = "boundary", !.through = Hi(callers[c].job)])
             /\ callers[c].why # "new"
    <2>1. PICK v : v = [callers[c] EXCEPT !.phase = "boundary", !.through = Hi(callers[c].job)]
      OBVIOUS
    <2>2. "boundary" \in Phase /\ Hi(callers[c].job) \in Sequence
      BY <1>1, <1>2, <1>5, SegType DEF Phase, Remembers
    <2>3. /\ v \in CallerRecord /\ v.phase = "boundary"
          /\ v.job = callers[c].job /\ v.why = callers[c].why /\ v.todo = callers[c].todo
      BY <1>2, <2>1, <2>2 DEF CallerRecord
    <2>6. Role(c, v)
      BY <1>1, <1>2, <2>3, SealerRole
    <2> QED BY <1>1, <1>2, <1>5, <2>1, <2>3, <2>6, BeginStep, JobsSame DEF Remembers
  <1>6. callers[c].why # "new" /\ Seg(callers[c].job)
    BY <1>1, <1>2 DEF Role, Remembers
  <1>8. cursor.archived > Hi(callers[c].job) => cursor.archived >= Hi(callers[c].job)
    BY <1>2, <1>6, CursorType DEF Seg
  <1> QED BY <1>3, <1>4, <1>5, <1>6, <1>8 DEF StagedSegment

(* seal_segment takes the lock of the conversation.                         *)
LEMMA StartSealStep ==
    ASSUME DiskInv, NEW c \in Foreground \cup {"worker"}, StartSeal(c) PROVE Step(c) /\ Jobbed
  <1>1. PICK v : v = [callers[c] EXCEPT !.phase = "seal"]
    OBVIOUS
  <1>2. callers[c].phase = "boundary" /\ Free(c) /\ Go(c, v) /\ Still /\ UNCHANGED jobs
    BY <1>1 DEF StartSeal, Still, disk
  <1>3. callers[c] \in CallerRecord /\ Role(c, callers[c]) /\ Remembers(callers[c]) /\ c \in Caller
    BY Sealer, Known
  <1>4. /\ v \in CallerRecord /\ v.phase = "seal"
        /\ v.job = callers[c].job /\ v.why = callers[c].why /\ v.todo = callers[c].todo
    <2>1. "seal" \in Phase
      BY DEF Phase, Holding, Fenced
    <2> QED BY <1>1, <1>3, <2>1, PhaseRecord
  <1>5. Role(c, v)
    BY <1>2, <1>3, <1>4, SealerRole
  <1> QED BY <1>2, <1>3, <1>4, <1>5, BeginStep, JobsSame DEF Remembers

(* What a seal selects.                                                     *)
LEMMA SealPlanIs ==
    ASSUME FilesInv, Quiet, NEW t, NEW s, s = SealPlan(t)
    PROVE  /\ Selects(t) => live # Empty /\ PrefixOf(s) /\ Hi(s) = t
           /\ ~Selects(t) /\ s # Empty =>
                 Seg(s) /\ Cut(s) /\ s \in history /\ s = cursor.latest /\ Hi(s) = t /\ Hi(s) = cursor.archived
  <1>1. ASSUME Selects(t) PROVE live # Empty /\ PrefixOf(s) /\ Hi(s) = t
    <2>1. live # Empty /\ Seg(live) /\ t \in DOMAIN live
      BY <1>1, LiveEmpty DEF Selects
    <2>2. t \in Nat /\ Lo(live) <= t /\ t <= Hi(live) /\ Lo(live) \in Nat /\ Lo(live) <= Lo(live)
      BY <2>1 DEF Seg
    <2>3. s = Restrict(live, Lo(live)..t)
      BY <1>1 DEF SealPlan
    <2>4. /\ Seg(s) /\ Lo(s) = Lo(live) /\ Hi(s) = t /\ DOMAIN s = Lo(live)..t
          /\ \A n \in Lo(live)..t : s[n] = live[n]
      BY <2>1, <2>2, <2>3, RestrictSeg
    <2> QED BY <2>1, <2>2, <2>4 DEF PrefixOf, Same
  <1>2. ASSUME ~Selects(t), s # Empty
        PROVE  Seg(s) /\ Cut(s) /\ s \in history /\ s = cursor.latest /\ Hi(s) = t /\ Hi(s) = cursor.archived
    <2>1. s = Latest(cursor) /\ s # Empty /\ Hi(s) = t
      BY <1>2 DEF SealPlan
    <2>2. cursor.archived > cursor.released /\ s = cursor.latest
      BY <2>1, CursorType DEF Latest
    <2>3. s \in history /\ Hi(s) = cursor.archived /\ Seg(s)
      BY <2>2 DEF FilesInv, FilesTyped, Tiled
    <2>4. Cut(s)
      BY <2>3, CursorType DEF Cut, Quiet
    <2> QED BY <2>1, <2>2, <2>3, <2>4
  <1> QED BY <1>1, <1>2

(* The segment to seal is cut from the front of the live file, after a      *)
(* repair.                                                                  *)
LEMMA SealFirstStep ==
    ASSUME DiskInv, NEW c \in Foreground \cup {"worker"}, SealFirst(c) PROVE Step(c) /\ Jobbed
  <1>1. PICK s : s = SealPlan(callers[c].through)
    OBVIOUS
  <1>2. /\ callers[c].phase = "seal" /\ Opened /\ s # Empty /\ UNCHANGED <<live, cursor, jobs>>
    BY <1>1 DEF SealFirst, SealReady
  <1>3. /\ callers[c] \in CallerRecord /\ Role(c, callers[c]) /\ Remembers(callers[c]) /\ c \in Caller
        /\ FilesInv /\ callers[c].phase \in Holding /\ Jobbed
    BY <1>2, Sealer, Known, JobsSame DEF Holding, Fenced
  <1>4. Quiet
    BY <1>2, <1>3, OpenedQuiet DEF Opened, Loaded
  <1>5. /\ Selects(callers[c].through) => live # Empty /\ PrefixOf(s) /\ Hi(s) = callers[c].through
        /\ ~Selects(callers[c].through) => Seg(s) /\ Cut(s) /\ s \in history
    BY <1>1, <1>2, <1>3, <1>4, SealPlanIs
  <1>6. Seg(s) /\ s \in File
    BY <1>5, SegType DEF PrefixOf, File
  <1>7. ASSUME NEW p \in {"sealed", "staging", "created"}, Go(c, [callers[c] EXCEPT !.phase = p, !.seg = s]),
               NEW v, v = [callers[c] EXCEPT !.phase = p, !.seg = s]
        PROVE  /\ v \in CallerRecord /\ v.phase = p /\ v.seg = s /\ v.req = callers[c].req
               /\ v.job = callers[c].job /\ v.why = callers[c].why /\ v.todo = callers[c].todo
               /\ Go(c, v) /\ Remembers(v)
    <2>1. p \in Phase
      BY DEF Phase, Holding, Fenced
    <2>2. /\ v \in CallerRecord /\ v.phase = p /\ v.seg = s /\ v.req = callers[c].req
          /\ v.job = callers[c].job /\ v.why = callers[c].why /\ v.todo = callers[c].todo
      BY <1>3, <1>6, <1>7, <2>1 DEF CallerRecord
    <2>3. Remembers(v)
      BY <1>2, <1>3, <1>6, <2>2 DEF Remembers
    <2> QED BY <1>7, <2>2, <2>3
  <1>8. CASE ~Selects(callers[c].through) /\ UNCHANGED history /\ Go(c, [callers[c] EXCEPT !.phase = "sealed", !.seg = s])
    <2>1. PICK v : v = [callers[c] EXCEPT !.phase = "sealed", !.seg = s]
      OBVIOUS
    <2>2. /\ v \in CallerRecord /\ v.phase = "sealed" /\ v.seg = s /\ v.why = callers[c].why
          /\ Go(c, v) /\ Remembers(v)
      BY <1>7, <1>8, <2>1
    <2>3. Role(c, v)
      BY <1>2, <1>3, <2>2, SealerRole
    <2>4. Doing(v)
      BY <1>5, <1>8, <2>2 DEF Doing, Relies, Knows, Published
    <2> QED BY <1>2, <1>3, <1>8, <2>2, <2>3, <2>4, GoStill DEF Still
  <1>9. CASE /\ Selects(callers[c].through) /\ NeedsOutbox(c) /\ UNCHANGED history
             /\ Go(c, [callers[c] EXCEPT !.phase = "staging", !.seg = s])
    <2>1. PICK v : v = [callers[c] EXCEPT !.phase = "staging", !.seg = s]
      OBVIOUS
    <2>2. /\ v \in CallerRecord /\ v.phase = "staging" /\ v.seg = s /\ v.why = callers[c].why
          /\ Go(c, v) /\ Remembers(v)
      BY <1>7, <1>9, <2>1
    <2>3. Role(c, v)
      BY <1>2, <1>3, <1>9, <2>2, Names DEF Role, Foregrounding, NeedsOutbox
    <2>4. Doing(v)
      BY <1>4, <1>5, <1>9, <2>2 DEF Doing, Relies, Knows
    <2> QED BY <1>2, <1>3, <1>9, <2>2, <2>3, <2>4, GoStill DEF Still
  <1>10. CASE /\ Selects(callers[c].through) /\ history' = history \cup {s}
              /\ Go(c, [callers[c] EXCEPT !.phase = "created", !.seg = s])
    <2>1. PICK v : v = [callers[c] EXCEPT !.phase = "created", !.seg = s]
      OBVIOUS
    <2>2. /\ v \in CallerRecord /\ v.phase = "created" /\ v.seg = s /\ v.why = callers[c].why
          /\ Go(c, v) /\ Remembers(v)
      BY <1>7, <1>10, <2>1
    <2>3. Role(c, v)
      BY <1>2, <1>3, <2>2, SealerRole
    <2>4. Move(c)
      <3>1. Publishes(s)
        BY <1>2, <1>4, <1>5, <1>10 DEF Publishes
      <3> QED BY <1>3, <3>1 DEF Move
    <2>5. (s \in history /\ IsNewer(s) /\ live # Empty /\ Lo(live) = Lo(s))'
      BY <1>2, <1>4, <1>5, <1>10 DEF Quiet, PrefixOf, IsNewer
    <2>6. Doing(v)'
      BY <2>2, <2>5 DEF Doing, Remembers, Relies, Knows
    <2> QED BY <1>3, <2>2, <2>3, <2>4, <2>6, GoStep
  <1> QED BY <1>1, <1>8, <1>9, <1>10 DEF SealFirst

(* The sealed messages leave the live file only after the history has them. *)
LEMMA TruncateLiveStep ==
    ASSUME DiskInv, NEW c \in Foreground \cup {"worker"}, TruncateLive(c) PROVE Step(c) /\ Jobbed
  <1>1. PICK v : v = [callers[c] EXCEPT !.phase = "trimmed"]
    OBVIOUS
  <1>2. /\ callers[c].phase = "created" /\ Go(c, v) /\ UNCHANGED <<history, cursor, jobs>>
        /\ live' = Retained(callers[c].seg)
    BY <1>1 DEF TruncateLive
  <1>3. /\ callers[c] \in CallerRecord /\ Role(c, callers[c]) /\ Remembers(callers[c]) /\ c \in Caller
        /\ Relies(callers[c]) /\ FilesInv /\ callers[c].phase \in Holding /\ Jobbed
    BY <1>2, Sealer, Known, JobsSame DEF Holding, Fenced
  <1>4. /\ v \in CallerRecord /\ v.phase = "trimmed" /\ v.req = callers[c].req /\ v.seg = callers[c].seg
        /\ v.job = callers[c].job /\ v.why = callers[c].why /\ v.todo = callers[c].todo
    <2>1. "trimmed" \in Phase
      BY DEF Phase, Holding, Fenced
    <2> QED BY <1>1, <1>3, <2>1, PhaseRecord
  <1>5. Role(c, v)
    BY <1>2, <1>3, <1>4, SealerRole
  <1>6. v.seg \in history /\ IsNewer(v.seg) /\ live # Empty /\ Lo(live) = Lo(v.seg)
    BY <1>2, <1>3, <1>4 DEF Relies
  <1>7. Seg(live) /\ Seg(v.seg) /\ Hi(v.seg) <= Hi(live)
    <2>1. Seg(live) /\ Seg(v.seg)
      BY <1>3, <1>6, LiveEmpty DEF FilesInv, FilesTyped
    <2>2. (Lo(live) = Lo(v.seg) /\ Hi(v.seg) <= Hi(live)) \/ Lo(live) = Hi(v.seg) + 1
      BY <1>3, <1>6 DEF FilesInv, Joins
    <2> QED BY <1>6, <2>1, <2>2 DEF Seg
  <1>8. Shortens(v.seg)
    BY <1>2, <1>4, <1>6, <1>7 DEF Shortens, Retained
  <1>9. live' # Empty => Hi(v.seg) < Lo(live')
    <2>1. live' = Restrict(live, DOMAIN live \ DOMAIN v.seg)
      BY <1>8 DEF Shortens
    <2>2. live' = Empty \/ Lo(live') = Hi(v.seg) + 1
      BY <1>6, <1>7, <2>1, RestOf
    <2> QED BY <1>7, <2>2 DEF Seg
  <1>10. Doing(v)'
    <2>1. Remembers(v)
      BY <1>2, <1>3, <1>4 DEF Remembers
    <2>2. Relies(v)'
      <3>1. v.seg \in history' /\ Lo(v.seg) = cursor'.archived + 1
        BY <1>2, <1>6 DEF IsNewer
      <3>2. v.phase = "trimmed"
        BY <1>4
      <3> QED BY <1>9, <3>1, <3>2 DEF Relies, IsNewer
    <2>3. Knows(v)'
      BY <1>4 DEF Knows
    <2> QED BY <2>1, <2>2, <2>3 DEF Doing, Remembers
  <1> QED BY <1>2, <1>3, <1>4, <1>5, <1>8, <1>10, GoStep DEF Move

(* The seal ends with the cursor over the new segment.                      *)
LEMMA SealReturnsStep ==
    ASSUME DiskInv, NEW c \in Foreground \cup {"worker"}, SealReturns(c) PROVE Step(c) /\ Jobbed
  <1>1. PICK v : v = [callers[c] EXCEPT !.phase = "sealed"]
    OBVIOUS
  <1>2. callers[c].phase = "trimmed" /\ Newer = {} /\ Go(c, v) /\ Still /\ UNCHANGED jobs
    BY <1>1 DEF SealReturns, Still, disk
  <1>3. /\ callers[c] \in CallerRecord /\ Role(c, callers[c]) /\ Remembers(callers[c]) /\ c \in Caller
        /\ Relies(callers[c]) /\ FilesInv /\ callers[c].phase \in Holding /\ Jobbed
    BY <1>2, Sealer, Known, JobsSame DEF Holding, Fenced
  <1>4. /\ v \in CallerRecord /\ v.phase = "sealed" /\ v.req = callers[c].req /\ v.seg = callers[c].seg
        /\ v.job = callers[c].job /\ v.why = callers[c].why /\ v.todo = callers[c].todo
    <2>1. "sealed" \in Phase
      BY DEF Phase
    <2> QED BY <1>1, <1>3, <2>1, PhaseRecord
  <1>5. Role(c, v)
    BY <1>2, <1>3, <1>4, SealerRole
  <1>6. Cut(v.seg) /\ Published(v.seg) /\ Seg(v.seg)
    <2>1. NoNewer
      BY <1>2, <1>3, RepairedIs
    <2>2. v.seg \in history /\ Hi(v.seg) = cursor.archived /\ (live # Empty => Hi(v.seg) < Lo(live))
      BY <1>2, <1>3, <1>4, <2>1 DEF Relies, NoNewer
    <2> QED BY <1>3, <2>2, CursorType DEF Cut, Published, FilesInv, FilesTyped
  <1>7. Doing(v)
    BY <1>2, <1>3, <1>4, <1>6 DEF Doing, Remembers, Relies, Knows
  <1> QED BY <1>2, <1>3, <1>4, <1>5, <1>7, GoStill

(* A completed job is activated, or the next one is taken up.               *)
LEMMA CompletedStep ==
    ASSUME DiskInv, NEW c \in Foreground \cup {"worker"}, Completed(c) PROVE Step(c) /\ Jobbed
  <1>1. callers[c].phase = "sealed" /\ callers[c].seg = callers[c].job /\ Still
    BY DEF Completed, Still, disk
  <1>2. /\ callers[c] \in CallerRecord /\ Role(c, callers[c]) /\ Remembers(callers[c]) /\ c \in Caller
        /\ Knows(callers[c])
    BY Sealer, Known
  <1>3. Jobbed
    <2>1. Cut(callers[c].job) /\ Published(callers[c].job)
      BY <1>1, <1>2 DEF Knows
    <2> QED BY <2>1, ActivateJobbed, JobsSame DEF Completed
  <1>4. CASE Return(c)
    BY <1>1, <1>2, <1>3, <1>4, ReturnStep DEF Move
  <1>5. CASE callers[c].why # "recover" /\ Go(c, [callers[c] EXCEPT !.phase = "completing", !.completed = TRUE])
    <2>1. PICK v : v = [callers[c] EXCEPT !.phase = "completing", !.completed = TRUE]
      OBVIOUS
    <2>2. "completing" \in Phase /\ "completing" \notin Holding
      BY DEF Phase, Holding, Fenced
    <2>3. /\ v \in CallerRecord /\ v.phase = "completing"
          /\ v.job = callers[c].job /\ v.why = callers[c].why /\ v.todo = callers[c].todo
      BY <1>2, <2>1, <2>2 DEF CallerRecord
    <2>4. c \in Foreground
      BY <1>1, <1>2, <1>5, Names DEF Role
    <2>5. Role(c, v)
      BY <1>2, <2>3, <2>4, Names DEF Role, Foregrounding
    <2> QED BY <1>1, <1>2, <1>3, <1>5, <2>1, <2>2, <2>3, <2>5, BeginStep DEF Remembers
  <1> QED BY <1>4, <1>5 DEF Completed

-----------------------------------------------------------------------------
(* Repairing, refusing and stopping.                                        *)

LEMMA RepairStep ==
    ASSUME DiskInv, NEW c \in Caller, Repair(c) PROVE Step(c) /\ Jobbed
  <1> DEFINE v == callers[c]
  <1>1. /\ callers' = callers /\ UNCHANGED jobs /\ FilesInv /\ Remembers(v) /\ Relies(v) /\ Knows(v)
        /\ v.phase \in {"append", "plan", "read", "seal", "staged", "list", "trimmed", "release", "purge"}
    BY Known DEF Repair
  <1>2. Repairs
    BY <1>1, RepairedIs DEF Repair, Repairs
  <1>3. PICK s \in history : IsNewer(s)
    BY <1>2 DEF Repairs, NoNewer
  <1>4. /\ cursor'.archived = Hi(s) /\ cursor'.released = cursor.released
        /\ history' = history /\ live' = live /\ NoNewer'
    BY <1>1, <1>2, <1>3, RepairsTo
  <1>5. v.phase \in Holding
    BY <1>1 DEF Holding, Fenced
  <1>6. Move(c)
    BY <1>2, <1>5 DEF Move
  <1>7. FilesInv' /\ Stable
    BY <1>1, <1>6, MoveKeeps
  <1>8. v.phase = "trimmed" => v.seg = s
    BY <1>1, <1>3, OneNewer DEF Relies, NoNewer
  <1>9. v.phase # "staged"
    BY <1>1, <1>3 DEF Relies, Quiet, NoNewer
  <1> HIDE DEF v
  <1>10. PICK w : w = v
    OBVIOUS
  <1>11. Relies(w)'
    BY <1>1, <1>4, <1>8, <1>9, <1>10 DEF Relies
  <1>12. Knows(w)'
    BY <1>1, <1>4, <1>7, <1>10, KnowsKept
  <1>13. callers'[c] = w /\ Remembers(w)
    BY <1>1, <1>10 DEF v
  <1>14. Doing(callers[c])'
    BY <1>11, <1>12, <1>13 DEF Doing, Remembers
  <1> QED BY <1>1, <1>6, <1>14, StayStep, JobsSame

(* A live file that still begins with the last segment is cut.              *)
LEMMA TrimStep ==
    ASSUME DiskInv, NEW c \in Caller, Trim(c) PROVE Step(c) /\ Jobbed
  <1> DEFINE v == callers[c]
  <1>1. /\ callers' = callers /\ UNCHANGED <<jobs, history, cursor>> /\ FilesInv
        /\ Remembers(v) /\ Relies(v) /\ Knows(v)
        /\ v.phase \in {"append", "plan", "seal", "staged"}
        /\ Newer = {} /\ Overlap(cursor) # {} /\ live' = Rest(cursor)
    BY Known DEF Trim
  <1>2. NoNewer
    BY <1>1, RepairedIs
  <1>3. /\ cursor.archived > cursor.released /\ Latest(cursor) = cursor.latest
        /\ DOMAIN live \cap DOMAIN cursor.latest # {}
    BY <1>1, CursorType, EmptyFile DEF Overlap, Latest
  <1>4. live # Empty /\ Seg(live) /\ Seg(cursor.latest) /\ cursor.latest \in history
        /\ Hi(cursor.latest) = cursor.archived
    BY <1>1, <1>3, LiveEmpty, EmptyFile DEF FilesInv, FilesTyped, Tiled
  <1>5. Lo(live) # cursor.archived + 1
    <2>1. PICK n \in DOMAIN live : n \in DOMAIN cursor.latest
      BY <1>3
    <2>2. Lo(live) <= n /\ n <= cursor.archived /\ n \in Nat /\ Lo(live) \in Nat
      BY <1>4, <2>1 DEF Seg
    <2> QED BY <1>1, <2>2, CursorType
  <1>6. Lo(live) = Lo(cursor.latest) /\ cursor.archived <= Hi(live)
    BY <1>1, <1>2, <1>4, <1>5 DEF FilesInv, Joins
  <1>7. Shortens(cursor.latest)
    BY <1>1, <1>2, <1>3, <1>4, <1>6 DEF Shortens, Rest
  <1>8. v.phase # "staged"
    BY <1>1, <1>5 DEF Relies, Quiet
  <1>9. v.phase \in Holding
    BY <1>1 DEF Holding, Fenced
  <1> HIDE DEF v
  <1>10. PICK w : w = v
    OBVIOUS
  <1>11. Relies(w)' /\ Knows(w)'
    BY <1>1, <1>8, <1>10 DEF Relies, Knows
  <1>12. callers'[c] = w /\ Remembers(w)
    BY <1>1, <1>10 DEF v
  <1>13. Doing(callers[c])'
    BY <1>11, <1>12 DEF Doing, Remembers
  <1>14. Move(c)
    BY <1>7, <1>9 DEF Move, v
  <1> QED BY <1>1, <1>13, <1>14, StayStep, JobsSame

(* Failures leave the jobs alone.                                           *)
LEMMA FailureJobbed == ASSUME DiskInv, NEW c, Failure(c) PROVE Jobbed
  <1>1. CASE UNCHANGED jobs
    BY <1>1, JobsSame
  <1>2. ASSUME NEW status \in {"STAGED", "FAILED"}, callers[c].job \in DOMAIN jobs,
               jobs' = [jobs EXCEPT ![callers[c].job] = status]
        PROVE  Jobbed
    <2>1. jobs \in [DOMAIN jobs -> JobStatus] /\ \A t \in DOMAIN jobs : Seg(t)
      BY DEF DiskInv, JobsInv
    <2>2. DOMAIN jobs' = DOMAIN jobs /\ jobs' \in [DOMAIN jobs -> JobStatus]
      BY <1>2, <2>1 DEF JobStatus
    <2>3. \A t \in DOMAIN jobs : jobs'[t] \in {"QUEUED", "BLOCKED", "COMMITTED"} => jobs[t] \in {"QUEUED", "BLOCKED", "COMMITTED"}
      BY <1>2, <2>1
    <2> QED BY <2>1, <2>2, <2>3 DEF Jobbed
  <1> QED BY <1>1, <1>2 DEF Failure

(* A call that is refused or fails lets go of the lock and leaves the       *)
(* files.                                                                   *)
LEMMA RefuseStep ==
    ASSUME DiskInv, NEW c \in Caller, Refuse(c) \/ Stop(c) PROVE Step(c) /\ Jobbed
  <1>1. Return(c) /\ Still /\ Failure(c)
    BY DEF Refuse, Stop, Still, disk
  <1> QED BY <1>1, ReturnStep, FailureJobbed DEF Move

(* Steps that move neither the files nor a caller.                          *)
LEMMA NobodyStep == ASSUME DiskInv, Still, UNCHANGED callers PROVE Step("keeper")
  <1>1. "keeper" \in Caller
    BY Names
  <1>2. Doing(callers["keeper"])
    BY <1>1 DEF DiskInv, CallersInv
  <1>3. PICK w : w = callers["keeper"]
    OBVIOUS
  <1>4. Doing(w)'
    BY <1>2, <1>3, StillDoing
  <1>5. callers'["keeper"] = w
    BY <1>3
  <1>6. Doing(callers["keeper"])'
    BY <1>4, <1>5
  <1> QED BY <1>1, <1>6, StayStep DEF Move

(* A prepared receipt is committed on recovery once its batch is in the     *)
(* files.                                                                   *)
LEMMA RecoverReceiptStep ==
    ASSUME DiskInv, NEW c \in Caller, NEW d \in DeliveryId, RecoverReceipt(c, d)
    PROVE  Step("keeper") /\ Jobbed
  BY NobodyStep, JobsSame DEF RecoverReceipt, Still

-----------------------------------------------------------------------------
(* The worker and the jobs.                                                 *)

LEMMA StartRecoveryStep ==
    ASSUME DiskInv, NEW s \in DOMAIN jobs, StartRecovery(s) PROVE Step("worker") /\ Jobbed
  <1>1. PICK v : v = [Idle EXCEPT !.phase = "read", !.job = s, !.why = "recover"]
    OBVIOUS
  <1>2. Seg(s) /\ s \in File
    BY SegType DEF DiskInv, JobsInv, File
  <1>3. /\ v \in CallerRecord /\ v.phase = "read" /\ v.why = "recover" /\ v.todo = {} /\ v.job = s
    <2>1. "read" \in Phase
      BY DEF Phase, Holding, Fenced
    <2> QED BY <1>1, <1>2, <2>1, IdleIs DEF CallerRecord, Idle
  <1>4. Role("worker", v)
    BY <1>3, Names DEF Role
  <1>5. Go("worker", v) /\ Still /\ Free("worker") /\ UNCHANGED jobs
    BY <1>1 DEF StartRecovery, Still, disk
  <1> QED BY <1>2, <1>3, <1>4, <1>5, Names, BeginStep, JobsSame

(* What becomes of a job when no caller of the journal is at it.            *)
JobStep(s) == CommitJob(s) \/ FailJob(s) \/ RetryFailed(s) \/ AbandonFailed(s) \/ DiscardJob(s)

(* A job runs, fails, is retried, abandoned or deleted.                     *)
LEMMA JobStepStep ==
    ASSUME DiskInv, NEW s \in DOMAIN jobs, JobStep(s) PROVE Step("keeper") /\ Jobbed
  <1>1. Still /\ UNCHANGED callers
    BY DEF JobStep, CommitJob, FailJob, RetryFailed, AbandonFailed, DiscardJob, Still, disk
  <1>2. jobs \in [DOMAIN jobs -> JobStatus] /\ \A t \in DOMAIN jobs : Seg(t)
    BY DEF DiskInv, JobsInv
  <1>3. ASSUME NEW status \in JobStatus, jobs' = [jobs EXCEPT ![s] = status],
               status \in {"QUEUED", "BLOCKED", "COMMITTED"} => jobs[s] \in {"QUEUED", "BLOCKED", "COMMITTED"}
        PROVE  Jobbed
    <2>1. DOMAIN jobs' = DOMAIN jobs /\ jobs' \in [DOMAIN jobs -> JobStatus]
      BY <1>2, <1>3
    <2>2. \A t \in DOMAIN jobs : jobs'[t] \in {"QUEUED", "BLOCKED", "COMMITTED"}
                                   => jobs[t] \in {"QUEUED", "BLOCKED", "COMMITTED"}
      BY <1>2, <1>3
    <2> QED BY <1>2, <2>1, <2>2 DEF Jobbed
  <1>4. CASE CommitJob(s) \/ FailJob(s) \/ RetryFailed(s)
    <2>1. PICK status \in JobStatus :
             /\ jobs' = [jobs EXCEPT ![s] = status]
             /\ status \in {"QUEUED", "BLOCKED", "COMMITTED"} => jobs[s] \in {"QUEUED", "BLOCKED", "COMMITTED"}
      <3>1. CASE CommitJob(s)
        BY <3>1 DEF CommitJob, JobStatus
      <3>2. CASE FailJob(s)
        BY <3>2 DEF FailJob, JobStatus
      <3>3. CASE RetryFailed(s)
        <4>1. PICK x : x = IF jobs[s] = "FAILED" THEN "STAGED" ELSE "QUEUED"
          OBVIOUS
        <4>2. jobs' = [jobs EXCEPT ![s] = x] /\ x \in JobStatus
          BY <3>3, <4>1 DEF RetryFailed, JobStatus
        <4>3. x \in {"QUEUED", "BLOCKED", "COMMITTED"} => jobs[s] = "BLOCKED"
          BY <3>3, <4>1 DEF RetryFailed, Undecided
        <4> QED BY <4>2, <4>3
      <3> QED BY <1>4, <3>1, <3>2, <3>3
    <2> QED BY <1>1, <1>3, <2>1, NobodyStep
  <1>5. CASE DiscardJob(s) \/ AbandonFailed(s)
    <2>1. jobs' = [t \in DOMAIN jobs \ {s} |-> jobs[t]]
      BY <1>5 DEF DiscardJob, AbandonFailed, Restrict
    <2>2. DOMAIN jobs' \subseteq DOMAIN jobs /\ jobs' \in [DOMAIN jobs' -> JobStatus]
          /\ \A t \in DOMAIN jobs' : jobs'[t] = jobs[t]
      BY <1>2, <2>1
    <2> QED BY <1>1, <1>2, <2>2, NobodyStep DEF Jobbed
  <1> QED BY <1>4, <1>5 DEF JobStep

-----------------------------------------------------------------------------
(* The lifecycle.                                                           *)

LEMMA KeeperRole ==
    ASSUME NEW v, v.phase \in {"idle", "list", "purge", "chosen", "release", "unlink"}
    PROVE  Role("keeper", v)
  BY Names DEF Role

(* The lifecycle starts a release.                                          *)
LEMMA StartKeepingStep == ASSUME DiskInv, StartKeeping PROVE Step("keeper") /\ Jobbed
  <1>1. PICK p \in {"list", "purge"} : Go("keeper", [Idle EXCEPT !.phase = p])
    BY DEF StartKeeping
  <1>2. PICK v : v = [Idle EXCEPT !.phase = p]
    OBVIOUS
  <1>3. /\ v \in CallerRecord /\ v.phase = p /\ v.why = "new" /\ v.todo = {}
    <2>1. p \in Phase
      BY DEF Phase, Holding, Fenced
    <2> QED BY <1>2, <2>1, IdleIs, PhaseRecord
  <1>4. Go("keeper", v) /\ Still /\ Free("keeper") /\ UNCHANGED jobs
    BY <1>1, <1>2 DEF StartKeeping, Still, disk
  <1> QED BY <1>3, <1>4, Names, KeeperRole, BeginStep, JobsSame

(* The listed files are those of Active.                                    *)
LEMMA ActiveIs ==
    ASSUME FilesInv, NoNewer
    PROVE  \A s \in Active(cursor) : s \in history /\ Seg(s) /\ cursor.released < Lo(s)
  <1> SUFFICES ASSUME NEW s \in Active(cursor) PROVE s \in history /\ Seg(s) /\ cursor.released < Lo(s)
    OBVIOUS
  <1>1. s \in history /\ Seg(s) /\ Hi(s) > cursor.released /\ (IsStale(s) \/ IsActive(s))
    BY DEF Active, FilesInv, FilesTyped, Tiled, NoNewer
  <1> QED BY <1>1, CursorType DEF IsStale, IsActive, Seg

(* It chooses the prefix of committed segments.                             *)
LEMMA ChooseReleaseStep == ASSUME DiskInv, ChooseRelease PROVE Step("keeper") /\ Jobbed
  <1> DEFINE k == callers["keeper"]
  <1>1. Still /\ UNCHANGED jobs /\ Newer = {} /\ FilesInv /\ NoNewer /\ k.phase = "list"
        /\ k \in CallerRecord /\ Remembers(k)
    BY Names, Known, RepairedIs DEF ChooseRelease, Loaded, Still, disk
  <1>2. CASE Return("keeper")
    BY <1>1, <1>2, Names, ReturnStep, JobsSame DEF Move
  <1>3. ASSUME NEW s \in Active(cursor), Releasable(s),
               Go("keeper", [k EXCEPT !.phase = "chosen", !.through = Hi(s)])
        PROVE  Step("keeper") /\ Jobbed
    <2>1. PICK v : v = [k EXCEPT !.phase = "chosen", !.through = Hi(s)]
      OBVIOUS
    <2>2. s \in history /\ Seg(s) /\ cursor.released < Lo(s) /\ Hi(s) \in Sequence /\ Cut(s)
      BY <1>1, <1>3, ActiveIs, SegType DEF DiskInv, JobsInv, Releasable
    <2>3. "chosen" \in Phase /\ "chosen" \notin Holding
      BY DEF Phase, Holding, Fenced
    <2>4. /\ v \in CallerRecord /\ v.phase = "chosen" /\ v.through = Hi(s)
          /\ v.todo = k.todo /\ v.why = k.why /\ v.job = k.job
      BY <1>1, <2>1, <2>2, <2>3 DEF CallerRecord
    <2>5. Doing(v)
      BY <1>1, <2>2, <2>4 DEF Doing, Remembers, Relies, Knows
    <2>6. Go("keeper", v) /\ Role("keeper", v) /\ Jobbed
      <3>1. Go("keeper", v)
        BY <1>3, <2>1
      <3>2. Role("keeper", v)
        BY <2>4, KeeperRole
      <3> QED BY <1>1, <3>1, <3>2, JobsSame
    <2>7. v.phase \notin Holding
      BY <2>3, <2>4
    <2> QED BY <1>1, <2>4, <2>5, <2>6, <2>7, Names, GoStill
  <1>4. Return("keeper") \/ \E n \in {Hi(s) : s \in Active(cursor)} :
            /\ \A s \in {t \in Active(cursor) : Hi(t) <= n} : Releasable(s)
            /\ Go("keeper", [k EXCEPT !.phase = "chosen", !.through = n])
    BY DEF ChooseRelease
  <1>5. \A s \in Active(cursor) : Hi(s) <= Hi(s)
    BY <1>1, ActiveIs DEF Seg
  <1> QED BY <1>2, <1>3, <1>4, <1>5

(* It takes the lock of the conversation.                                   *)
LEMMA StartReleaseStep == ASSUME DiskInv, StartRelease PROVE Step("keeper") /\ Jobbed
  <1>1. PICK v : v = [callers["keeper"] EXCEPT !.phase = "release"]
    OBVIOUS
  <1>2. callers["keeper"].phase = "chosen" /\ Go("keeper", v) /\ Still /\ Free("keeper") /\ UNCHANGED jobs
    BY <1>1 DEF StartRelease, Still, disk
  <1>3. /\ callers["keeper"] \in CallerRecord /\ Remembers(callers["keeper"]) /\ Knows(callers["keeper"])
    BY Names, Known
  <1>4. /\ v \in CallerRecord /\ v.phase = "release" /\ v.through = callers["keeper"].through
        /\ v.todo = callers["keeper"].todo /\ v.why = callers["keeper"].why /\ v.job = callers["keeper"].job
    <2>1. "release" \in Phase
      BY DEF Phase, Holding, Fenced
    <2> QED BY <1>1, <1>3, <2>1, PhaseRecord
  <1>5. Doing(v)
    BY <1>2, <1>3, <1>4 DEF Doing, Remembers, Relies, Knows
  <1> QED BY <1>2, <1>4, <1>5, Names, KeeperRole, GoStill, JobsSame

(* The cursor moves over the released segments before a file is deleted.    *)
LEMMA ReleasePrefixStep == ASSUME DiskInv, ReleasePrefix PROVE Step("keeper") /\ Jobbed
  <1> DEFINE k == callers["keeper"]
  <1>1. /\ k.phase = "release" /\ Newer = {} /\ FilesInv /\ NoNewer /\ k \in CallerRecord
        /\ Remembers(k) /\ Knows(k) /\ cursor' = ReleasedCursor(k.through) /\ UNCHANGED <<live, history, jobs>>
    BY Names, Known, RepairedIs DEF ReleasePrefix, Loaded
  <1>2. PICK u : u = {[seg |-> s, exhausted |-> FALSE] : s \in {t \in Active(cursor) : Hi(t) <= k.through}}
    OBVIOUS
  <1>3. PICK v : v = [k EXCEPT !.phase = "unlink", !.todo = u]
    OBVIOUS
  <1>4. Go("keeper", v)
    BY <1>2, <1>3 DEF ReleasePrefix
  <1>5. \A t \in u : Seg(t.seg) /\ Hi(t.seg) <= k.through /\ t \in [seg : File, exhausted : BOOLEAN]
    <2> SUFFICES ASSUME NEW t \in u
                 PROVE  Seg(t.seg) /\ Hi(t.seg) <= k.through /\ t \in [seg : File, exhausted : BOOLEAN]
      OBVIOUS
    <2>1. PICK s \in Active(cursor) : Hi(s) <= k.through /\ t = [seg |-> s, exhausted |-> FALSE]
      BY <1>2
    <2>2. Seg(s) /\ s \in File
      BY <1>1, ActiveIs, SegType DEF File
    <2>3. t.seg = s
      BY <2>1
    <2>4. t \in [seg : File, exhausted : BOOLEAN]
      BY <2>1, <2>2
    <2> QED BY <2>1, <2>2, <2>3, <2>4
  <1>6. /\ v \in CallerRecord /\ v.phase = "unlink" /\ v.todo = u /\ v.why = k.why /\ v.job = k.job
    <2>1. "unlink" \in Phase /\ u \in SUBSET [seg : File, exhausted : BOOLEAN]
      BY <1>5 DEF Phase, Holding, Fenced
    <2> QED BY <1>1, <1>3, <2>1 DEF CallerRecord
  <1>7. cursor'.released = k.through
    BY <1>1 DEF ReleasedCursor, FilesInv, FilesTyped, CursorRecord
  <1>8. Doing(v)'
    <2>1. Remembers(v)
      BY <1>1, <1>5, <1>6 DEF Remembers
    <2>2. Relies(v)'
      BY <1>6 DEF Relies
    <2>3. Knows(v)'
      BY <1>5, <1>6, <1>7 DEF Knows
    <2> QED BY <2>1, <2>2, <2>3 DEF Doing, Remembers
  <1>9. k.phase \in Holding
    BY <1>1 DEF Holding, Fenced
  <1>10. Move("keeper")
    <2>1. Releases(k.through)
      BY <1>1 DEF Releases, Knows
    <2> QED BY <1>9, <2>1 DEF Move
  <1> QED BY <1>1, <1>4, <1>6, <1>8, <1>9, <1>10, Names, KeeperRole, GoStep, JobsSame

(* Only files of released segments are deleted.                             *)
LEMMA UnlinkStep == ASSUME DiskInv, Unlink PROVE Step("keeper") /\ Jobbed
  <1> DEFINE k == callers["keeper"]
  <1>1. /\ k.phase = "unlink" /\ FilesInv /\ k \in CallerRecord /\ k.phase \in Holding
        /\ Remembers(k) /\ Knows(k) /\ UNCHANGED <<live, cursor, jobs>>
    BY Names, Known DEF Unlink, Holding, Fenced
  <1>2. CASE Return("keeper") /\ UNCHANGED history
    BY <1>1, <1>2, Names, ReturnStep, JobsSame DEF Move, Still
  <1>3. ASSUME NEW t \in k.todo, history' = history \ {t.seg}, Go("keeper", [k EXCEPT !.todo = @ \ {t}])
        PROVE  Step("keeper") /\ Jobbed
    <2>1. PICK v : v = [k EXCEPT !.todo = @ \ {t}]
      OBVIOUS
    <2>2. /\ v \in CallerRecord /\ v.phase = "unlink" /\ v.todo = k.todo \ {t} /\ v.why = k.why /\ v.job = k.job
      BY <1>1, <2>1 DEF CallerRecord
    <2>3. Seg(t.seg) /\ Drops(t.seg)
      BY <1>1, <1>3 DEF Remembers, Knows, Drops, IsStale
    <2>4. Doing(v)'
      <3>1. Remembers(v)
        BY <1>1, <2>2 DEF Remembers
      <3>2. Relies(v)'
        BY <2>2 DEF Relies
      <3>3. Knows(v)'
        BY <1>1, <2>2 DEF Knows
      <3> QED BY <3>1, <3>2, <3>3 DEF Doing, Remembers
    <2>5. Move("keeper")
      BY <1>1, <2>3 DEF Move
    <2>6. Go("keeper", v) /\ Role("keeper", v) /\ Jobbed
      <3>1. Go("keeper", v)
        BY <1>3, <2>1
      <3>2. Role("keeper", v)
        BY <2>2, KeeperRole
      <3> QED BY <1>1, <3>1, <3>2, JobsSame
    <2> QED BY <1>1, <2>2, <2>4, <2>5, <2>6, Names, GoStep
  <1> QED BY <1>2, <1>3 DEF Unlink

(* Files a cut-off release left behind are deleted later.                   *)
LEMMA PurgeStep == ASSUME DiskInv, Purge PROVE Step("keeper") /\ Jobbed
  <1> DEFINE k == callers["keeper"]
  <1>1. /\ k.phase = "purge" /\ FilesInv /\ k.phase \in Holding
        /\ Remembers(k) /\ UNCHANGED <<live, cursor, jobs>>
    BY Names, Known DEF Purge, Holding, Fenced
  <1>2. CASE Return("keeper") /\ UNCHANGED history
    BY <1>1, <1>2, Names, ReturnStep, JobsSame DEF Move, Still
  <1>3. ASSUME NEW s \in Stale, history' = history \ {s}, callers' = callers
        PROVE  Step("keeper") /\ Jobbed
    <2>1. Seg(s) /\ Drops(s)
      BY <1>1, <1>3 DEF Stale, Drops, IsStale, FilesInv, FilesTyped
    <2>2. Move("keeper")
      BY <1>1, <2>1 DEF Move
    <2>3. PICK w : w = k
      OBVIOUS
    <2>4. Remembers(w) /\ Relies(w)' /\ Knows(w)'
      BY <1>1, <2>3 DEF Relies, Knows
    <2>5. callers'["keeper"] = w
      BY <1>3, <2>3
    <2>6. Doing(callers["keeper"])'
      BY <2>4, <2>5 DEF Doing, Remembers
    <2> QED BY <1>1, <1>3, <2>2, <2>6, Names, StayStep, JobsSame
  <1> QED BY <1>2, <1>3 DEF Purge

-----------------------------------------------------------------------------
(* Every step of the journal is a step of somebody.                         *)
LEMMA NextStep == ASSUME DiskInv, Next PROVE \E c \in Caller : Step(c) /\ Jobbed
  <1>1. ASSUME NEW c \in Foreground, Foregrounds(c) PROVE Step(c) /\ Jobbed
    BY <1>1, StartAppendStep, AppendKnownStep, PrepareStep, WriteLiveStep,
       CommitReceiptStep,
       StartPassStep, PlanStep, ListStagedStep, CompleteNextStep, CompletedAllStep,
       CallbackStep, LoseLeaseStep, SealSecondStep, RestageStep, EnqueueStep DEF Foregrounds
  <1>2. ASSUME NEW c \in Foreground \cup {"worker"}, Seals(c) PROVE Step(c) /\ Jobbed
    BY <1>2, StagedSegmentStep, StartSealStep, SealFirstStep, TruncateLiveStep,
       SealReturnsStep,
       CompletedStep DEF Seals
  <1>3. ASSUME Keeping PROVE Step("keeper") /\ Jobbed
    BY <1>3, StartKeepingStep, ChooseReleaseStep, StartReleaseStep,
       ReleasePrefixStep, UnlinkStep,
       PurgeStep DEF Keeping
  <1>4. ASSUME NEW c \in Caller, \/ Repair(c) \/ Trim(c) \/ Refuse(c) \/ Stop(c)
                                 \/ \E d \in DeliveryId : RecoverReceipt(c, d)
        PROVE  \E x \in Caller : Step(x) /\ Jobbed
    BY <1>4, RepairStep, TrimStep, RefuseStep, RecoverReceiptStep, Names
  <1>5. ASSUME NEW s \in DOMAIN jobs, StartRecovery(s) \/ JobStep(s)
        PROVE  \E x \in Caller : Step(x) /\ Jobbed
    BY <1>5, StartRecoveryStep, JobStepStep, Names
  <1> QED BY <1>1, <1>2, <1>3, <1>4, <1>5, Names, Sealer DEF Next, JobStep

(* An empty archive has the invariant.                                      *)
LEMMA DiskInit == Init => DiskInv
  <1> SUFFICES ASSUME Init PROVE DiskInv
    OBVIOUS
  <1>1. FilesInv
    <2>1. cursor \in CursorRecord /\ cursor.archived = -1 /\ cursor.released = -1
      BY DEF Init, NoCursor, CursorRecord
    <2> QED BY <2>1 DEF Init, FilesInv, FilesTyped, Tiled, Joins
  <1>2. CallersInv
    BY IdleIs DEF Init, CallersInv, Exclusive, Holding, Fenced
  <1>3. JobsInv
    BY EmptyFile DEF Init, JobsInv, Empty
  <1> QED BY <1>1, <1>2, <1>3 DEF DiskInv

(* Every step of every caller keeps it.                                     *)
LEMMA DiskNext == DiskInv /\ [Next]_vars => DiskInv'
  <1> SUFFICES ASSUME DiskInv, [Next]_vars PROVE DiskInv'
    OBVIOUS
  <1>1. CASE Next
    BY <1>1, NextStep, StepInv
  <1>2. CASE UNCHANGED vars
    <2>1. Still /\ UNCHANGED <<callers, jobs>>
      BY <1>2 DEF vars, Still
    <2> QED BY <2>1, NobodyStep, JobsSame, StepInv, Names
  <1> QED BY <1>1, <1>2

(* Whatever the callers do, and wherever a crash or an error stops them,    *)
(* the history tiles the sequence numbers from the released to the archived *)
(* one, the live file goes on where it ends or still begins with the        *)
(* segment being sealed, every caller's memory of the files is right under  *)
(* the lock it holds, and no job is activated before its segment is off the *)
(* live file (append, seal, _publish_seal and release_history_prefix of     *)
(* messages.py).                                                            *)
THEOREM DiskAlways == Spec => []DiskInv
  BY DiskInit, DiskNext, PTL DEF Spec

-----------------------------------------------------------------------------
(* What was acknowledged is stored.                                         *)

(* A receipt and the batch it was written for.                              *)
ReceiptRecord == [state : {"none", "prepared", "committed"}, batch : File]

(* The messages of a file are there, but for those that are released.       *)
Kept(b) == \A n \in DOMAIN b : n > cursor.released => Stored(n, b[n])

(* A delivery that is being appended has its receipt, and is stored once    *)
(* it is written.                                                           *)
Owns(v) ==
    /\ v.phase \in {"prepared", "written"} => receipts[v.req.id] = PreparedReceipt(v.req)
    /\ v.phase = "written" => Kept(v.req.batch)

(* A committed receipt's batch is stored.                                   *)
ReceiptsInv ==
    /\ receipts \in [DeliveryId -> ReceiptRecord]
    /\ \A d \in DeliveryId : receipts[d].state # "none" => Seg(receipts[d].batch)
    /\ \A d \in DeliveryId : receipts[d].state = "committed" => Kept(receipts[d].batch)

(* So is what was acknowledged.                                             *)
AckInv ==
    /\ ReceiptsInv
    /\ acked \subseteq Request /\ \A r \in acked : Kept(r.batch)
    /\ \A c \in Foreground : Owns(callers[c])

(* Stored messages stay stored.                                             *)
LEMMA KeptStable == ASSUME FilesInv, FilesInv', Stable, NEW b, Seg(b), Kept(b) PROVE Kept(b)'
  <1>1. \A n \in DOMAIN b : n \in Nat
    BY DEF Seg
  <1>2. cursor.released \in Int /\ cursor'.released \in Int /\ cursor.released <= cursor'.released
    <2>1. \A x \in Sequence \cup {-1} : x \in Int
      BY JournalConstants
    <2> QED BY <2>1 DEF Stable, FilesInv, FilesTyped, CursorRecord
  <1>3. ASSUME NEW n \in DOMAIN b, n > cursor'.released PROVE Stored(n, b[n])'
    <2>1. n \in Nat /\ n > cursor.released
      BY <1>1, <1>2, <1>3
    <2> QED BY <1>3, <2>1 DEF Kept, Stable
  <1> QED BY <1>3 DEF Kept

(* What a merge shows is stored in one of the files.                        *)
LEMMA MergeStored ==
    ASSUME NEW files, NEW n \in DOMAIN Merge(files)
    PROVE  \E f \in files : n \in DOMAIN f /\ f[n] = Merge(files)[n]
  <1>1. n \in UNION {DOMAIN f : f \in files}
    BY DEF Merge
  <1>2. PICK g : g = (CHOOSE f \in files : n \in DOMAIN f)
    OBVIOUS
  <1>3. g \in files /\ n \in DOMAIN g
    BY <1>1, <1>2
  <1>4. Merge(files)[n] = g[n]
    BY <1>1, <1>2 DEF Merge
  <1> QED BY <1>3, <1>4

(* An opened journal has every message up to its end, but the released.     *)
LEMMA Covered ==
    ASSUME FilesInv, Quiet, NEW n \in Nat, cursor.released < n, n < next_sequence
    PROVE  \E f \in {live} \cup history : n \in DOMAIN f
  <1>1. CASE n <= cursor.archived
    <2>1. n \in (cursor.released + 1)..cursor.archived
      BY <1>1, CursorType
    <2> QED BY <2>1 DEF FilesInv, Tiled
  <1>2. CASE n > cursor.archived
    <2>1. live # Empty
      BY <1>2, NextIs, CursorType
    <2>2. Seg(live) /\ Lo(live) = cursor.archived + 1 /\ n < Hi(live) + 1
      BY <2>1, LiveEmpty, NextIs DEF Quiet
    <2>3. n \in DOMAIN live
      BY <1>2, <2>2, CursorType DEF Seg
    <2> QED BY <2>3
  <1> QED BY <1>1, <1>2, CursorType

(* Neither receipts nor deliveries move.                                    *)
NoAppend ==
    /\ UNCHANGED <<receipts, acked>>
    /\ \A c \in Foreground : callers'[c].phase \in {"prepared", "written"} => callers'[c] = callers[c]

(* A step away from receipts and deliveries keeps what was promised.        *)
LEMMA NoAppendKeeps ==
    ASSUME DiskInv, FilesInv', Stable, AckInv, NoAppend PROVE AckInv'
  <1>1. \A b : Seg(b) /\ Kept(b) => Kept(b)'
    BY KeptStable DEF DiskInv
  <1>2. ReceiptsInv'
    BY <1>1 DEF AckInv, ReceiptsInv, NoAppend
  <1>3. (acked \subseteq Request /\ \A r \in acked : Kept(r.batch))'
    BY <1>1, BatchSeg DEF AckInv, NoAppend
  <1>4. ASSUME NEW c \in Foreground PROVE Owns(callers[c])'
    <2>1. CASE callers'[c].phase \notin {"prepared", "written"}
      BY <2>1 DEF Owns
    <2>2. CASE callers'[c].phase \in {"prepared", "written"}
      <3>1. callers'[c] = callers[c] /\ Owns(callers[c]) /\ receipts' = receipts
        BY <2>2 DEF NoAppend, AckInv
      <3>2. PICK v : v = callers[c]
        OBVIOUS
      <3>3. Seg(v.req.batch)
        BY <2>2, <3>1, <3>2, Names, Known, BatchSeg DEF Remembers
      <3>4. Owns(v)'
        BY <1>1, <3>1, <3>2, <3>3 DEF Owns
      <3> QED BY <3>1, <3>2, <3>4
    <2> QED BY <2>1, <2>2
  <1> QED BY <1>2, <1>3, <1>4 DEF AckInv

(* A caller goes on to a phase that appends nothing.                        *)
LEMMA GoElsewhere ==
    ASSUME DiskInv, NEW d \in Caller, NEW v, Go(d, v), v.phase \notin {"prepared", "written"},
           UNCHANGED <<receipts, acked>>
    PROVE  NoAppend
  <1>1. callers \in [Caller -> CallerRecord]
    BY DEF DiskInv, CallersInv
  <1>2. \A c \in Foreground : callers'[c] = callers[c] \/ callers'[c] = v
    BY <1>1, Names DEF Go
  <1> QED BY <1>2 DEF NoAppend

(* A change of phase outside append is such a step.                         *)
LEMMA GoPhase ==
    ASSUME DiskInv, NEW d \in Caller, NEW p, p \notin {"prepared", "written"},
           Go(d, [callers[d] EXCEPT !.phase = p]), UNCHANGED <<receipts, acked>>
    PROVE  NoAppend
  <1>1. [callers[d] EXCEPT !.phase = p].phase = p
    BY Known DEF CallerRecord
  <1> QED BY <1>1, GoElsewhere

(* The foreground's other operations, one by one.                           *)
LEMMA ForegroundElsewhere ==
    ASSUME DiskInv, NEW c \in Foreground,
           \/ \E r \in Request : StartAppend(c, r)
           \/ AppendRefused(c) \/ StartPass(c) \/ Plan(c) \/ ListStaged(c) \/ CompleteNext(c)
           \/ CompletedAll(c) \/ Callback(c) \/ LoseLease(c) \/ SealSecond(c) \/ Restage(c) \/ Enqueue(c)
    PROVE  NoAppend
  <1>0. c \in Caller /\ callers[c] \in CallerRecord /\ Idle \in CallerRecord /\ Idle.phase = "idle"
    BY Names, Known, IdleIs
  <1>1. CASE \E r \in Request : StartAppend(c, r)
    <2>1. PICK r \in Request : StartAppend(c, r)
      BY <1>1
    <2>2. [Idle EXCEPT !.phase = "append", !.req = r].phase = "append"
      BY <1>0 DEF CallerRecord
    <2> QED BY <1>0, <2>1, <2>2, GoElsewhere DEF StartAppend, disk
  <1>2. CASE AppendRefused(c)
    BY <1>0, <1>2, GoElsewhere DEF AppendRefused, Return, disk
  <1>3. CASE StartPass(c)
    BY <1>0, <1>3, GoElsewhere DEF StartPass, CallerRecord, disk
  <1>4. CASE Plan(c)
    <2>1. CASE Return(c)
      BY <1>0, <1>4, <2>1, GoElsewhere DEF Return, Plan, disk
    <2>2. ASSUME NEW n, NEW p, p \in {"boundary", "listing"},
                 Go(c, [callers[c] EXCEPT !.phase = p, !.through = n])
          PROVE  NoAppend
      <3>1. [callers[c] EXCEPT !.phase = p, !.through = n].phase = p
        BY <1>0 DEF CallerRecord
      <3> QED BY <1>0, <1>4, <2>2, <3>1, GoElsewhere DEF Plan, disk
    <2>3. (IF callers[c].checked THEN "boundary" ELSE "listing") \in {"boundary", "listing"}
      OBVIOUS
    <2> QED BY <1>4, <2>1, <2>2, <2>3 DEF Plan
  <1>5. CASE ListStaged(c)
    <2>1. PICK u : u = {[seg |-> s, exhausted |-> jobs[s] = "FAILED"] : s \in Unfinished}
      OBVIOUS
    <2>2. [callers[c] EXCEPT !.phase = "completing", !.checked = TRUE, !.todo = u].phase = "completing"
      BY <1>0 DEF CallerRecord
    <2>3. /\ Go(c, [callers[c] EXCEPT !.phase = "completing", !.checked = TRUE, !.todo = u])
          /\ UNCHANGED <<receipts, acked>>
      BY <1>5, <2>1 DEF ListStaged, disk
    <2> QED BY <1>0, <2>2, <2>3, GoElsewhere
  <1>6. CASE CompleteNext(c)
    <2>1. PICK t \in callers[c].todo :
             Go(c, [callers[c] EXCEPT !.phase = "read", !.job = t.seg, !.todo = @ \ {t},
                          !.why = IF t.exhausted THEN "exhausted" ELSE "complete"])
      BY <1>6 DEF CompleteNext
    <2>2. PICK v : v = [callers[c] EXCEPT !.phase = "read", !.job = t.seg, !.todo = @ \ {t},
                          !.why = IF t.exhausted THEN "exhausted" ELSE "complete"]
      OBVIOUS
    <2>3. v.phase = "read"
      BY <1>0, <2>2 DEF CallerRecord
    <2>4. Go(c, v) /\ UNCHANGED <<receipts, acked>>
      BY <1>6, <2>1, <2>2 DEF CompleteNext, disk
    <2> QED BY <1>0, <2>3, <2>4, GoElsewhere
  <1>7. CASE CompletedAll(c)
    <2>1. /\ [Idle EXCEPT !.phase = "plan", !.checked = TRUE].phase = "plan"
          /\ [Idle EXCEPT !.phase = "boundary", !.through = callers[c].through, !.checked = TRUE].phase = "boundary"
      BY <1>0 DEF CallerRecord
    <2>2. /\ UNCHANGED <<receipts, acked>>
          /\ \/ Go(c, [Idle EXCEPT !.phase = "plan", !.checked = TRUE])
             \/ Go(c, [Idle EXCEPT !.phase = "boundary", !.through = callers[c].through, !.checked = TRUE])
      BY <1>7 DEF CompletedAll, disk
    <2> QED BY <1>0, <2>1, <2>2, GoElsewhere
  <1>8. CASE Callback(c)
    BY <1>0, <1>8, GoPhase, GoElsewhere DEF Callback, Return, disk
  <1>9. CASE LoseLease(c)
    BY <1>0, <1>9, GoPhase, GoElsewhere DEF LoseLease, Return, disk
  <1>10. CASE SealSecond(c)
    BY <1>0, <1>10, GoPhase, GoElsewhere DEF SealSecond
  <1>11. CASE Restage(c)
    BY <1>0, <1>11, GoPhase, GoElsewhere DEF Restage, disk
  <1>12. CASE Enqueue(c)
    <2>1. [Idle EXCEPT !.phase = "plan", !.checked = TRUE].phase = "plan"
      BY <1>0 DEF CallerRecord
    <2> QED BY <1>0, <1>12, <2>1, GoElsewhere DEF Enqueue, Return, disk
  <1> QED BY <1>1, <1>2, <1>3, <1>4, <1>5, <1>6, <1>7, <1>8, <1>9, <1>10, <1>11, <1>12

(* So is every part of a seal.                                              *)
LEMMA SealsElsewhere ==
    ASSUME DiskInv, NEW c \in Foreground \cup {"worker"}, Seals(c) PROVE NoAppend
  <1>0. c \in Caller /\ callers[c] \in CallerRecord /\ Idle.phase = "idle"
    BY Sealer, Known, IdleIs
  <1>1. ASSUME NEW p, NEW s PROVE [callers[c] EXCEPT !.phase = p, !.seg = s].phase = p
    BY <1>0 DEF CallerRecord
  <1>2. CASE StagedSegment(c)
    <2>1. ASSUME NEW n PROVE [callers[c] EXCEPT !.phase = "boundary", !.through = n].phase = "boundary"
      BY <1>0 DEF CallerRecord
    <2>2. /\ UNCHANGED <<receipts, acked>>
          /\ \/ Go(c, [callers[c] EXCEPT !.phase = "completing"])
             \/ Go(c, [callers[c] EXCEPT !.phase = "sealed", !.seg = callers[c].job])
             \/ Go(c, [callers[c] EXCEPT !.phase = "boundary", !.through = Hi(callers[c].job)])
      BY <1>2 DEF StagedSegment, disk
    <2>3. CASE Go(c, [callers[c] EXCEPT !.phase = "completing"])
      BY <1>0, <2>2, <2>3, GoPhase
    <2>4. CASE Go(c, [callers[c] EXCEPT !.phase = "sealed", !.seg = callers[c].job])
      <3>1. PICK v : v = [callers[c] EXCEPT !.phase = "sealed", !.seg = callers[c].job]
        OBVIOUS
      <3>2. v.phase = "sealed"
        BY <1>1, <3>1
      <3>3. Go(c, v)
        BY <2>4, <3>1
      <3> QED BY <1>0, <2>2, <3>2, <3>3, GoElsewhere
    <2>5. CASE Go(c, [callers[c] EXCEPT !.phase = "boundary", !.through = Hi(callers[c].job)])
      BY <1>0, <2>1, <2>2, <2>5, GoElsewhere
    <2> QED BY <2>2, <2>3, <2>4, <2>5
  <1>3. CASE StartSeal(c)
    BY <1>0, <1>3, GoPhase, GoElsewhere DEF StartSeal, disk
  <1>4. CASE SealFirst(c)
    <2>1. PICK s : s = SealPlan(callers[c].through)
      OBVIOUS
    <2>2. /\ UNCHANGED <<receipts, acked>>
          /\ \E p \in {"sealed", "staging", "created"} : Go(c, [callers[c] EXCEPT !.phase = p, !.seg = s])
      BY <1>4, <2>1 DEF SealFirst
    <2>3. PICK p \in {"sealed", "staging", "created"} : Go(c, [callers[c] EXCEPT !.phase = p, !.seg = s])
      BY <2>2
    <2>4. [callers[c] EXCEPT !.phase = p, !.seg = s].phase = p
      BY <1>1
    <2> QED BY <1>0, <2>2, <2>3, <2>4, GoElsewhere
  <1>5. CASE TruncateLive(c)
    BY <1>0, <1>5, GoPhase, GoElsewhere DEF TruncateLive
  <1>6. CASE SealReturns(c)
    BY <1>0, <1>6, GoPhase, GoElsewhere DEF SealReturns, disk
  <1>7. CASE Completed(c)
    <2>1. [callers[c] EXCEPT !.phase = "completing", !.completed = TRUE].phase = "completing"
      BY <1>0 DEF CallerRecord
    <2> QED BY <1>0, <1>7, <2>1, GoElsewhere DEF Completed, Return, disk
  <1> QED BY <1>2, <1>3, <1>4, <1>5, <1>6, <1>7 DEF Seals

(* So are repairs, failures, the jobs and the lifecycle.                    *)
LEMMA OthersElsewhere ==
    ASSUME DiskInv,
           \/ \E c \in Caller : Repair(c) \/ Trim(c) \/ Refuse(c) \/ Stop(c)
           \/ \E s \in DOMAIN jobs : StartRecovery(s) \/ JobStep(s)
           \/ Keeping
           \/ UNCHANGED vars
    PROVE  NoAppend
  <1>0. Idle \in CallerRecord /\ Idle.phase = "idle" /\ "keeper" \in Caller /\ "worker" \in Caller
        /\ callers["keeper"] \in CallerRecord /\ "keeper" \notin Foreground
    BY Names, Known, IdleIs
  <1>1. ASSUME NEW c \in Caller, Repair(c) \/ Trim(c) PROVE NoAppend
    BY <1>1 DEF Repair, Trim, NoAppend
  <1>2. ASSUME NEW c \in Caller, Refuse(c) \/ Stop(c) PROVE NoAppend
    BY <1>0, <1>2, GoElsewhere DEF Refuse, Stop, Return, disk
  <1>3. ASSUME NEW s \in DOMAIN jobs, StartRecovery(s) PROVE NoAppend
    <2>1. [Idle EXCEPT !.phase = "read", !.job = s, !.why = "recover"].phase = "read"
      BY <1>0 DEF CallerRecord
    <2> QED BY <1>0, <1>3, <2>1, GoElsewhere DEF StartRecovery, disk
  <1>4. ASSUME NEW s \in DOMAIN jobs, JobStep(s) PROVE NoAppend
    BY <1>4 DEF JobStep, CommitJob, FailJob, RetryFailed, AbandonFailed, DiscardJob, NoAppend, disk
  <1>5. ASSUME NEW v, Go("keeper", v), UNCHANGED <<receipts, acked>> PROVE NoAppend
    <2>1. \A c \in Foreground : callers'[c] = callers[c]
      BY <1>0, <1>5, Names DEF Go, DiskInv, CallersInv
    <2> QED BY <1>5, <2>1 DEF NoAppend
  <1>6. CASE Keeping
    <2>1. CASE StartKeeping
      BY <1>5, <2>1 DEF StartKeeping, disk
    <2>2. CASE ChooseRelease
      BY <1>5, <2>2 DEF ChooseRelease, Return, disk
    <2>3. CASE StartRelease
      BY <1>5, <2>3 DEF StartRelease, disk
    <2>4. CASE ReleasePrefix
      BY <1>5, <2>4 DEF ReleasePrefix
    <2>5. CASE Unlink
      BY <1>5, <2>5 DEF Unlink, Return
    <2>6. CASE Purge
      BY <1>5, <2>6 DEF Purge, Return, NoAppend
    <2> QED BY <1>6, <2>1, <2>2, <2>3, <2>4, <2>5, <2>6 DEF Keeping
  <1>7. CASE UNCHANGED vars
    BY <1>7 DEF vars, NoAppend
  <1> QED BY <1>1, <1>2, <1>3, <1>4, <1>6, <1>7

-----------------------------------------------------------------------------
(* The steps of an append.                                                  *)

LEMMA RequestIds == \A r \in Request : r.id \in DeliveryId
  BY DEF DeliveryId

(* A prepared receipt is a receipt.                                         *)
LEMMA BatchFile == \A r \in Request : PreparedReceipt(r) \in ReceiptRecord
  <1> SUFFICES ASSUME NEW r \in Request PROVE PreparedReceipt(r) \in ReceiptRecord
    OBVIOUS
  <1>1. r.batch \in File
    BY BatchSeg, SegType DEF File
  <1> QED BY <1>1 DEF PreparedReceipt, ReceiptRecord

(* A foreground in its append holds the lock, so nobody else appends.       *)
LEMMA AppendsAlone ==
    ASSUME DiskInv, NEW c \in Caller, NEW d \in Caller, c # d, callers[d].phase \in Holding
    PROVE  callers[c].phase \notin {"prepared", "written"}
  BY DEF DiskInv, CallersInv, Exclusive, Holding, Fenced

(* The append step of c, given what it leaves.                              *)
LEMMA AppendKeeps ==
    ASSUME DiskInv, FilesInv', Stable, AckInv, NEW c \in Foreground, NEW v, Go(c, v),
           callers[c].phase \in Holding, ReceiptsInv', Owns(v)',
           (acked \subseteq Request /\ \A r \in acked : Kept(r.batch))'
    PROVE  AckInv'
  <1>1. callers \in [Caller -> CallerRecord] /\ c \in Caller
    BY Names DEF DiskInv, CallersInv
  <1>2. ASSUME NEW d \in Foreground PROVE Owns(callers[d])'
    <2>1. CASE d = c
      <3>1. callers'[d] = v
        BY <1>1, <2>1 DEF Go
      <3> QED BY <3>1
    <2>2. CASE d # c
      <3>1. callers'[d] = callers[d] /\ callers[d].phase \notin {"prepared", "written"}
        BY <1>1, <2>2, Names, AppendsAlone DEF Go
      <3> QED BY <3>1 DEF Owns
    <2> QED BY <2>1, <2>2
  <1> QED BY <1>2 DEF AckInv

(* One receipt is rewritten.                                                *)
LEMMA ReceiptKeeps ==
    ASSUME DiskInv, FilesInv', Stable, AckInv, NEW d \in DeliveryId, NEW x \in ReceiptRecord,
           receipts' = [receipts EXCEPT ![d] = x],
           x.state # "none" => Seg(x.batch), x.state = "committed" => Kept(x.batch)'
    PROVE  ReceiptsInv'
  <1>1. /\ receipts' \in [DeliveryId -> ReceiptRecord]
        /\ \A e \in DeliveryId : receipts'[e] = x \/ receipts'[e] = receipts[e]
    BY DEF AckInv, ReceiptsInv
  <1>2. ASSUME NEW e \in DeliveryId, NEW y, y = receipts'[e]
        PROVE  (y.state # "none" => Seg(y.batch)) /\ (y.state = "committed" => Kept(y.batch)')
    <2>1. CASE y = x
      BY <2>1
    <2>2. CASE y = receipts[e]
      <3>1. (y.state # "none" => Seg(y.batch)) /\ (y.state = "committed" => Seg(y.batch) /\ Kept(y.batch))
        BY <2>2 DEF AckInv, ReceiptsInv
      <3> QED BY <3>1, KeptStable DEF DiskInv
    <2> QED BY <1>1, <1>2, <2>1, <2>2
  <1> QED BY <1>1, <1>2 DEF ReceiptsInv

(* An idle caller has promised nothing.                                     *)
LEMMA IdleOwns == Owns(Idle)'
  BY IdleIs DEF Owns

(* A delivery is acknowledged again only from its committed receipt.        *)
LEMMA AppendKnownAck ==
    ASSUME DiskInv, FilesInv', Stable, AckInv, NEW c \in Foreground, AppendKnown(c) PROVE AckInv'
  <1>0. PICK r : r = callers[c].req
    OBVIOUS
  <1>1. /\ callers[c].phase = "append" /\ receipts[r.id].state = "committed"
        /\ acked' = IF receipts[r.id].batch = r.batch THEN acked \cup {r} ELSE acked
        /\ Return(c) /\ UNCHANGED <<disk, jobs>>
    BY <1>0 DEF AppendKnown
  <1>2. r \in Request /\ r.id \in DeliveryId /\ callers[c].phase \in Holding
    BY <1>0, <1>1, Names, Known, RequestIds DEF Remembers, Holding, Fenced
  <1>3. \A b : Seg(b) /\ Kept(b) => Kept(b)'
    BY KeptStable DEF DiskInv
  <1>4. ReceiptsInv'
    BY <1>1, <1>3 DEF AckInv, ReceiptsInv, disk
  <1>5. (acked \subseteq Request /\ \A q \in acked : Kept(q.batch))'
    <2>1. \A q \in acked : Kept(q.batch)' /\ q \in Request
      BY <1>3, BatchSeg DEF AckInv
    <2>2. receipts[r.id].batch = r.batch => Kept(r.batch)'
      BY <1>1, <1>2, <1>3, BatchSeg DEF AckInv, ReceiptsInv
    <2>3. \A q \in acked' : Kept(q.batch)' /\ q \in Request
      <3>1. CASE receipts[r.id].batch = r.batch
        <4>1. acked' = acked \cup {r}
          BY <1>1, <3>1
        <4> QED BY <1>2, <2>1, <2>2, <3>1, <4>1
      <3>2. CASE receipts[r.id].batch # r.batch
        BY <1>1, <2>1, <3>2
      <3> QED BY <3>1, <3>2
    <2> QED BY <2>3
  <1> QED BY <1>1, <1>2, <1>4, <1>5, IdleOwns, AppendKeeps DEF Return

(* The prepared receipt names the batch that is about to be written;        *)
(* nothing is promised yet.                                                 *)
LEMMA PrepareAck ==
    ASSUME DiskInv, FilesInv', Stable, AckInv, NEW c \in Foreground, Prepare(c) PROVE AckInv'
  <1>0. PICK r : r = callers[c].req
    OBVIOUS
  <1>1. /\ callers[c].phase = "append" /\ receipts' = [receipts EXCEPT ![r.id] = PreparedReceipt(r)]
        /\ UNCHANGED acked
    BY <1>0 DEF Prepare
  <1>2. r \in Request /\ r.id \in DeliveryId /\ callers[c].phase \in Holding /\ callers[c] \in CallerRecord
    BY <1>0, <1>1, Names, Known, RequestIds DEF Remembers, Holding, Fenced
  <1>3. \A b : Seg(b) /\ Kept(b) => Kept(b)'
    BY KeptStable DEF DiskInv
  <1>4. ReceiptsInv'
    <2>1. PreparedReceipt(r) \in ReceiptRecord /\ PreparedReceipt(r).state = "prepared"
          /\ Seg(PreparedReceipt(r).batch)
      BY <1>2, BatchFile, BatchSeg DEF PreparedReceipt
    <2>2. PICK x : x = PreparedReceipt(r)
      OBVIOUS
    <2> QED BY <1>1, <1>2, <2>1, <2>2, ReceiptKeeps
  <1>5. (acked \subseteq Request /\ \A q \in acked : Kept(q.batch))'
    BY <1>1, <1>3, BatchSeg DEF AckInv
  <1>6. PICK v : v = [callers[c] EXCEPT !.phase = "prepared"]
    OBVIOUS
  <1>7. Go(c, v)
    BY <1>6 DEF Prepare
  <1>8. v.phase = "prepared" /\ v.req = r
    BY <1>0, <1>2, <1>6 DEF CallerRecord
  <1>9. receipts'[r.id] = PreparedReceipt(r)
    BY <1>1, <1>2 DEF AckInv, ReceiptsInv
  <1>10. Owns(v)'
    BY <1>8, <1>9 DEF Owns
  <1> QED BY <1>2, <1>4, <1>5, <1>7, <1>10, AppendKeeps

(* What is written is stored: known messages are compared, new ones added.  *)
LEMMA WriteLiveAck ==
    ASSUME DiskInv, FilesInv', Stable, AckInv, NEW c \in Foreground, WriteLive(c) PROVE AckInv'
  <1>0. PICK r, b : r = callers[c].req /\ b = r.batch
    OBVIOUS
  <1>1. /\ callers[c].phase = "prepared" /\ Acceptable(b) /\ UNCHANGED <<history, cursor, receipts, acked>>
        /\ live' = IF Unseen(b) = {} THEN live ELSE AppendedLive(b)
    BY <1>0 DEF WriteLive
  <1>2. /\ r \in Request /\ r.id \in DeliveryId /\ callers[c].phase \in Holding /\ callers[c] \in CallerRecord
        /\ Seg(b) /\ FilesInv /\ Quiet
    BY <1>0, <1>1, Names, Known, RequestIds, BatchSeg DEF Remembers, Relies, Holding, Fenced
  <1>3. \A f : Seg(f) /\ Kept(f) => Kept(f)'
    BY KeptStable DEF DiskInv
  <1>4. ReceiptsInv'
    BY <1>1, <1>3 DEF AckInv, ReceiptsInv
  <1>5. (acked \subseteq Request /\ \A q \in acked : Kept(q.batch))'
    BY <1>1, <1>3, BatchSeg DEF AckInv
  <1>6. next_sequence \in Nat /\ Lo(b) <= next_sequence /\ \A n \in DOMAIN b : n \in Nat /\ n <= Hi(b)
    BY <1>1, <1>2, NextIs DEF Acceptable, Seg
  <1>7. Kept(b)'
    <2> SUFFICES ASSUME NEW n \in DOMAIN b, n > cursor.released PROVE Stored(n, b[n])'
      BY <1>1 DEF Kept
    <2>1. CASE n < next_sequence
      <3>1. \E f \in {live} \cup history : n \in DOMAIN f
        BY <1>2, <1>6, <2>1, Covered, CursorType
      <3>2. n \in DOMAIN Merge({live} \cup history)
        BY <3>1 DEF Merge
      <3>3. Merge({live} \cup history)[n] = b[n]
        BY <1>1, <2>1 DEF Acceptable
      <3>4. Stored(n, b[n])
        BY <3>2, <3>3, MergeStored DEF Stored
      <3> QED BY <1>1, <1>6, <3>4 DEF Stable
    <2>2. CASE n >= next_sequence
      <3>1. Unseen(b) # {} /\ n \in next_sequence..Hi(b)
        BY <1>2, <1>6, <2>2 DEF Unseen, Seg
      <3>2. next_sequence <= Hi(b) /\ live' = AppendedLive(b)
        <4>1. n <= Hi(b) /\ n \in Nat /\ Hi(b) \in Nat
          BY <1>2, <1>6 DEF Seg
        <4>2. next_sequence <= Hi(b)
          BY <1>6, <2>2, <4>1
        <4> QED BY <1>1, <3>1, <4>2
      <3>3. n \in DOMAIN live' /\ live'[n] = b[n]
        BY <1>2, <1>6, <3>1, <3>2, AppendedIs
      <3> QED BY <3>3 DEF Stored
    <2> QED BY <1>6, <2>1, <2>2
  <1>8. PICK v : v = [callers[c] EXCEPT !.phase = "written"]
    OBVIOUS
  <1>9. Go(c, v)
    BY <1>8 DEF WriteLive
  <1>10. v.phase = "written" /\ v.req = r
    BY <1>0, <1>2, <1>8 DEF CallerRecord
  <1>11. receipts[r.id] = PreparedReceipt(r)
    BY <1>0, <1>1 DEF AckInv, Owns
  <1>12. Owns(v)'
    <2>1. receipts'[v.req.id] = PreparedReceipt(v.req)
      BY <1>1, <1>10, <1>11
    <2>2. v.req.batch = b
      BY <1>0, <1>10
    <2>3. Kept(v.req.batch)'
      BY <1>7, <2>2 DEF Kept
    <2> QED BY <2>1, <2>3 DEF Owns
  <1> QED BY <1>2, <1>4, <1>5, <1>9, <1>12, AppendKeeps

(* The receipt is committed, and the delivery acknowledged, after its batch *)
(* is in the live file.                                                     *)
LEMMA CommitReceiptAck ==
    ASSUME DiskInv, FilesInv', Stable, AckInv, NEW c \in Foreground, CommitReceipt(c) PROVE AckInv'
  <1>0. PICK r : r = callers[c].req
    OBVIOUS
  <1>1. /\ callers[c].phase = "written" /\ receipts' = [receipts EXCEPT ![r.id].state = "committed"]
        /\ acked' = acked \cup {r} /\ Return(c)
    BY <1>0 DEF CommitReceipt
  <1>2. r \in Request /\ r.id \in DeliveryId /\ callers[c].phase \in Holding /\ Seg(r.batch)
    BY <1>0, <1>1, Names, Known, RequestIds, BatchSeg DEF Remembers, Holding, Fenced
  <1>3. \A b : Seg(b) /\ Kept(b) => Kept(b)'
    BY KeptStable DEF DiskInv
  <1>4. receipts[r.id] = PreparedReceipt(r) /\ Kept(r.batch)
    BY <1>0, <1>1 DEF AckInv, Owns
  <1>5. ReceiptsInv'
    <2>1. PICK x : x = [receipts[r.id] EXCEPT !.state = "committed"]
      OBVIOUS
    <2>2. x \in ReceiptRecord /\ x.batch = r.batch
      BY <1>2, <1>4, <2>1, BatchFile DEF ReceiptRecord, PreparedReceipt
    <2>3. receipts' = [receipts EXCEPT ![r.id] = x]
      BY <1>1, <2>1
    <2>4. Kept(x.batch)' /\ Seg(x.batch)
      BY <1>2, <1>3, <1>4, <2>2
    <2> QED BY <1>2, <2>2, <2>3, <2>4, ReceiptKeeps
  <1>6. (acked \subseteq Request /\ \A q \in acked : Kept(q.batch))'
    BY <1>1, <1>2, <1>3, <1>4, BatchSeg DEF AckInv
  <1> QED BY <1>1, <1>2, <1>5, <1>6, IdleOwns, AppendKeeps DEF Return

(* A receipt is recovered as committed when its messages are all found.     *)
LEMMA RecoverReceiptAck ==
    ASSUME DiskInv, FilesInv', Stable, AckInv, NEW c \in Caller, NEW d \in DeliveryId, RecoverReceipt(c, d)
    PROVE  AckInv'
  <1> DEFINE b == receipts[d].batch
             found == Found(DOMAIN b)
  <1>1. /\ Examines(c, d) /\ Recoverable(receipts[d]) /\ UNCHANGED <<live, history, cursor, callers, acked>>
        /\ receipts' = [receipts EXCEPT ![d] = RecoveredReceipt(@)]
    BY DEF RecoverReceipt
  <1>2. receipts[d].state = "prepared" /\ receipts[d] \in ReceiptRecord /\ Seg(b)
    BY <1>1 DEF Examines, Prepared, AckInv, ReceiptsInv
  <1>3. \A f : Seg(f) /\ Kept(f) => Kept(f)'
    BY KeptStable DEF DiskInv
  <1>4. DOMAIN found # {} => Kept(b)
    <2> SUFFICES ASSUME found = b, NEW n \in DOMAIN b PROVE Stored(n, b[n])
      BY <1>1 DEF Kept, Recoverable
    <2> DEFINE files == {live} \cup history
               there == DOMAIN b \cap UNION {DOMAIN f : f \in files}
    <2>1. found = [m \in there |-> Merge(files)[m]]
      BY DEF Found, Restrict
    <2>2. n \in there /\ Merge(files)[n] = b[n]
      <3>1. n \in DOMAIN found /\ found[n] = b[n]
        OBVIOUS
      <3> HIDE DEF found, there, files
      <3> QED BY <2>1, <3>1
    <2>3. n \in DOMAIN Merge(files)
      BY <2>2 DEF Merge
    <2> QED BY <2>2, <2>3, MergeStored DEF Stored
  <1>5. PICK x : x = RecoveredReceipt(receipts[d])
    OBVIOUS
  <1>6. /\ x \in ReceiptRecord
        /\ x.state # "none" => Seg(x.batch)
        /\ x.state = "committed" => Kept(x.batch)
    <2>1. CASE DOMAIN found = {}
      <3>1. x = NoReceipt
        BY <1>5, <2>1 DEF RecoveredReceipt
      <3>2. Empty \in File
        BY DEF File
      <3> QED BY <3>1, <3>2 DEF NoReceipt, ReceiptRecord
    <2>2. CASE DOMAIN found # {}
      <3>1. x = [receipts[d] EXCEPT !.state = "committed"]
        BY <1>5, <2>2 DEF RecoveredReceipt
      <3>2. x \in ReceiptRecord /\ x.batch = b
        BY <1>2, <3>1 DEF ReceiptRecord
      <3> QED BY <1>2, <1>4, <2>2, <3>2
    <2> QED BY <2>1, <2>2
  <1>7. ReceiptsInv'
    <2>1. receipts' = [receipts EXCEPT ![d] = x]
      BY <1>1, <1>5
    <2>2. x.state # "none" => Seg(x.batch)
      BY <1>6
    <2>3. x.state = "committed" => Kept(x.batch)'
      BY <1>3, <1>6
    <2> QED BY <1>6, <2>1, <2>2, <2>3, ReceiptKeeps
  <1>8. (acked \subseteq Request /\ \A q \in acked : Kept(q.batch))'
    BY <1>1, <1>3, BatchSeg DEF AckInv
  <1>9. ASSUME NEW e \in Foreground PROVE Owns(callers[e])'
    <2>1. callers[e].phase \notin {"prepared", "written"}
      <3>1. callers[c].phase \in {"append", "seal", "staged", "list"}
        BY <1>1 DEF Examines
      <3>2. callers[c].phase \in Holding
        BY <3>1 DEF Holding, Fenced
      <3>3. CASE e = c
        BY <3>1, <3>3
      <3>4. CASE e # c
        BY <3>2, <3>4, Names, AppendsAlone
      <3> QED BY <3>3, <3>4
    <2> QED BY <1>1, <2>1 DEF Owns
  <1> QED BY <1>7, <1>8, <1>9 DEF AckInv

-----------------------------------------------------------------------------
(* Nothing is acknowledged at first.                                        *)
LEMMA AckInit == Init => AckInv
  <1> SUFFICES ASSUME Init PROVE AckInv
    OBVIOUS
  <1>1. NoReceipt \in ReceiptRecord /\ NoReceipt.state = "none"
    BY DEF NoReceipt, ReceiptRecord, File
  <1>2. ReceiptsInv
    BY <1>1 DEF Init, ReceiptsInv
  <1>3. \A c \in Foreground : Owns(callers[c])
    BY IdleIs, Names DEF Init, Owns
  <1> QED BY <1>2, <1>3 DEF Init, AckInv

(* Every step leaves what others know.                                      *)
LEMMA StableNext == DiskInv /\ [Next]_vars => FilesInv' /\ Stable
  <1> SUFFICES ASSUME DiskInv, [Next]_vars PROVE FilesInv' /\ Stable
    OBVIOUS
  <1>1. CASE Next
    BY <1>1, NextStep, MoveKeeps DEF Step, DiskInv
  <1>2. CASE UNCHANGED vars
    BY <1>2, StillKeep DEF vars, Still, DiskInv
  <1> QED BY <1>1, <1>2

(* Every step keeps what was promised.                                      *)
LEMMA AckNext == DiskInv /\ AckInv /\ [Next]_vars => AckInv'
  <1> SUFFICES ASSUME DiskInv, AckInv, [Next]_vars PROVE AckInv'
    OBVIOUS
  <1>0. FilesInv' /\ Stable
    BY StableNext
  <1>1. NoAppend => AckInv'
    BY <1>0, NoAppendKeeps
  <1>2. ASSUME NEW c \in Foreground, Foregrounds(c) PROVE AckInv'
    <2>1. CASE AppendKnown(c) \/ Prepare(c) \/ WriteLive(c) \/ CommitReceipt(c)
      BY <1>0, <2>1, AppendKnownAck, PrepareAck, WriteLiveAck, CommitReceiptAck
    <2> QED BY <1>1, <1>2, <2>1, ForegroundElsewhere DEF Foregrounds
  <1>3. ASSUME NEW c \in Foreground \cup {"worker"}, Seals(c) PROVE AckInv'
    BY <1>1, <1>3, SealsElsewhere
  <1>4. ASSUME NEW c \in Caller, NEW d \in DeliveryId, RecoverReceipt(c, d) PROVE AckInv'
    BY <1>0, <1>4, RecoverReceiptAck
  <1>5. ASSUME \/ \E c \in Caller : Repair(c) \/ Trim(c) \/ Refuse(c) \/ Stop(c)
               \/ \E s \in DOMAIN jobs : StartRecovery(s) \/ JobStep(s)
               \/ Keeping
               \/ UNCHANGED vars
        PROVE AckInv'
    BY <1>1, <1>5, OthersElsewhere
  <1> QED BY <1>2, <1>3, <1>4, <1>5 DEF Next, JobStep

(* Stored messages that are not released are what readers see.              *)
LEMMA StoredIsSeen ==
    ASSUME FilesInv, NEW n \in Nat, NEW x, n > cursor.released, Stored(n, x)
    PROVE  n \in DOMAIN Content /\ Content[n] = x
  <1> DEFINE seen == {s \in history : Hi(s) > cursor.released} \cup {live}
  <1>1. PICK f \in history \cup {live} : n \in DOMAIN f /\ f[n] = x
    BY DEF Stored
  <1>2. f \in seen
    <2>1. CASE f \in history
      <3>1. Seg(f)
        BY <2>1 DEF FilesInv, FilesTyped
      <3> QED BY <1>1, <2>1, <3>1, CursorType DEF Seg
    <2> QED BY <2>1
  <1>3. \A s, t \in seen : Same(s, t)
    <2>1. \A s \in history : Same(s, live) /\ Same(live, s)
      BY DEF FilesInv, FilesTyped, Same
    <2>2. ASSUME NEW s \in history, NEW t \in history PROVE Same(s, t)
      <3>1. CASE s # t
        <4>1. Apart(s, t) /\ Seg(s) /\ Seg(t)
          BY <3>1 DEF FilesInv, FilesTyped
        <4> QED BY <4>1 DEF Apart, Same, Seg
      <3> QED BY <3>1 DEF Same
    <2>3. Same(live, live)
      BY DEF Same
    <2> QED BY <2>1, <2>2, <2>3
  <1>4. Content = Merge(seen)
    BY DEF Content
  <1> HIDE DEF seen
  <1>5. DOMAIN Merge(seen) = UNION {DOMAIN s : s \in seen} /\ Merge(seen)[n] = f[n]
    BY <1>1, <1>2, <1>3, MergeIs
  <1> QED BY <1>1, <1>2, <1>4, <1>5

(* What was promised is what AckedIsStored states.                          *)
LEMMA AckShows == DiskInv /\ AckInv => AckedIsStored
  <1> SUFFICES ASSUME DiskInv, AckInv, NEW r \in acked, NEW n \in DOMAIN r.batch, n > cursor.released
               PROVE  n \in DOMAIN Content /\ Content[n] = r.batch[n]
    BY DEF AckedIsStored
  <1>1. n \in Nat /\ Stored(n, r.batch[n])
    BY BatchSeg DEF AckInv, Kept, Seg
  <1> QED BY <1>1, StoredIsSeen DEF DiskInv

(* AckedIsStored: every batch that append acknowledged is in the files,     *)
(* message by message, until the lifecycle releases it, however appends,    *)
(* seals, truncations, crashes and recoveries interleave.                   *)
THEOREM AckedStays == Spec => []AckedIsStored
  <1>1. DiskInv /\ AckInv => AckedIsStored
    BY AckShows
  <1> QED BY <1>1, DiskInit, DiskNext, AckInit, AckNext, PTL DEF Spec

(* The types of all the variables.                                          *)
LEMMA DiskTypes == DiskInv /\ AckInv /\ faults \in 0..MaxFaults /\ abandoned \subseteq Segment => TypeOK
  <1> SUFFICES ASSUME DiskInv, AckInv, faults \in 0..MaxFaults, abandoned \subseteq Segment PROVE TypeOK
    OBVIOUS
  <1>1. live \in File /\ history \subseteq Segment
    BY SegType DEF DiskInv, FilesInv, FilesTyped, File
  <1>2. /\ cursor.archived \in Sequence \cup {-1} /\ cursor.released \in Sequence \cup {-1}
        /\ cursor.latest \in File
    BY DEF DiskInv, FilesInv, FilesTyped, CursorRecord, File
  <1>3. \A d \in DeliveryId : /\ receipts[d].state \in {"none", "prepared", "committed"}
                              /\ receipts[d].batch \in File
    BY DEF AckInv, ReceiptsInv, ReceiptRecord
  <1>4. /\ DOMAIN jobs \subseteq Segment
        /\ \A s \in DOMAIN jobs : jobs[s] \in JobStatus
    BY SegType DEF DiskInv, JobsInv
  <1>5. \A c \in Caller : /\ callers[c].seg \in File /\ callers[c].job \in File
                          /\ callers[c].through \in Sequence \cup {0}
    BY Known DEF CallerRecord
  <1> QED BY <1>1, <1>2, <1>3, <1>4, <1>5 DEF TypeOK, AckInv, JobStatus

(* Faults are counted up to their bound.                                    *)
LEMMA FaultsNext == faults \in 0..MaxFaults /\ [Next]_vars => (faults \in 0..MaxFaults)'
  <1> SUFFICES ASSUME faults \in 0..MaxFaults, [Next]_vars PROVE faults' \in 0..MaxFaults
    OBVIOUS
  <1>1. faults' = faults \/ (faults < MaxFaults /\ faults' = faults + 1)
    <2>1. ASSUME NEW c \in Foreground, Foregrounds(c)
          PROVE faults' = faults \/ (faults < MaxFaults /\ faults' = faults + 1)
      BY <2>1 DEF Foregrounds, StartAppend, AppendKnown, Prepare, AppendRefused,
         WriteLive, CommitReceipt,
         StartPass, Plan, ListStaged, CompleteNext, CompletedAll, Callback, LoseLease, SealSecond, Restage, Enqueue
    <2>2. ASSUME NEW c \in Foreground \cup {"worker"}, Seals(c) PROVE faults' = faults
      BY <2>2 DEF Seals, StagedSegment, StartSeal, SealFirst, TruncateLive,
         SealReturns, Completed
    <2>3. ASSUME NEW c \in Caller, Repair(c) \/ Trim(c) \/ Refuse(c) \/ Stop(c) \/ \E d \in DeliveryId : RecoverReceipt(c, d)
          PROVE faults' = faults \/ (faults < MaxFaults /\ faults' = faults + 1)
      BY <2>3 DEF Repair, Trim, Refuse, Stop, RecoverReceipt
    <2>4. ASSUME NEW s \in DOMAIN jobs, StartRecovery(s) \/ JobStep(s)
          PROVE faults' = faults \/ (faults < MaxFaults /\ faults' = faults + 1)
      BY <2>4 DEF StartRecovery, JobStep, CommitJob, FailJob, RetryFailed, AbandonFailed, DiscardJob
    <2>5. Keeping => faults' = faults
      BY DEF Keeping, StartKeeping, ChooseRelease, StartRelease, ReleasePrefix,
         Unlink, Purge
    <2>6. UNCHANGED vars => faults' = faults
      BY DEF vars
    <2> QED BY <2>1, <2>2, <2>3, <2>4, <2>5, <2>6 DEF Next, JobStep
  <1> QED BY <1>1, JournalConstants

(* Records of abandonment only come, each for the segment of a job.         *)
LEMMA RecordsGrow ==
    ASSUME DiskInv, [Next]_vars PROVE \/ abandoned' = abandoned
                                      \/ \E s \in DOMAIN jobs : AbandonFailed(s)
  <1>1. ASSUME NEW c \in Foreground, Foregrounds(c) PROVE abandoned' = abandoned
    BY <1>1 DEF Foregrounds, StartAppend, AppendKnown, Prepare, AppendRefused,
       WriteLive, CommitReceipt,
       StartPass, Plan, ListStaged, CompleteNext, CompletedAll, Callback, LoseLease, SealSecond, Restage, Enqueue
  <1>2. ASSUME NEW c \in Foreground \cup {"worker"}, Seals(c) PROVE abandoned' = abandoned
    BY <1>2 DEF Seals, StagedSegment, StartSeal, SealFirst, TruncateLive, SealReturns, Completed
  <1>3. ASSUME NEW c \in Caller, Repair(c) \/ Trim(c) \/ Refuse(c) \/ Stop(c) \/ \E d \in DeliveryId : RecoverReceipt(c, d)
        PROVE  abandoned' = abandoned
    BY <1>3 DEF Repair, Trim, Refuse, Stop, RecoverReceipt
  <1>4. ASSUME NEW s \in DOMAIN jobs,
               StartRecovery(s) \/ CommitJob(s) \/ FailJob(s) \/ RetryFailed(s) \/ DiscardJob(s)
        PROVE  abandoned' = abandoned
    BY <1>4 DEF StartRecovery, CommitJob, FailJob, RetryFailed, DiscardJob
  <1>5. Keeping => abandoned' = abandoned
    BY DEF Keeping, StartKeeping, ChooseRelease, StartRelease, ReleasePrefix, Unlink, Purge
  <1>6. UNCHANGED vars => abandoned' = abandoned
    BY DEF vars
  <1> QED BY <1>1, <1>2, <1>3, <1>4, <1>5, <1>6 DEF Next

LEMMA RecordsNext == DiskInv /\ abandoned \subseteq Segment /\ [Next]_vars => (abandoned \subseteq Segment)'
  <1> SUFFICES ASSUME DiskInv, abandoned \subseteq Segment, NEW s \in DOMAIN jobs, AbandonFailed(s)
               PROVE  abandoned' \subseteq Segment
    BY RecordsGrow
  <1> QED BY SegType DEF DiskInv, JobsInv, AbandonFailed

(* TypeOK: files, cursor, receipts, jobs and callers keep their types.      *)
THEOREM JournalTyped == Spec => []TypeOK
  <1>1. Init => faults \in 0..MaxFaults /\ abandoned \subseteq Segment
    BY JournalConstants DEF Init
  <1> QED BY <1>1, FaultsNext, RecordsNext, DiskTypes, DiskInit, DiskNext, AckInit, AckNext, PTL DEF Spec

-----------------------------------------------------------------------------
(* What readers see, of the files.                                          *)

(* The files a reader looks at.                                             *)
Seen == {s \in history : Hi(s) > cursor.released} \cup {live}

(* A reader sees messages above the released ones only.                     *)
LEMMA SeenAbove ==
    FilesInv => \A f \in Seen : \A n \in DOMAIN f : n \in Nat /\ n > cursor.released
  <1> SUFFICES ASSUME FilesInv, NEW f \in Seen, NEW n \in DOMAIN f PROVE n \in Nat /\ n > cursor.released
    OBVIOUS
  <1>1. \A s \in history : Seg(s) /\ (Hi(s) > cursor.released => cursor.released < Lo(s))
    <2> SUFFICES ASSUME NEW s \in history PROVE Seg(s) /\ (Hi(s) > cursor.released => cursor.released < Lo(s))
      OBVIOUS
    <2>1. /\ Seg(s) /\ (IsStale(s) \/ IsActive(s) \/ IsNewer(s))
          /\ cursor.released <= cursor.archived
      BY DEF FilesInv, FilesTyped, Tiled
    <2> QED BY <2>1, CursorType DEF IsStale, IsActive, IsNewer, Seg
  <1>2. CASE f \in history /\ Hi(f) > cursor.released
    BY <1>1, <1>2, CursorType DEF Seg
  <1>3. CASE f = live
    <2>1. Seg(live) /\ live # Empty
      BY <1>3, LiveEmpty
    <2>2. cursor.released < Lo(live)
      <3>1. CASE NoNewer
        <4>1. CASE Lo(live) = cursor.archived + 1
          BY <4>1, CursorType DEF FilesInv, FilesTyped
        <4>2. CASE cursor.archived > cursor.released /\ Lo(live) = Lo(cursor.latest)
          <5>1. cursor.latest \in history /\ Hi(cursor.latest) = cursor.archived
            BY <4>2 DEF FilesInv, Tiled
          <5> QED BY <1>1, <4>2, <5>1
        <4> QED BY <2>1, <3>1, <4>1, <4>2 DEF FilesInv, Joins
      <3>2. ASSUME NEW s \in history, IsNewer(s) PROVE cursor.released < Lo(live)
        <4>1. Lo(live) = Lo(s) \/ Lo(live) = Hi(s) + 1
          BY <2>1, <3>2 DEF FilesInv, Joins
        <4>2. Seg(s) /\ Lo(s) = cursor.archived + 1 /\ cursor.released <= cursor.archived
          BY <1>1, <3>2 DEF IsNewer, FilesInv, FilesTyped
        <4> QED BY <4>1, <4>2, CursorType DEF Seg
      <3> QED BY <3>1, <3>2 DEF NoNewer
    <2> QED BY <1>3, <2>1, <2>2, CursorType DEF Seg
  <1> QED BY <1>2, <1>3 DEF Seen

(* The content is what is stored above the released messages.               *)
ContentShows ==
    /\ \A n \in DOMAIN Content : n \in Nat /\ n > cursor.released /\ Stored(n, Content[n])
    /\ \A n \in Nat : \A x : n > cursor.released /\ Stored(n, x) => n \in DOMAIN Content /\ Content[n] = x
    /\ Content = [n \in DOMAIN Content |-> Content[n]]

(* What a reader sees is what the files store.                              *)
LEMMA ContentIs == FilesInv => ContentShows
  <1> SUFFICES ASSUME FilesInv PROVE ContentShows
    OBVIOUS
  <1>1. Content = Merge(Seen)
    BY DEF Content, Seen
  <1>2. ASSUME NEW n \in DOMAIN Content PROVE n \in Nat /\ n > cursor.released /\ Stored(n, Content[n])
    <2>1. PICK f \in Seen : n \in DOMAIN f /\ f[n] = Content[n]
      BY <1>1, MergeStored
    <2> QED BY <2>1, SeenAbove DEF Seen, Stored
  <1>3. Content = [n \in DOMAIN Content |-> Content[n]]
    BY <1>1 DEF Merge
  <1> QED BY <1>2, <1>3, StoredIsSeen DEF ContentShows

(* A step that stores and releases nothing shows nothing new.               *)
LEMMA SameContent ==
    ASSUME FilesInv, FilesInv', cursor'.released = cursor.released,
           \A n \in Nat : \A x : n > cursor.released => (Stored(n, x) <=> Stored(n, x)')
    PROVE  Content' = Content
  <1>1. ContentShows
    BY ContentIs
  <1>2. (FilesInv => ContentShows)'
    BY ContentIs, PTL
  <1>3. PICK f, g : f = Content /\ g = Content'
    OBVIOUS
  <1>4. /\ \A n \in DOMAIN f : n \in Nat /\ n > cursor.released /\ Stored(n, f[n])
        /\ \A n \in Nat : \A x : n > cursor.released /\ Stored(n, x) => n \in DOMAIN f /\ f[n] = x
        /\ f = [n \in DOMAIN f |-> f[n]]
    BY <1>1, <1>3 DEF ContentShows
  <1>5. /\ \A n \in DOMAIN g : n \in Nat /\ n > cursor.released /\ Stored(n, g[n])'
        /\ \A n \in Nat : \A x : n > cursor.released /\ Stored(n, x)' => n \in DOMAIN g /\ g[n] = x
        /\ g = [n \in DOMAIN g |-> g[n]]
    BY <1>2, <1>3 DEF ContentShows
  <1>6. DOMAIN f = DOMAIN g /\ \A n \in DOMAIN f : f[n] = g[n]
    BY <1>4, <1>5
  <1>7. f = g
    BY <1>4, <1>5, <1>6
  <1> QED BY <1>3, <1>7

(* Between operations the content ends where the next message goes.         *)
LEMMA QuietContent ==
    FilesInv /\ Quiet => DOMAIN Content = (cursor.released + 1)..(next_sequence - 1)
  <1> SUFFICES ASSUME FilesInv, Quiet PROVE DOMAIN Content = (cursor.released + 1)..(next_sequence - 1)
    OBVIOUS
  <1>1. cursor.released \in Int /\ cursor.released + 1 \in Nat /\ next_sequence \in Nat
        /\ cursor.archived \in Int /\ cursor.archived < next_sequence
    <2>1. cursor.released \in Int /\ cursor.released + 1 \in Nat
      <3>1. \A x \in Int : x >= -1 => x + 1 \in Nat
        OBVIOUS
      <3> QED BY <3>1, CursorType
    <2>2. cursor.archived < next_sequence
      <3>1. CASE live = Empty
        BY <3>1, NextIs, CursorType
      <3>2. CASE live # Empty
        BY <3>2, NextIs, LiveEmpty, CursorType DEF Quiet, Seg
      <3> QED BY <3>1, <3>2
    <2> QED BY <2>1, <2>2, NextIs, CursorType
  <1>2. ASSUME NEW n \in (cursor.released + 1)..(next_sequence - 1) PROVE n \in DOMAIN Content
    <2>1. n \in Nat /\ cursor.released < n /\ n < next_sequence
      BY <1>1
    <2>2. PICK f \in {live} \cup history : n \in DOMAIN f
      BY <2>1, Covered
    <2>3. Stored(n, f[n])
      BY <2>2 DEF Stored
    <2> QED BY <2>1, <2>3, ContentIs DEF ContentShows
  <1>3. ASSUME NEW n \in DOMAIN Content PROVE n \in (cursor.released + 1)..(next_sequence - 1)
    <2>1. n \in Nat /\ n > cursor.released /\ Stored(n, Content[n])
      BY ContentIs DEF ContentShows
    <2>2. PICK f \in history \cup {live} : n \in DOMAIN f
      BY <2>1 DEF Stored
    <2>3. n < next_sequence
      <3>1. CASE f \in history
        BY <1>1, <2>1, <2>2, <3>1, QuietPast DEF Quiet, Seg
      <3>2. CASE f = live
        BY <2>1, <2>2, <3>2, NextIs, LiveEmpty DEF Seg
      <3> QED BY <3>1, <3>2
    <2> QED BY <1>1, <2>1, <2>3
  <1> QED BY <1>2, <1>3

-----------------------------------------------------------------------------
(* Each way a step moves the files is a step of the log or none.            *)

(* What the log calls sealed.                                               *)
LEMMA SealedIs ==
    FilesInv => /\ NoNewer => Repaired.archived = cursor.archived
                /\ \A s \in history : IsNewer(s) => Repaired.archived = Hi(s)
  <1> SUFFICES ASSUME FilesInv
               PROVE  /\ NoNewer => Repaired.archived = cursor.archived
                      /\ \A s \in history : IsNewer(s) => Repaired.archived = Hi(s)
    OBVIOUS
  <1>1. cursor \in CursorRecord
    BY DEF FilesInv, FilesTyped
  <1>2. ASSUME NEW s \in history, IsNewer(s) PROVE Repaired.archived = Hi(s)
    BY <1>1, <1>2, RepairedIs DEF CursorRecord
  <1> QED BY <1>2, RepairedIs

(* The archived number a reader works with, after a step.                   *)
LEMMA SealedNext ==
    ASSUME FilesInv'
    PROVE  /\ NoNewer' => Repaired'.archived = cursor'.archived
           /\ \A s \in history' : IsNewer(s)' => Repaired'.archived = Hi(s)
  <1>1. (FilesInv => /\ NoNewer => Repaired.archived = cursor.archived
                     /\ \A s \in history : IsNewer(s) => Repaired.archived = Hi(s))'
    BY SealedIs, PTL
  <1> QED BY <1>1

(* A step that touches no file is a stutter of the log.                     *)
LEMMA StillLog == ASSUME FilesInv, Still PROVE UNCHANGED Log!vars
  BY DEF Still, Log!vars, Content, Repaired, Newer

(* So is a repair: it moves the cursor over what readers already counted.   *)
LEMMA RepairsLog == ASSUME FilesInv, Repairs PROVE UNCHANGED Log!vars
  <1>1. FilesInv'
    BY RepairsKeep
  <1>2. PICK s \in history : IsNewer(s)
    BY DEF Repairs, NoNewer
  <1>3. /\ cursor'.archived = Hi(s) /\ cursor'.released = cursor.released /\ history' = history /\ live' = live
        /\ NoNewer'
    BY <1>2, RepairsTo
  <1>4. Content' = Content
    BY <1>3 DEF Content
  <1>5. Repaired'.archived = Repaired.archived
    BY <1>1, <1>2, <1>3, SealedIs, SealedNext
  <1> QED BY <1>3, <1>4, <1>5 DEF Log!vars

(* So is a truncation: the messages are in the history.                     *)
LEMMA ShortensLog == ASSUME NEW s, FilesInv, Shortens(s) PROVE UNCHANGED Log!vars
  <1>1. FilesInv' /\ Stable
    BY ShortensKeep
  <1>2. history' = history /\ cursor' = cursor /\ live' = Restrict(live, DOMAIN live \ DOMAIN s)
    BY DEF Shortens
  <1>3. \A n \in Nat : \A x : n > cursor.released => (Stored(n, x) <=> Stored(n, x)')
    <2>1. DOMAIN live' \subseteq DOMAIN live /\ \A n \in DOMAIN live' : live'[n] = live[n]
      BY <1>2 DEF Restrict
    <2>2. ASSUME NEW n \in Nat, NEW x, Stored(n, x)' PROVE Stored(n, x)
      BY <1>2, <2>1, <2>2 DEF Stored
    <2> QED BY <1>1, <1>2, <2>2 DEF Stable
  <1>4. Content' = Content
    BY <1>1, <1>2, <1>3, SameContent
  <1>5. Repaired' = Repaired
    BY <1>2 DEF Repaired, Newer
  <1> QED BY <1>2, <1>4, <1>5 DEF Log!vars

(* So is the deletion of a released file.                                   *)
LEMMA DropsLog == ASSUME NEW s, FilesInv, Seg(s), Drops(s) PROVE UNCHANGED Log!vars
  <1>1. FilesInv' /\ Stable
    BY DropsKeep
  <1>2. history' = history \ {s} /\ cursor' = cursor /\ live' = live /\ Hi(s) <= cursor.released
    BY DEF Drops, IsStale
  <1>3. \A n \in Nat : \A x : n > cursor.released => (Stored(n, x) <=> Stored(n, x)')
    <2>1. ASSUME NEW n \in Nat, NEW x, Stored(n, x)' PROVE Stored(n, x)
      BY <1>2, <2>1 DEF Stored
    <2> QED BY <1>1, <1>2, <2>1 DEF Stable
  <1>4. Content' = Content
    BY <1>1, <1>2, <1>3, SameContent
  <1>5. Repaired'.archived = Repaired.archived
    <2>1. CASE NoNewer
      <3>1. NoNewer'
        BY <1>2, <2>1 DEF NoNewer, IsNewer
      <3> QED BY <1>1, <1>2, <2>1, <3>1, SealedIs, SealedNext
    <2>2. ASSUME NEW t \in history, IsNewer(t) PROVE Repaired'.archived = Repaired.archived
      <3>1. t # s
        <4>1. Seg(t) /\ cursor.released <= cursor.archived
          BY DEF FilesInv, FilesTyped
        <4> QED BY <1>2, <2>2, <4>1, CursorType DEF IsNewer, Seg
      <3>2. t \in history' /\ IsNewer(t)'
        BY <1>2, <2>2, <3>1 DEF IsNewer
      <3> QED BY <1>1, <2>2, <3>2, SealedIs, SealedNext
    <2> QED BY <2>1, <2>2 DEF NoNewer
  <1> QED BY <1>2, <1>4, <1>5 DEF Log!vars

(* Writing the live file is the log's Append.                               *)
LEMMA ExtendsLog == ASSUME NEW b, FilesInv, Extends(b) PROVE Log!Append
  <1>1. FilesInv' /\ Stable
    BY ExtendsKeep
  <1>2. /\ Quiet /\ Seg(b) /\ Lo(b) <= next_sequence /\ next_sequence <= Hi(b)
        /\ history' = history /\ cursor' = cursor
    BY DEF Extends
  <1>3. /\ Seg(live') /\ Hi(live') = Hi(b)
        /\ Lo(live') = (IF live = Empty THEN cursor.archived + 1 ELSE Lo(live))
    BY <1>2, AppendedIs DEF Extends
  <1>4. Quiet'
    BY <1>2, <1>3 DEF Quiet, NoNewer, IsNewer
  <1>5. live' # Empty
    BY <1>3, EmptyFile
  <1>6. DOMAIN Content = (cursor.released + 1)..(next_sequence - 1)
    BY <1>2, QuietContent
  <1>7. (DOMAIN Content = (cursor.released + 1)..(next_sequence - 1))'
    <2>1. (FilesInv /\ Quiet => DOMAIN Content = (cursor.released + 1)..(next_sequence - 1))'
      BY QuietContent, PTL
    <2> QED BY <1>1, <1>4, <2>1
  <1>8. next_sequence' = Hi(b) + 1
    <2>1. DOMAIN live' # {}
      BY <1>3 DEF Seg
    <2> QED BY <1>3, <2>1 DEF next_sequence
  <1>9. PICK f, g : f = Content /\ g = Content'
    OBVIOUS
  <1>10. Hi(b) \in Nat /\ cursor.released \in Int /\ next_sequence \in Nat /\ cursor.released < Hi(b)
    <2>1. cursor.released <= cursor.archived /\ cursor.archived < next_sequence
      <3>1. CASE live = Empty
        BY <3>1, NextIs, CursorType DEF FilesInv, FilesTyped
      <3>2. CASE live # Empty
        <4>1. /\ cursor.released <= cursor.archived /\ Seg(live) /\ Lo(live) = cursor.archived + 1
              /\ next_sequence = Hi(live) + 1
          BY <1>2, <3>2, NextIs, LiveEmpty DEF Quiet, FilesInv, FilesTyped
        <4> QED BY <4>1, CursorType DEF Seg
      <3> QED BY <3>1, <3>2
    <2> QED BY <1>2, <2>1, NextIs, CursorType DEF Seg
  <1>11. DOMAIN g = (cursor.released + 1)..Hi(b) /\ DOMAIN f = (cursor.released + 1)..(next_sequence - 1)
    BY <1>2, <1>6, <1>7, <1>8, <1>9, <1>10
  <1>12. IsRestriction(f, g)
    <2>1. \A n \in DOMAIN f : n \in Nat /\ n > cursor.released /\ Stored(n, f[n])
      BY <1>9, ContentIs DEF ContentShows
    <2>2. ASSUME NEW n \in DOMAIN f PROVE n \in DOMAIN g /\ g[n] = f[n]
      <3>1. Stored(n, f[n])'
        BY <1>1, <1>2, <2>1, <2>2 DEF Stable
      <3>2. (FilesInv => ContentShows)'
        BY ContentIs, PTL
      <3> QED BY <1>1, <1>2, <1>9, <2>1, <2>2, <3>1, <3>2 DEF ContentShows
    <2> QED BY <2>2 DEF IsRestriction
  <1>13. Hi(b) \in DOMAIN g /\ Hi(b) \notin DOMAIN f
    BY <1>2, <1>10, <1>11
  <1>14. UNCHANGED <<Repaired.archived, cursor.released>>
    BY <1>2 DEF Repaired, Newer
  <1>15. /\ IsRestriction(Content, Content')
         /\ Hi(b) \in DOMAIN Content' /\ DOMAIN Content' = (cursor.released + 1)..Hi(b)
         /\ Hi(b) \notin DOMAIN Content
    BY <1>9, <1>11, <1>12, <1>13
  <1> QED BY <1>14, <1>15 DEF Log!Append, IsRestriction, Log!IsRestriction

(* Publishing a segment is the log's Seal.                                  *)
LEMMA PublishesLog == ASSUME NEW s, FilesInv, Publishes(s) PROVE Log!Seal
  <1>1. FilesInv' /\ Stable
    BY PublishesKeep
  <1>2. /\ history' = history \cup {s} /\ cursor' = cursor /\ live' = live
        /\ Quiet /\ live # Empty /\ PrefixOf(s) /\ Seg(live)
    BY LiveEmpty DEF Publishes
  <1>3. Seg(s) /\ Lo(s) = Lo(live) /\ Hi(s) <= Hi(live) /\ Same(s, live) /\ Lo(s) = cursor.archived + 1
    BY <1>2 DEF PrefixOf, Quiet
  <1>4. Repaired.archived = cursor.archived /\ Repaired'.archived = Hi(s)
    <2>1. s \in history' /\ IsNewer(s)'
      BY <1>2, <1>3 DEF IsNewer
    <2> QED BY <1>1, <1>2, <2>1, SealedIs, SealedNext DEF Quiet
  <1>5. Content' = Content
    <2>1. ASSUME NEW n \in Nat, NEW x, Stored(n, x)' PROVE Stored(n, x)
      <3>1. PICK f \in history' \cup {live'} : n \in DOMAIN f /\ f[n] = x
        BY <2>1 DEF Stored
      <3>2. CASE f = s
        <4>1. n \in DOMAIN live /\ live[n] = x
          BY <1>2, <1>3, <3>1, <3>2 DEF Same, Seg
        <4> QED BY <4>1 DEF Stored
      <3>3. CASE f # s
        BY <1>2, <3>1, <3>3 DEF Stored
      <3> QED BY <3>2, <3>3
    <2>2. \A n \in Nat : \A x : n > cursor.released => (Stored(n, x) <=> Stored(n, x)')
      BY <1>1, <1>2, <2>1 DEF Stable
    <2> QED BY <1>1, <1>2, <2>2, SameContent
  <1>6. Hi(s) \in DOMAIN Content /\ Hi(s) > cursor.archived
    <2>1. Hi(s) \in DOMAIN s /\ Hi(s) \in Nat /\ Hi(s) > cursor.archived
      BY <1>3, CursorType DEF Seg
    <2>2. Stored(Hi(s), live[Hi(s)])
      <3>1. Hi(s) \in DOMAIN live
        BY <1>2, <1>3 DEF Seg
      <3> QED BY <3>1 DEF Stored
    <2>3. Hi(s) > cursor.released
      BY <2>1, CursorType DEF FilesInv, FilesTyped
    <2> QED BY <2>1, <2>2, <2>3, ContentIs DEF ContentShows
  <1> QED BY <1>2, <1>4, <1>5, <1>6 DEF Log!Seal

(* Moving the released number is the log's Release.                         *)
LEMMA ReleasesLog == ASSUME NEW n, FilesInv, Releases(n) PROVE Log!Release
  <1>1. FilesInv' /\ Stable
    BY ReleasesKeep
  <1>2. PICK s \in history : Hi(s) = n /\ cursor.released < Lo(s) /\ Cut(s)
    BY DEF Releases
  <1>3. Seg(s) /\ n \in Nat /\ cursor.released < n /\ n <= cursor.archived
    BY <1>2, CursorType DEF FilesInv, FilesTyped, Seg, Cut
  <1>4. /\ history' = history /\ live' = live /\ NoNewer
        /\ cursor'.released = n /\ cursor'.archived = cursor.archived
    BY DEF Releases, ReleasedCursor, FilesInv, FilesTyped, CursorRecord
  <1>5. Repaired.archived = cursor.archived /\ Repaired'.archived = cursor.archived
    <2>1. NoNewer'
      BY <1>4 DEF NoNewer, IsNewer
    <2> QED BY <1>1, <1>4, <2>1, SealedIs, SealedNext
  <1>6. PICK f, g : f = Content /\ g = Content'
    OBVIOUS
  <1>7. /\ \A m \in DOMAIN f : m \in Nat /\ m > cursor.released /\ Stored(m, f[m])
        /\ \A m \in Nat : \A x : m > cursor.released /\ Stored(m, x) => m \in DOMAIN f /\ f[m] = x
    BY <1>6, ContentIs DEF ContentShows
  <1>8. /\ \A m \in DOMAIN g : m \in Nat /\ m > n /\ Stored(m, g[m])
        /\ \A m \in Nat : \A x : m > n /\ Stored(m, x) => m \in DOMAIN g /\ g[m] = x
        /\ g = [m \in DOMAIN g |-> g[m]]
    <2>1. (FilesInv => ContentShows)'
      BY ContentIs, PTL
    <2>2. \A m, x : Stored(m, x)' <=> Stored(m, x)
      BY <1>4 DEF Stored
    <2> QED BY <1>1, <1>4, <1>6, <2>1, <2>2 DEF ContentShows
  <1>9. g = Restrict(f, DOMAIN f \ (0..n))
    <2>1. \A m \in Nat : m > n => m > cursor.released
      BY <1>3, CursorType
    <2>2. DOMAIN g = DOMAIN f \ (0..n)
      <3>1. ASSUME NEW m \in DOMAIN g PROVE m \in DOMAIN f \ (0..n)
        BY <1>3, <1>7, <1>8, <2>1
      <3>2. ASSUME NEW m \in DOMAIN f \ (0..n) PROVE m \in DOMAIN g
        <4>1. m \in Nat /\ m > n /\ Stored(m, f[m])
          BY <1>3, <1>7
        <4> QED BY <1>8, <4>1
      <3> QED BY <3>1, <3>2
    <2>3. \A m \in DOMAIN g : g[m] = f[m]
      BY <1>7, <1>8, <2>1
    <2>4. g = [m \in DOMAIN f \ (0..n) |-> f[m]]
      BY <1>8, <2>2, <2>3
    <2> QED BY <2>4 DEF Restrict
  <1>10. n \in (cursor.released + 1)..Repaired.archived
    BY <1>3, <1>5, CursorType
  <1>11. Content' = Restrict(Content, DOMAIN Content \ (0..n))
    BY <1>6, <1>9
  <1> QED BY <1>4, <1>5, <1>10, <1>11 DEF Log!Release, Restrict, Log!Restrict

(* Every move is a step of the log or a stutter.                            *)
LEMMA MoveLog == ASSUME NEW d, FilesInv, Move(d) PROVE [Log!Next]_(Log!vars)
  BY StillLog, RepairsLog, ShortensLog, DropsLog, ExtendsLog, PublishesLog,
     ReleasesLog DEF Move, Log!Next

(* So is every step of the journal.                                         *)
LEMMA LogNext == DiskInv /\ [Next]_vars => [Log!Next]_(Log!vars)
  <1> SUFFICES ASSUME DiskInv, [Next]_vars PROVE [Log!Next]_(Log!vars)
    OBVIOUS
  <1>1. CASE Next
    BY <1>1, NextStep, MoveLog DEF Step, DiskInv
  <1>2. CASE UNCHANGED vars
    BY <1>2, StillLog DEF vars, Still, DiskInv
  <1> QED BY <1>1, <1>2

(* An empty journal is an empty log.                                        *)
LEMMA LogInit == Init => Log!Init
  <1> SUFFICES ASSUME Init PROVE Log!Init
    OBVIOUS
  <1>1. Content = [n \in {} |-> 0]
    <2>1. Content = Merge({Empty})
      BY DEF Init, Content
    <2>2. DOMAIN Empty = {}
      BY EmptyFile
    <2>3. UNION {DOMAIN f : f \in {Empty}} = {}
      BY <2>2
    <2> QED BY <2>1, <2>3 DEF Merge
  <1>2. Repaired = cursor
    BY DEF Init, Repaired, Newer
  <1> QED BY <1>1, <1>2 DEF Init, NoCursor, Log!Init

(* ImplementsLog: for its readers the journal is one log that is appended   *)
(* to at its end, sealed at whole segments and released from its front; no  *)
(* crash between the renames of two files, and no repair, ever shows them   *)
(* anything else.                                                           *)
THEOREM JournalIsLog == Spec => ImplementsLog
  <1>1. Spec => []DiskInv
    BY DiskAlways
  <1> QED BY <1>1, LogInit, LogNext, PTL DEF Spec, ImplementsLog, Log!Spec

-----------------------------------------------------------------------------
(* The jobs of the outbox, when one thread appends and enqueues.            *)

(* A job is open until its segment is published.                            *)
Open(s) == jobs[s] \in {"STAGED", "FAILED"} /\ s \notin history

(* A job's segment is due when the live file begins with it.                *)
NextUp(s) == Lo(s) = Repaired.archived + 1 /\ IsRestriction(s, live)

(* The segments that have, or had, a job.                                   *)
Booked == DOMAIN jobs \cup abandoned

(* A segment that is not published yet.                                     *)
Due(s) == Hi(s) > Repaired.archived

(* A published segment waits for its job to be committed, or the job is.    *)
Stands(s) ==
    \/ s \in history /\ Hi(s) > cursor.released
    \/ s \in DOMAIN jobs /\ jobs[s] = "COMMITTED"

(* Published messages have their job, the job that is open is the next      *)
(* segment of the live file, and what is released was committed.            *)
Outbox ==
    /\ OutboxCoversHistory
    /\ \A s \in DOMAIN jobs : Open(s) => NextUp(s)
    /\ \A s, t \in DOMAIN jobs : Open(s) /\ Open(t) => s = t
    /\ \A s \in DOMAIN jobs : Hi(s) <= cursor.released => jobs[s] = "COMMITTED"

(* The lifecycle releases committed segments.                               *)
Chosen(n) ==
    \A s \in history : cursor.released < Lo(s) /\ Hi(s) <= n => s \in DOMAIN jobs /\ jobs[s] = "COMMITTED"

(* A caller that completes a job, or seals, has its job in the outbox; only *)
(* while the worker is idle is one abandoned.                               *)
HasJob(c, v) ==
    /\ v.phase # "idle" /\ v.why # "new" => v.job \in Booked
    /\ v.phase # "idle" /\ c = "worker" => v.job \in DOMAIN jobs
    /\ v.phase \in {"boundary", "seal", "staging", "lost"} /\ v.why # "new" => v.through = Hi(v.job)
    /\ v.phase \in {"staged", "created", "trimmed", "sealed", "enqueued"} => v.seg \in Booked

(* A foreground that looked for staged jobs knows of those that are open.   *)
Passing == {"completing", "read", "boundary", "seal", "staging", "lost", "staged", "created",
            "trimmed", "sealed", "enqueued"}

(* The jobs it still has before it.                                         *)
Ahead(v) ==
    {t.seg : t \in v.todo}
    \cup (IF v.phase \in {"read", "boundary", "seal", "staging", "lost", "staged"} /\ v.why # "new"
          THEN {v.job} ELSE {})
    \cup (IF v.phase = "staged" /\ v.why = "new" THEN {v.seg} ELSE {})

(* It looked before it seals, every open job is ahead of it, and only one   *)
(* segment ahead of it is still to be published.                            *)
Looks(v) ==
    /\ v.phase \in Passing => v.checked
    /\ v.phase # "idle" /\ v.checked => \A s \in DOMAIN jobs : Open(s) => s \in Ahead(v)
    /\ v.phase # "idle" /\ v.checked => \A s, t \in Ahead(v) : Due(s) /\ Due(t) => s = t
    /\ v.phase # "idle" => \A t \in v.todo : t.seg \in Booked
    /\ v.phase \in {"created", "trimmed", "sealed"} /\ v.why = "new" => Stands(v.seg)
    /\ v.phase \in {"plan", "listing", "enqueued"} => v.why = "new"
    /\ v.phase \in {"plan", "boundary", "seal", "staging", "lost", "staged", "created", "trimmed",
                    "sealed", "enqueued"} /\ v.why = "new" => v.todo = {}
    /\ v.phase = "staged" /\ v.why # "new" => v.seg = v.job
    /\ v.phase = "lost" /\ v.why = "new" => NextUp(v.seg)

(* What each role knows of the outbox.                                      *)
Sure(c, v) ==
    /\ c # "keeper" => HasJob(c, v)
    /\ c \in Foreground => Looks(v)
    /\ c = "keeper" /\ v.phase \in {"chosen", "release"} => Chosen(v.through)

(* The invariant of the outbox.                                             *)
OutboxInv == Outbox /\ \A c \in Caller : Sure(c, callers[c])

(* The source ledger delivers a conversation's sources one at a time: one   *)
(* foreground.                                                              *)
OneForeground == \A a, b \in Foreground : a = b

-----------------------------------------------------------------------------
(* What a step does to the jobs and the segments together.                  *)
Quietly ==
    \/ Still \/ Repairs \/ (\E s : Shortens(s)) \/ (\E b : Extends(b)) \/ (\E s : Seg(s) /\ Drops(s))

(* The files move on, the jobs stay.                                        *)
Unaffected == UNCHANGED <<jobs, abandoned>> /\ Quietly

(* A seal publishes the segment of a job, open if it is still there.        *)
Seals1(s) ==
    /\ s \in Booked /\ Publishes(s) /\ UNCHANGED <<jobs, abandoned>>
    /\ \A t \in DOMAIN jobs : Open(t) => t = s

(* Committed segments are released.                                         *)
Frees(n) == Releases(n) /\ Chosen(n) /\ UNCHANGED <<jobs, abandoned>>

(* A job is staged for the next segment when none is open, or anew for a    *)
(* published one whose job was abandoned.                                   *)
Stages(s) ==
    /\ Still /\ Seg(s) /\ jobs' = StageJob(s) /\ UNCHANGED abandoned
    /\ \/ s \in DOMAIN jobs
       \/ NextUp(s) /\ \A t \in DOMAIN jobs : ~Open(t)
       \/ s \in history /\ Hi(s) > cursor.released

(* Jobs change their status, but no committed one does.                     *)
Works ==
    /\ Still /\ UNCHANGED abandoned /\ DOMAIN jobs' = DOMAIN jobs
    /\ \A s \in DOMAIN jobs :
          /\ jobs'[s] \in {"STAGED", "FAILED"} => jobs[s] \in {"STAGED", "FAILED"}
          /\ jobs[s] = "COMMITTED" => jobs'[s] = "COMMITTED"

(* An old job is deleted while nobody is doing anything.                    *)
Discards(s) ==
    /\ Still /\ s \in DOMAIN jobs /\ Hi(s) <= cursor.released
    /\ \A c \in Caller : callers[c].phase = "idle"
    /\ jobs' = Restrict(jobs, DOMAIN jobs \ {s}) /\ UNCHANGED abandoned

(* A failed job is abandoned.                                               *)
Forsakes(s) ==
    /\ Still /\ s \in DOMAIN jobs /\ jobs[s] # "COMMITTED"
    /\ callers["worker"].phase = "idle"
    /\ jobs' = Restrict(jobs, DOMAIN jobs \ {s}) /\ abandoned' = abandoned \cup {s}

(* Steps that every caller's knowledge survives.                            *)
Calm == Unaffected \/ Works \/ (\E s : Discards(s)) \/ (\E s : Forsakes(s))

(* The kinds of steps, by who may take them.                                *)
Kind(d) ==
    \/ Calm
    \/ d \in Foreground /\ \E s : Seals1(s)
    \/ d = "worker" /\ \E s \in DOMAIN jobs : Seals1(s)
    \/ d = "keeper" /\ \E n : Frees(n)
    \/ d \in Foreground /\ \E s : Stages(s)

-----------------------------------------------------------------------------
(* Only a publication moves the end of what is published, and forward.      *)
LEMMA ArchivedKept ==
    ASSUME FilesInv, Quietly \/ (\E n : Releases(n)) PROVE Repaired'.archived = Repaired.archived
  BY StillLog, RepairsLog, ShortensLog, DropsLog, ExtendsLog, ReleasesLog
     DEF Quietly, Log!vars, Log!Append, Log!Release

LEMMA ArchivedGrows ==
    ASSUME FilesInv, FilesInv', NEW s, Publishes(s)
    PROVE  /\ Repaired.archived = cursor.archived /\ Repaired'.archived = Hi(s) /\ Seg(s)
           /\ Lo(s) = cursor.archived + 1
  <1>1. /\ history' = history \cup {s} /\ cursor' = cursor
        /\ Seg(s) /\ Lo(s) = cursor.archived + 1 /\ NoNewer
    BY DEF Publishes, Quiet, PrefixOf
  <1>2. s \in history' /\ IsNewer(s)'
    BY <1>1 DEF IsNewer
  <1> QED BY <1>1, <1>2, SealedIs, SealedNext

(* The next segment stays the next one.                                     *)
LEMMA NextUpKept ==
    ASSUME FilesInv, Quietly \/ (\E n : Releases(n)), NEW s, Seg(s), NextUp(s) PROVE NextUp(s)'
  <1>1. Repaired'.archived = Repaired.archived
    BY ArchivedKept
  <1>2. IsRestriction(s, live')
    <2>0. IsRestriction(s, live) /\ Lo(s) = Repaired.archived + 1
      BY DEF NextUp
    <2>1. CASE live' = live
      BY <2>0, <2>1
    <2>2. ASSUME NEW t, Shortens(t) PROVE IsRestriction(s, live')
      <3>1. /\ t \in history /\ live' = Restrict(live, DOMAIN live \ DOMAIN t) /\ Seg(t)
            /\ IsNewer(t) \/ (NoNewer /\ Hi(t) = cursor.archived)
        BY <2>2 DEF Shortens, FilesInv, FilesTyped, Tiled
      <3>2. Repaired.archived = Hi(t)
        BY <3>1, SealedIs
      <3>3. \A n \in DOMAIN s : n \notin DOMAIN t
        BY <2>0, <3>1, <3>2 DEF Seg
      <3> QED BY <2>0, <3>1, <3>3 DEF IsRestriction, Restrict
    <2>3. ASSUME NEW b, Extends(b) PROVE IsRestriction(s, live')
      <3>1. \A n \in DOMAIN live : n \in DOMAIN live' /\ live'[n] = live[n]
        BY <2>3, AppendedIs DEF Extends
      <3> QED BY <2>0, <3>1 DEF IsRestriction
    <2>4. live' = live \/ (\E t : Shortens(t)) \/ (\E b : Extends(b))
      BY DEF Quietly, Still, Repairs, Drops, Releases
    <2> QED BY <2>1, <2>2, <2>3, <2>4
  <1> QED BY <1>1, <1>2 DEF NextUp

(* Only the job that is open can be published.                              *)
LEMMA PublishedOpen ==
    ASSUME DiskInv, NEW s, Publishes(s)
    PROVE  Lo(s) = cursor.archived + 1 /\ Seg(s) /\ (s \in DOMAIN jobs => Open(s))
  <1>1. Quiet /\ Seg(s) /\ Lo(s) = cursor.archived + 1
    BY DEF Publishes, PrefixOf, Quiet
  <1>2. ~(Hi(s) <= cursor.archived)
    BY <1>1, CursorType DEF Seg, DiskInv
  <1>3. s \notin history
    BY <1>1, <1>2, QuietPast DEF Quiet, DiskInv
  <1>4. ASSUME s \in DOMAIN jobs PROVE Open(s)
    <2>1. jobs[s] \notin {"QUEUED", "BLOCKED", "COMMITTED"}
      BY <1>2, <1>4 DEF DiskInv, JobsInv, Cut
    <2>2. jobs[s] \in JobStatus
      BY <1>4 DEF DiskInv, JobsInv
    <2> QED BY <1>3, <2>1, <2>2 DEF Open, JobStatus
  <1> QED BY <1>1, <1>4

(* A job is opened.                                                         *)
Opens(s) ==
    /\ s \notin DOMAIN jobs /\ Stages(s)
    /\ NextUp(s) /\ \A t \in DOMAIN jobs : ~Open(t)

(* What is open after a step was open before, or was just staged.           *)
LEMMA OpenBefore ==
    ASSUME DiskInv, Outbox, NEW d, Kind(d), NEW s \in DOMAIN jobs', Open(s)'
    PROVE  (s \in DOMAIN jobs /\ Open(s)) \/ Opens(s)
  <1>0. jobs'[s] \in {"STAGED", "FAILED"} /\ s \notin history'
    BY DEF Open
  <1>1. CASE Unaffected
    <2>1. s \in DOMAIN jobs /\ jobs[s] \in {"STAGED", "FAILED"}
      BY <1>0, <1>1 DEF Unaffected
    <2>2. ASSUME s \in history PROVE FALSE
      <3>1. PICK t : Drops(t) /\ t = s
        BY <1>0, <1>1, <2>2 DEF Unaffected, Quietly, Still, Repairs, Shortens,
           Extends, Drops
      <3>2. jobs[s] = "COMMITTED"
        BY <2>1, <3>1 DEF Drops, IsStale, Outbox
      <3> QED BY <2>1, <3>2
    <2> QED BY <2>1, <2>2 DEF Open
  <1>2. CASE Works
    BY <1>0, <1>2 DEF Works, Open, Still
  <1>3. ASSUME NEW t, Discards(t) PROVE s \in DOMAIN jobs /\ Open(s)
    BY <1>0, <1>3 DEF Discards, Open, Still, Restrict
  <1>4. ASSUME NEW t, Seals1(t) PROVE s \in DOMAIN jobs /\ Open(s)
    BY <1>0, <1>4 DEF Seals1, Publishes, Open
  <1>7. ASSUME NEW t, Forsakes(t) PROVE s \in DOMAIN jobs /\ Open(s)
    BY <1>0, <1>7 DEF Forsakes, Open, Still, Restrict
  <1>5. ASSUME NEW n, Frees(n) PROVE s \in DOMAIN jobs /\ Open(s)
    BY <1>0, <1>5 DEF Frees, Releases, Open
  <1>6. ASSUME NEW t, Stages(t) PROVE (s \in DOMAIN jobs /\ Open(s)) \/ Opens(s)
    <2>1. jobs' = StageJob(t) /\ history' = history
      BY <1>6 DEF Stages, Still
    <2>2. CASE s \in DOMAIN jobs
      <3>1. jobs'[s] = jobs[s]
        BY <2>1, <2>2 DEF StageJob
      <3> QED BY <1>0, <2>1, <2>2, <3>1 DEF Open
    <2>3. CASE s \notin DOMAIN jobs
      <3>1. s = t
        BY <2>1, <2>3 DEF StageJob
      <3>2. s \notin history
        BY <1>0, <2>1
      <3> QED BY <1>6, <2>3, <3>1, <3>2 DEF Stages, Opens
    <2> QED BY <2>2, <2>3
  <1> QED BY <1>1, <1>2, <1>3, <1>4, <1>5, <1>6, <1>7 DEF Kind, Calm

(* The kinds of steps, as moves of the files.                               *)
LEMMA KindMoves ==
    ASSUME NEW d, Kind(d)
    PROVE  /\ Quietly \/ (\E s : Seals1(s)) \/ (\E n : Frees(n))
           /\ Calm => Quietly
           /\ d # "keeper" => Quietly \/ (\E s : Seals1(s))
           /\ d \notin Foreground => Quietly \/ (\E s \in DOMAIN jobs : Seals1(s)) \/ (\E n : Frees(n))
  BY DEF Kind, Calm, Unaffected, Works, Discards, Forsakes, Stages, Quietly

(* What is published is not due.                                            *)
LEMMA RepairedPast ==
    ASSUME FilesInv
    PROVE  /\ Repaired.archived \in Int /\ Repaired.archived >= cursor.archived
           /\ \A s \in history : ~Due(s)
  <1>1. Repaired.archived \in Int /\ Repaired.archived >= cursor.archived
    <2>1. CASE NoNewer
      BY <2>1, SealedIs, CursorType
    <2>2. ASSUME NEW u \in history, IsNewer(u)
          PROVE  Repaired.archived >= cursor.archived /\ Repaired.archived \in Int
      <3>1. Seg(u) /\ Repaired.archived = Hi(u) /\ Lo(u) = cursor.archived + 1
        BY <2>2, SealedIs DEF IsNewer, FilesInv, FilesTyped
      <3> QED BY <3>1, CursorType DEF Seg
    <2> QED BY <2>1, <2>2 DEF NoNewer
  <1>2. ASSUME NEW s \in history PROVE ~Due(s)
    <2>1. /\ Seg(s) /\ (IsStale(s) \/ IsActive(s) \/ IsNewer(s))
          /\ cursor.released <= cursor.archived
      BY DEF FilesInv, FilesTyped, Tiled
    <2>2. CASE IsNewer(s)
      BY <2>1, <2>2, SealedIs DEF Due, Seg
    <2>3. CASE IsStale(s) \/ IsActive(s)
      BY <1>1, <2>1, <2>3, CursorType DEF Due, Seg, IsStale, IsActive
    <2> QED BY <2>1, <2>2, <2>3
  <1> QED BY <1>1, <1>2

(* The cursor is a pair of integers.                                        *)
LEMMA CursorInts == FilesInv => cursor.released \in Int /\ cursor.archived \in Int
  BY CursorType

(* Every kind of step keeps the outbox.                                     *)
LEMMA OutboxKept ==
    ASSUME DiskInv, Outbox, NEW d, Kind(d), FilesInv' PROVE Outbox'
  <1>0. FilesInv /\ \A s \in DOMAIN jobs : Seg(s)
    BY DEF DiskInv, JobsInv
  <1>1. OutboxCoversHistory'
    <2> SUFFICES ASSUME NEW s \in history', Hi(s) > cursor'.released PROVE s \in Booked'
      BY DEF OutboxCoversHistory, Booked
    <2>1. CASE Unaffected
      <3>1. s \in history /\ cursor'.released = cursor.released /\ UNCHANGED <<jobs, abandoned>>
        <4>1. CASE Repairs
          <5>1. PICK t \in history : IsNewer(t)
            BY <4>1 DEF Repairs, NoNewer
          <5> QED BY <1>0, <2>1, <4>1, <5>1, RepairsTo DEF Unaffected
        <4> QED BY <2>1, <4>1 DEF Unaffected, Quietly, Still, Shortens, Extends, Drops
      <3> QED BY <3>1 DEF Outbox, OutboxCoversHistory, Booked
    <2>2. CASE Works
      BY <2>2 DEF Works, Still, Outbox, OutboxCoversHistory, Booked
    <2>3. ASSUME NEW t, Discards(t) PROVE s \in Booked'
      <3>1. /\ s \in DOMAIN jobs \cup abandoned /\ DOMAIN jobs' = DOMAIN jobs \ {t}
            /\ cursor' = cursor /\ abandoned' = abandoned
        BY <2>3 DEF Discards, Still, Outbox, OutboxCoversHistory, Restrict
      <3>2. s # t
        BY <1>0, <2>3, <3>1, CursorType DEF Discards, Seg
      <3> QED BY <3>1, <3>2 DEF Booked
    <2>4. ASSUME NEW t, Seals1(t) PROVE s \in Booked'
      BY <2>4 DEF Seals1, Publishes, Outbox, OutboxCoversHistory, Booked
    <2>5. ASSUME NEW n, Frees(n) PROVE s \in Booked'
      <3>1. s \in history /\ UNCHANGED <<jobs, abandoned>> /\ Seg(s) /\ Stable
        BY <1>0, <2>5, ReleasesKeep DEF Frees, Releases, FilesInv, FilesTyped
      <3>2. Hi(s) > cursor.released
        <4>1. (FilesInv => cursor.released \in Int /\ cursor.archived \in Int)'
          BY CursorInts, PTL
        <4>2. cursor'.released \in Int /\ cursor.released <= cursor'.released /\ cursor.released \in Int
          BY <1>0, <3>1, <4>1, CursorInts DEF Stable
        <4> QED BY <3>1, <4>2 DEF Seg
      <3> QED BY <3>1, <3>2 DEF Outbox, OutboxCoversHistory, Booked
    <2>6. ASSUME NEW t, Stages(t) PROVE s \in Booked'
      <3>1. /\ s \in DOMAIN jobs \cup abandoned /\ DOMAIN jobs \subseteq DOMAIN jobs'
            /\ abandoned' = abandoned
        BY <2>6 DEF Stages, Still, StageJob, Outbox, OutboxCoversHistory
      <3> QED BY <3>1 DEF Booked
    <2>7. ASSUME NEW t, Forsakes(t) PROVE s \in Booked'
      <3>1. /\ s \in DOMAIN jobs \cup abandoned /\ DOMAIN jobs' = DOMAIN jobs \ {t}
            /\ abandoned' = abandoned \cup {t}
        BY <2>7 DEF Forsakes, Still, Outbox, OutboxCoversHistory, Restrict
      <3> QED BY <3>1 DEF Booked
    <2> QED BY <2>1, <2>2, <2>3, <2>4, <2>5, <2>6, <2>7 DEF Kind, Calm
  <1>2. ASSUME NEW s \in DOMAIN jobs', Open(s)' PROVE NextUp(s)'
    <2>1. CASE s \in DOMAIN jobs /\ Open(s)
      <3>1. NextUp(s) /\ Seg(s)
        BY <1>0, <2>1 DEF Outbox
      <3>2. CASE Quietly \/ \E n : Frees(n)
        BY <1>0, <3>1, <3>2, NextUpKept DEF Frees
      <3>3. ASSUME NEW t, Seals1(t) PROVE FALSE
        <4>2. s = t
          BY <2>1, <3>3 DEF Seals1
        <4> QED BY <1>2, <3>3, <4>2 DEF Seals1, Publishes, Open
      <3> QED BY <3>2, <3>3, KindMoves
    <2>2. CASE Opens(s)
      <3>1. NextUp(s) /\ Still /\ Seg(s)
        BY <2>2 DEF Opens, Stages
      <3> QED BY <1>0, <3>1, NextUpKept DEF Quietly
    <2> QED BY <1>2, <2>1, <2>2, OpenBefore
  <1>3. ASSUME NEW s \in DOMAIN jobs', NEW t \in DOMAIN jobs', Open(s)', Open(t)' PROVE s = t
    <2>1. /\ (s \in DOMAIN jobs /\ Open(s)) \/ Opens(s)
          /\ (t \in DOMAIN jobs /\ Open(t)) \/ Opens(t)
      BY <1>3, OpenBefore
    <2>2. CASE s \in DOMAIN jobs /\ t \in DOMAIN jobs
      BY <2>1, <2>2 DEF Outbox, Opens
    <2>3. CASE s \notin DOMAIN jobs
      BY <2>1, <2>3 DEF Opens, Stages, StageJob
    <2>4. CASE t \notin DOMAIN jobs
      BY <2>1, <2>4 DEF Opens, Stages, StageJob
    <2> QED BY <2>2, <2>3, <2>4
  <1>4. ASSUME NEW s \in DOMAIN jobs', Hi(s) <= cursor'.released PROVE jobs'[s] = "COMMITTED"
    <2>1. CASE Unaffected
      <3>1. cursor'.released = cursor.released /\ jobs' = jobs
        <4>1. CASE Repairs
          <5>1. PICK t \in history : IsNewer(t)
            BY <4>1 DEF Repairs, NoNewer
          <5> QED BY <1>0, <2>1, <4>1, <5>1, RepairsTo DEF Unaffected
        <4> QED BY <2>1, <4>1 DEF Unaffected, Quietly, Still, Shortens, Extends, Drops
      <3> QED BY <1>4, <3>1 DEF Outbox
    <2>2. CASE Works
      BY <1>4, <2>2 DEF Works, Still, Outbox
    <2>3. ASSUME NEW t, Discards(t) PROVE jobs'[s] = "COMMITTED"
      BY <1>4, <2>3 DEF Discards, Still, Outbox, Restrict
    <2>4. ASSUME NEW t, Seals1(t) PROVE jobs'[s] = "COMMITTED"
      BY <1>4, <2>4 DEF Seals1, Publishes, Outbox
    <2>5. ASSUME NEW n, Frees(n) PROVE jobs'[s] = "COMMITTED"
      <3>1. jobs' = jobs /\ s \in DOMAIN jobs /\ Seg(s) /\ NoNewer /\ n <= cursor.archived /\ n \in Nat
            /\ cursor'.released = n
        BY <1>0, <2>5 DEF Frees, Releases, ReleasedCursor, FilesInv, FilesTyped,
           CursorRecord, Cut, Seg
      <3>2. CASE s \in history
        <4>1. IsStale(s) \/ cursor.released < Lo(s)
          BY <1>0, <3>1, <3>2 DEF FilesInv, Tiled, NoNewer, IsActive
        <4> QED BY <1>4, <2>5, <3>1, <3>2, <4>1 DEF Frees, Chosen, IsStale, Outbox
      <3>3. CASE s \notin history
        <4>1. ~Open(s)
          <5>1. ASSUME NextUp(s) PROVE FALSE
            <6>1. Lo(s) = cursor.archived + 1
              BY <1>0, <3>1, <5>1, SealedIs DEF NextUp
            <6> QED BY <1>0, <1>4, <3>1, <6>1, CursorType DEF Seg
          <5> QED BY <3>1, <5>1 DEF Outbox
        <4>2. jobs[s] \in {"QUEUED", "BLOCKED", "COMMITTED"}
          BY <3>1, <3>3, <4>1 DEF Open, DiskInv, JobsInv, JobStatus
        <4>3. Hi(s) <= cursor.released
          BY <3>1, <3>3, <4>2 DEF DiskInv, JobsInv, Published
        <4> QED BY <3>1, <4>3 DEF Outbox
      <3> QED BY <3>2, <3>3
    <2>6. ASSUME NEW t, Stages(t) PROVE jobs'[s] = "COMMITTED"
      <3>1. cursor' = cursor /\ jobs' = StageJob(t)
        BY <2>6 DEF Stages, Still
      <3>2. CASE s \in DOMAIN jobs
        <4>1. jobs'[s] = jobs[s]
          BY <3>1, <3>2 DEF StageJob
        <4> QED BY <1>4, <3>1, <3>2, <4>1 DEF Outbox
      <3>3. CASE s \notin DOMAIN jobs
        <4>0. s = t /\ Seg(s) /\ cursor.released \in Int
          BY <1>0, <2>6, <3>1, <3>3, CursorInts DEF StageJob, Stages
        <4>1. NextUp(s)
          BY <1>4, <2>6, <3>1, <3>3, <4>0 DEF Stages, Seg
        <4>2. Repaired.archived >= cursor.archived /\ Repaired.archived \in Int
          BY <1>0, RepairedPast
        <4>3. cursor.released <= cursor.archived
          BY <1>0 DEF FilesInv, FilesTyped
        <4> QED BY <1>0, <1>4, <3>1, <4>0, <4>1, <4>2, <4>3, CursorType DEF NextUp, Seg
      <3> QED BY <3>2, <3>3
    <2>7. ASSUME NEW t, Forsakes(t) PROVE jobs'[s] = "COMMITTED"
      BY <1>4, <2>7 DEF Forsakes, Still, Outbox, Restrict
    <2> QED BY <2>1, <2>2, <2>3, <2>4, <2>5, <2>6, <2>7 DEF Kind, Calm
  <1> QED BY <1>1, <1>2, <1>3, <1>4 DEF Outbox

-----------------------------------------------------------------------------
(* Jobs are deleted only while everybody is idle, or they leave a record    *)
(* while the worker is.                                                     *)
LEMMA JobsStay ==
    ASSUME NEW d \in Caller, Kind(d), NEW c \in Caller, callers[c].phase # "idle"
    PROVE  Booked \subseteq Booked' /\ (c = "worker" => DOMAIN jobs \subseteq DOMAIN jobs')
  <1>1. ASSUME NEW t, Discards(t) PROVE FALSE
    BY <1>1 DEF Discards
  <1>2. CASE UNCHANGED <<jobs, abandoned>>
    BY <1>2 DEF Booked
  <1>3. CASE Works
    BY <1>3 DEF Works, Booked
  <1>4. ASSUME NEW t, Forsakes(t)
        PROVE  Booked \subseteq Booked' /\ (c = "worker" => DOMAIN jobs \subseteq DOMAIN jobs')
    <2>1. DOMAIN jobs' = DOMAIN jobs \ {t} /\ abandoned' = abandoned \cup {t} /\ c # "worker"
      BY <1>4 DEF Forsakes, Restrict
    <2> QED BY <2>1 DEF Booked
  <1>5. ASSUME NEW t, Stages(t)
        PROVE  Booked \subseteq Booked' /\ (c = "worker" => DOMAIN jobs \subseteq DOMAIN jobs')
    <2>1. DOMAIN jobs \subseteq DOMAIN jobs' /\ abandoned' = abandoned
      BY <1>5 DEF Stages, StageJob
    <2> QED BY <2>1 DEF Booked
  <1> QED BY <1>1, <1>2, <1>3, <1>4, <1>5 DEF Kind, Calm, Unaffected, Seals1, Frees

(* Who opens a job is the foreground.                                       *)
LEMMA StagesOnly ==
    ASSUME NEW d \in Caller, Kind(d), NEW s, Opens(s) PROVE ~Calm /\ d \in Foreground
  <1>1. s \in DOMAIN jobs' /\ s \notin DOMAIN jobs
    BY DEF Opens, Stages, StageJob
  <1>2. DOMAIN jobs' = DOMAIN jobs => FALSE
    BY <1>1
  <1>3. ASSUME NEW t, Discards(t) \/ Forsakes(t) PROVE FALSE
    BY <1>1, <1>3 DEF Discards, Forsakes, Restrict
  <1> QED BY <1>2, <1>3 DEF Kind, Calm, Unaffected, Works, Seals1, Frees

(* Another caller's job is not taken away.                                  *)
LEMMA HasJobKept ==
    ASSUME NEW d \in Caller, Kind(d), NEW c \in Caller, NEW v, v = callers[c], HasJob(c, v)
    PROVE  HasJob(c, v)'
  <1>1. CASE v.phase = "idle"
    BY <1>1 DEF HasJob
  <1>2. CASE v.phase # "idle"
    <2>1. Booked \subseteq Booked' /\ (c = "worker" => DOMAIN jobs \subseteq DOMAIN jobs')
      BY <1>2, JobsStay
    <2> QED BY <2>1 DEF HasJob
  <1> QED BY <1>1, <1>2

(* What is due after a step was due before.                                 *)
LEMMA DueBefore ==
    ASSUME DiskInv, FilesInv', NEW d, Kind(d), NEW s, Seg(s), Due(s)' PROVE Due(s)
  <1>0. FilesInv /\ cursor.archived \in Int /\ Hi(s) \in Nat
    BY CursorType DEF DiskInv, Seg
  <1>1. CASE Quietly \/ \E n : Frees(n)
    <2>1. Repaired'.archived = Repaired.archived
      BY <1>0, <1>1, ArchivedKept DEF Frees
    <2> QED BY <2>1 DEF Due
  <1>2. ASSUME NEW t, Seals1(t) PROVE Due(s)
    <2>1. /\ Repaired.archived = cursor.archived /\ Repaired'.archived = Hi(t) /\ Seg(t)
          /\ Lo(t) = cursor.archived + 1
      BY <1>0, <1>2, ArchivedGrows DEF Seals1
    <2>2. Hi(t) \in Nat /\ Lo(t) <= Hi(t)
      BY <2>1 DEF Seg
    <2>3. Hi(s) > Hi(t)
      BY <2>1 DEF Due
    <2> QED BY <1>0, <2>1, <2>2, <2>3 DEF Due
  <1> QED BY <1>1, <1>2, KindMoves

(* One segment ahead is due, as before, when none was added.                *)
LEMMA OneDueKept ==
    ASSUME DiskInv, FilesInv', NEW d, Kind(d), NEW c \in Caller, NEW v,
           Ahead(v) \subseteq Ahead(callers[c]),
           \A s, u \in Ahead(callers[c]) : Due(s) /\ Due(u) => s = u
    PROVE  \A s, u \in Ahead(v) : Due(s)' /\ Due(u)' => s = u
  <1> SUFFICES ASSUME NEW s \in Ahead(v), NEW u \in Ahead(v), Due(s)', Due(u)' PROVE s = u
    OBVIOUS
  <1>1. s \in Ahead(callers[c]) /\ u \in Ahead(callers[c])
    OBVIOUS
  <1>2. Seg(s) /\ Seg(u)
    BY <1>1, Known DEF Ahead, Remembers
  <1>3. Due(s) /\ Due(u)
    BY <1>2, DueBefore
  <1> QED BY <1>1, <1>3

(* A released segment was committed.                                        *)
LEMMA StandsKept ==
    ASSUME DiskInv, NEW d \in Caller, Kind(d), NEW c \in Caller, callers[c].phase # "idle",
           NEW s, Seg(s), Stands(s)
    PROVE  Stands(s)'
  <1>0. FilesInv /\ cursor.released \in Int /\ Hi(s) \in Nat
    BY CursorType DEF DiskInv, Seg
  <1>1. CASE s \in DOMAIN jobs /\ jobs[s] = "COMMITTED"
    <2>1. CASE Works
      BY <1>1, <2>1 DEF Works, Stands
    <2>2. ASSUME NEW t, Discards(t) PROVE FALSE
      BY <2>2 DEF Discards
    <2>3. ASSUME NEW t, Forsakes(t) PROVE Stands(s)'
      <3>1. s # t
        BY <1>1, <2>3 DEF Forsakes
      <3> QED BY <1>1, <2>3, <3>1 DEF Forsakes, Stands, Restrict
    <2>4. ASSUME NEW t, Stages(t) PROVE Stands(s)'
      BY <1>1, <2>4 DEF Stages, StageJob, Stands
    <2>5. CASE UNCHANGED <<jobs, abandoned>>
      BY <1>1, <2>5 DEF Stands
    <2> QED BY <2>1, <2>2, <2>3, <2>4, <2>5 DEF Kind, Calm, Unaffected, Seals1, Frees
  <1>2. CASE s \in history /\ Hi(s) > cursor.released
    <2>1. CASE Quietly
      <3>1. cursor'.released = cursor.released
        <4>1. CASE Repairs
          <5>1. PICK t \in history : IsNewer(t)
            BY <4>1 DEF Repairs, NoNewer
          <5> QED BY <1>0, <4>1, <5>1, RepairsTo
        <4> QED BY <2>1, <4>1 DEF Quietly, Still, Shortens, Extends, Drops
      <3>2. ASSUME NEW t, Drops(t) PROVE s # t
        BY <1>0, <1>2, <3>2 DEF Drops, IsStale
      <3>3. s \in history'
        BY <1>2, <2>1, <3>2 DEF Quietly, Still, Repairs, Shortens, Extends, Drops
      <3> QED BY <1>2, <3>1, <3>3 DEF Stands
    <2>2. ASSUME NEW t, Seals1(t) PROVE Stands(s)'
      BY <1>2, <2>2 DEF Seals1, Publishes, Stands
    <2>3. ASSUME NEW n, Frees(n) PROVE Stands(s)'
      <3>1. /\ cursor'.released = n /\ n \in Nat /\ s \in history' /\ NoNewer
            /\ UNCHANGED <<jobs, abandoned>>
        BY <1>0, <1>2, <2>3 DEF Frees, Releases, ReleasedCursor, FilesInv, FilesTyped,
           CursorRecord, Seg
      <3>2. cursor.released < Lo(s)
        BY <1>0, <1>2, <3>1 DEF FilesInv, Tiled, NoNewer, IsActive, IsStale
      <3>3. CASE Hi(s) <= n
        BY <1>2, <2>3, <3>1, <3>2, <3>3 DEF Frees, Chosen, Stands
      <3>4. CASE ~(Hi(s) <= n)
        BY <1>0, <3>1, <3>4 DEF Stands
      <3> QED BY <3>3, <3>4
    <2> QED BY <2>1, <2>2, <2>3, KindMoves
  <1> QED BY <1>1, <1>2 DEF Stands

(* Nobody else opens or publishes a job's segment: there is one foreground. *)
LEMMA LooksKept ==
    ASSUME OneForeground, DiskInv, Outbox, FilesInv', NEW d \in Caller, Kind(d),
           NEW c \in Foreground, c # d \/ Calm, NEW v, v = callers[c], Looks(v)
    PROVE  Looks(v)'
  <1>0. c \in Caller /\ Remembers(v) /\ FilesInv
    BY Names, Known
  <1>1. ASSUME v.phase # "idle", v.checked, NEW s \in DOMAIN jobs', Open(s)' PROVE s \in Ahead(v)
    <2>1. (s \in DOMAIN jobs /\ Open(s)) \/ Opens(s)
      BY <1>1, OpenBefore
    <2>2. ~Opens(s)
      BY StagesOnly DEF OneForeground
    <2> QED BY <1>1, <2>1, <2>2 DEF Looks
  <1>2. ASSUME v.phase # "idle" PROVE \A t \in v.todo : t.seg \in Booked'
    BY <1>0, <1>2, JobsStay DEF Looks
  <1>3. ASSUME v.phase = "lost", v.why = "new" PROVE NextUp(v.seg)'
    <2>1. NextUp(v.seg) /\ Seg(v.seg) /\ v.checked /\ v.todo = {}
      BY <1>0, <1>3 DEF Looks, Passing, Remembers
    <2>2. ASSUME NEW t \in DOMAIN jobs, Seals1(t) PROVE FALSE
      <3>1. Open(t)
        BY <2>2, PublishedOpen DEF Seals1
      <3>2. t \in Ahead(v)
        BY <1>3, <2>1, <2>2, <3>1 DEF Looks
      <3> QED BY <1>3, <2>1, <3>2 DEF Ahead
    <2>3. Quietly \/ \E n : Releases(n)
      BY <2>2, KindMoves DEF Frees, OneForeground
    <2> QED BY <1>0, <2>1, <2>3, NextUpKept
  <1>4. ASSUME v.phase # "idle", v.checked, NEW s \in Ahead(v), NEW t \in Ahead(v), Due(s)', Due(t)'
        PROVE  s = t
    <2>1. Seg(s) /\ Seg(t)
      BY <1>0, <1>4 DEF Ahead, Remembers
    <2>2. Due(s) /\ Due(t)
      BY <1>4, <2>1, DueBefore
    <2> QED BY <1>4, <2>2 DEF Looks
  <1>5. ASSUME v.phase \in {"created", "trimmed", "sealed"}, v.why = "new" PROVE Stands(v.seg)'
    <2>1. Stands(v.seg) /\ Seg(v.seg) /\ callers[c].phase # "idle"
      BY <1>0, <1>5 DEF Looks, Remembers
    <2> QED BY <1>0, <2>1, StandsKept
  <1> QED BY <1>1, <1>2, <1>3, <1>4, <1>5 DEF Looks, Ahead

(* A chosen prefix stays committed.                                         *)
LEMMA ChosenKept ==
    ASSUME DiskInv, FilesInv', NEW d \in Caller, Kind(d), d # "keeper" \/ Calm,
           NEW v, v = callers["keeper"], v.phase \in {"chosen", "release"}, Chosen(v.through)
    PROVE  Chosen(v.through)'
  <1>0. "keeper" \in Caller /\ Knows(v) /\ FilesInv
    BY Names, Known
  <1> SUFFICES ASSUME NEW s \in history', cursor'.released < Lo(s), Hi(s) <= v.through
               PROVE  s \in DOMAIN jobs' /\ jobs'[s] = "COMMITTED"
    BY DEF Chosen
  <1>1. CASE Unaffected
    <2>1. s \in history /\ cursor'.released = cursor.released /\ UNCHANGED <<jobs, abandoned>>
      <3>1. CASE Repairs
        <4>1. PICK t \in history : IsNewer(t)
          BY <3>1 DEF Repairs, NoNewer
        <4> QED BY <1>0, <1>1, <3>1, <4>1, RepairsTo DEF Unaffected
      <3> QED BY <1>1, <3>1 DEF Unaffected, Quietly, Still, Shortens, Extends, Drops
    <2> QED BY <2>1 DEF Chosen
  <1>2. CASE Works
    BY <1>2 DEF Works, Still, Chosen
  <1>3. ASSUME NEW t, Discards(t) PROVE FALSE
    BY <1>0, <1>3 DEF Discards
  <1>4. ASSUME NEW t, Seals1(t) PROVE s \in DOMAIN jobs' /\ jobs'[s] = "COMMITTED"
    <2>1. s # t
      <3>1. Lo(t) = cursor.archived + 1 /\ Seg(t)
        BY <1>4, PublishedOpen DEF Seals1
      <3>2. v.through <= cursor.archived /\ v.through \in Nat
        <4>1. PICK u \in history : Hi(u) = v.through /\ Cut(u)
          BY <1>0 DEF Knows
        <4> QED BY <1>0, <4>1 DEF Cut, FilesInv, FilesTyped, Seg
      <3> QED BY <1>0, <3>1, <3>2, CursorType DEF Seg
    <2> QED BY <1>4, <2>1 DEF Seals1, Publishes, Chosen
  <1>5. ASSUME NEW t, Stages(t) PROVE s \in DOMAIN jobs' /\ jobs'[s] = "COMMITTED"
    <2>1. s \in history /\ cursor' = cursor /\ jobs' = StageJob(t)
      BY <1>5 DEF Stages, Still
    <2>2. s \in DOMAIN jobs /\ jobs[s] = "COMMITTED"
      BY <2>1 DEF Chosen
    <2> QED BY <2>1, <2>2 DEF StageJob
  <1>6. ASSUME NEW t, Forsakes(t) PROVE s \in DOMAIN jobs' /\ jobs'[s] = "COMMITTED"
    <2>1. s \in DOMAIN jobs /\ jobs[s] = "COMMITTED"
      BY <1>6 DEF Forsakes, Still, Chosen
    <2>2. s # t
      BY <1>6, <2>1 DEF Forsakes
    <2> QED BY <1>6, <2>1, <2>2 DEF Forsakes, Restrict
  <1> QED BY <1>1, <1>2, <1>3, <1>4, <1>5, <1>6 DEF Kind, Calm

(* What one caller is sure of stands when another one moves.                *)
LEMMA SureKept ==
    ASSUME OneForeground, DiskInv, OutboxInv, FilesInv', NEW d \in Caller, Kind(d),
           NEW c \in Caller, c # d \/ Calm, NEW v, v = callers[c]
    PROVE  Sure(c, v)'
  <1>1. Sure(c, v) /\ Outbox
    BY DEF OutboxInv
  <1>2. c \in Foreground => HasJob(c, v)' /\ Looks(v)'
    BY <1>1, Names, HasJobKept, LooksKept DEF Sure
  <1>3. c # "keeper" => HasJob(c, v)'
    BY <1>1, HasJobKept DEF Sure
  <1>4. c = "keeper" /\ v.phase \in {"chosen", "release"} => Chosen(v.through)'
    BY <1>1, ChosenKept DEF Sure
  <1> QED BY <1>2, <1>3, <1>4 DEF Sure

(* A caller goes on to v, and is sure of what v needs.                      *)
LEMMA GoSure ==
    ASSUME OneForeground, DiskInv, OutboxInv, DiskInv', NEW d \in Caller, Kind(d),
           NEW v, Go(d, v), Sure(d, v)'
    PROVE  OutboxInv'
  <1>0. FilesInv'
    BY DEF DiskInv
  <1>1. Outbox'
    BY <1>0, OutboxKept DEF OutboxInv
  <1>2. ASSUME NEW c \in Caller PROVE Sure(c, callers[c])'
    <2>1. callers \in [Caller -> CallerRecord]
      BY DEF DiskInv, CallersInv
    <2>2. CASE c = d
      <3>1. callers'[c] = v
        BY <2>1, <2>2 DEF Go
      <3> QED BY <2>2, <3>1
    <2>3. CASE c # d
      <3>1. PICK w : w = callers[c]
        OBVIOUS
      <3>2. callers'[c] = w
        BY <2>1, <2>3, <3>1 DEF Go
      <3>3. Sure(c, w)'
        BY <1>0, <2>3, <3>1, SureKept
      <3> QED BY <3>2, <3>3
    <2> QED BY <2>2, <2>3
  <1> QED BY <1>1, <1>2 DEF OutboxInv

(* Nobody goes on.                                                          *)
LEMMA StaySure ==
    ASSUME OneForeground, DiskInv, OutboxInv, DiskInv', Calm, callers' = callers PROVE OutboxInv'
  <1>0. FilesInv' /\ "keeper" \in Caller /\ Kind("keeper")
    BY Names DEF DiskInv, Kind
  <1>1. Outbox'
    BY <1>0, OutboxKept DEF OutboxInv
  <1>2. ASSUME NEW c \in Caller PROVE Sure(c, callers[c])'
    <2>1. PICK w : w = callers[c]
      OBVIOUS
    <2>2. Sure(c, w)' /\ callers'[c] = w
      BY <1>0, <2>1, SureKept
    <2> QED BY <2>2
  <1> QED BY <1>1, <1>2 DEF OutboxInv

(* An idle caller is sure of nothing.                                       *)
LEMMA SureIdle == \A c : Sure(c, Idle)
  BY IdleIs DEF Sure, HasJob, Looks, Passing

(* A caller that returns is idle.                                           *)
LEMMA ReturnSure ==
    ASSUME OneForeground, DiskInv, OutboxInv, DiskInv', NEW d \in Caller, Kind(d), Return(d) PROVE OutboxInv'
  <1>1. Sure(d, Idle)'
    BY IdleIs DEF Sure, HasJob, Looks, Passing
  <1> QED BY <1>1, GoSure DEF Return

(* A caller goes on while files and jobs stay.                              *)
LEMMA GoStillSure ==
    ASSUME OneForeground, DiskInv, OutboxInv, DiskInv', NEW d \in Caller, Still, UNCHANGED <<jobs, abandoned>>,
           NEW v, Go(d, v), Sure(d, v)
    PROVE  OutboxInv'
  <1>1. Kind(d)
    BY DEF Kind, Calm, Unaffected, Quietly
  <1>2. Sure(d, v)'
    BY DEF Sure, HasJob, Looks, Open, NextUp, Chosen, Still, Ahead, Repaired, Newer,
       Booked, Due, Stands
  <1> QED BY <1>1, <1>2, GoSure

(* A foreground, its job and the jobs it has to look at.                    *)
LEMMA SureForeground ==
    ASSUME NEW c \in Foreground, NEW v
    PROVE  c # "worker" /\ c # "keeper" /\ (Sure(c, v) <=> HasJob(c, v) /\ Looks(v))
  BY Names DEF Sure

(* The worker only needs its job.                                           *)
LEMMA SureWorker == ASSUME NEW v PROVE Sure("worker", v) <=> HasJob("worker", v)
  BY Names DEF Sure

(* What is known of a caller.                                               *)
LEMMA KnownSure ==
    ASSUME DiskInv, OutboxInv, NEW c \in Caller
    PROVE  /\ callers[c] \in CallerRecord /\ Role(c, callers[c]) /\ FilesInv /\ Outbox
           /\ Remembers(callers[c]) /\ Relies(callers[c]) /\ Knows(callers[c])
           /\ c # "keeper" => HasJob(c, callers[c])
           /\ c \in Foreground => Looks(callers[c])
  BY Known DEF OutboxInv, Sure, Caller

-----------------------------------------------------------------------------
(* append and the pass, in the outbox                                       *)

LEMMA AppendSure ==
    ASSUME OneForeground, DiskInv, OutboxInv, DiskInv', NEW c \in Foreground,
           \/ \E r \in Request : StartAppend(c, r)
           \/ AppendKnown(c) \/ AppendRefused(c) \/ CommitReceipt(c) \/ Prepare(c)
    PROVE  OutboxInv'
  <1>0. c \in Caller /\ callers[c] \in CallerRecord /\ HasJob(c, callers[c]) /\ Looks(callers[c])
    BY Names, KnownSure
  <1>1. Still /\ UNCHANGED <<jobs, abandoned>>
    BY DEF StartAppend, AppendKnown, AppendRefused, CommitReceipt, Prepare, Still, disk
  <1>2. Kind(c)
    BY <1>1 DEF Kind, Calm, Unaffected, Quietly
  <1>3. ASSUME NEW r \in Request, StartAppend(c, r) PROVE OutboxInv'
    <2>1. PICK v : v = [Idle EXCEPT !.phase = "append", !.req = r]
      OBVIOUS
    <2>2. v.phase = "append" /\ v.why = "new" /\ v.todo = {} /\ ~v.checked
      BY <2>1, IdleIs DEF CallerRecord
    <2>3. Sure(c, v)
      BY <2>2, SureForeground DEF HasJob, Looks, Passing
    <2>4. Go(c, v)
      BY <1>3, <2>1 DEF StartAppend
    <2> QED BY <1>0, <1>1, <2>3, <2>4, GoStillSure
  <1>4. CASE Prepare(c)
    <2>1. PICK v : v = [callers[c] EXCEPT !.phase = "prepared"]
      OBVIOUS
    <2>2. /\ v.phase = "prepared" /\ v.why = callers[c].why /\ v.todo = callers[c].todo
          /\ v.checked = callers[c].checked /\ v.job = callers[c].job
      BY <1>0, <2>1 DEF CallerRecord
    <2>3. callers[c].phase = "append" /\ Go(c, v)
      BY <1>4, <2>1 DEF Prepare
    <2>4. Sure(c, v)
      BY <1>0, <2>2, <2>3, SureForeground DEF HasJob, Looks, Passing, Ahead
    <2> QED BY <1>0, <1>1, <2>3, <2>4, GoStillSure
  <1>5. CASE AppendKnown(c) \/ AppendRefused(c) \/ CommitReceipt(c)
    BY <1>0, <1>2, <1>5, ReturnSure DEF AppendKnown, AppendRefused, CommitReceipt
  <1> QED BY <1>3, <1>4, <1>5

(* A step that keeps the history moves nothing else of weight.              *)
LEMMA MoveQuietly ==
    ASSUME NEW d, Move(d), d # "keeper", history' = history PROVE Quietly
  <1>1. ASSUME NEW s, Publishes(s) PROVE Still
    BY <1>1 DEF Publishes, Still
  <1> QED BY <1>1 DEF Move, Quietly

(* A longer live file keeps the segment that is due.                        *)
LEMMA WriteLiveSure ==
    ASSUME OneForeground, DiskInv, OutboxInv, DiskInv', NEW c \in Foreground, WriteLive(c) PROVE OutboxInv'
  <1>0. /\ c \in Caller /\ callers[c] \in CallerRecord /\ HasJob(c, callers[c]) /\ Looks(callers[c])
        /\ c # "keeper" /\ Move(c) /\ history' = history /\ UNCHANGED <<jobs, abandoned>> /\ callers[c].phase = "prepared"
    BY Names, KnownSure, WriteLiveStep DEF WriteLive, Step
  <1>1. Unaffected
    BY <1>0, MoveQuietly DEF Unaffected
  <1>2. Kind(c)
    BY <1>1 DEF Kind, Calm
  <1>3. PICK v : v = [callers[c] EXCEPT !.phase = "written"]
    OBVIOUS
  <1>4. /\ v.phase = "written" /\ v.why = callers[c].why /\ v.todo = callers[c].todo
        /\ v.checked = callers[c].checked /\ v.job = callers[c].job
    BY <1>0, <1>3 DEF CallerRecord
  <1>5. Go(c, v)
    BY <1>3 DEF WriteLive
  <1>6. \A s \in DOMAIN jobs' : Open(s)' => s \in DOMAIN jobs /\ Open(s)
    <2>1. \A s : ~Opens(s)
      BY <1>0, <1>1, <1>2, StagesOnly DEF Calm
    <2> QED BY <1>0, <1>2, <2>1, OpenBefore, KnownSure
  <1>7. HasJob(c, v)'
    BY <1>0, <1>4 DEF HasJob, Booked
  <1>8. Looks(v)'
    <2>1. ASSUME v.checked, NEW s \in Ahead(v), NEW t \in Ahead(v), Due(s)', Due(t)' PROVE s = t
      <3>1. s \in Ahead(callers[c]) /\ t \in Ahead(callers[c])
        BY <1>0, <1>4, <2>1 DEF Ahead
      <3>2. Seg(s) /\ Seg(t)
        BY <1>0, <1>4, <2>1, KnownSure DEF Ahead, Remembers
      <3>3. Due(s) /\ Due(t)
        BY <1>2, <2>1, <3>2, DueBefore DEF DiskInv
      <3> QED BY <1>0, <1>4, <2>1, <3>1, <3>3 DEF Looks
    <2> QED BY <1>0, <1>4, <1>6, <2>1 DEF Looks, Ahead, Passing, Booked
  <1>9. Sure(c, v)'
    BY <1>7, <1>8, Names DEF Sure
  <1> QED BY <1>0, <1>2, <1>5, <1>9, GoSure

(* A new pass has looked at nothing yet.                                    *)
LEMMA StartPassSure ==
    ASSUME OneForeground, DiskInv, OutboxInv, DiskInv', NEW c \in Foreground, StartPass(c) PROVE OutboxInv'
  <1>1. PICK v : v = [Idle EXCEPT !.phase = "plan"]
    OBVIOUS
  <1>2. v.phase = "plan" /\ v.why = "new" /\ v.todo = {} /\ ~v.checked
    BY <1>1, IdleIs DEF CallerRecord
  <1>3. Sure(c, v)
    BY <1>2, SureForeground DEF HasJob, Looks, Passing
  <1>4. Go(c, v) /\ Still /\ UNCHANGED <<jobs, abandoned>>
    BY <1>1 DEF StartPass, Still, disk
  <1> QED BY <1>3, <1>4, Names, GoStillSure

(* A plan leads to a look at the staged jobs before anything is sealed.     *)
LEMMA PlanSure ==
    ASSUME OneForeground, DiskInv, OutboxInv, DiskInv', NEW c \in Foreground, Plan(c) PROVE OutboxInv'
  <1>0. /\ c \in Caller /\ callers[c] \in CallerRecord /\ HasJob(c, callers[c]) /\ Looks(callers[c])
        /\ callers[c].phase = "plan" /\ Still /\ UNCHANGED <<jobs, abandoned>>
    BY Names, KnownSure DEF Plan, Still, disk
  <1>1. CASE Return(c)
    BY <1>0, <1>1, SureIdle, GoStillSure DEF Return
  <1>2. ASSUME NEW n, NEW p, p = IF callers[c].checked THEN "boundary" ELSE "listing",
               Go(c, [callers[c] EXCEPT !.phase = p, !.through = n])
        PROVE  OutboxInv'
    <2>1. PICK v : v = [callers[c] EXCEPT !.phase = p, !.through = n]
      OBVIOUS
    <2>2. /\ v.phase = p /\ v.why = callers[c].why /\ v.todo = callers[c].todo
          /\ v.checked = callers[c].checked /\ v.job = callers[c].job
      BY <1>0, <2>1 DEF CallerRecord
    <2>3. v.why = "new" /\ v.todo = {}
      BY <1>0, <2>2 DEF Looks
    <2>4. Sure(c, v)
      BY <1>0, <1>2, <2>2, <2>3, SureForeground DEF HasJob, Looks, Passing, Ahead
    <2>5. Go(c, v)
      BY <1>2, <2>1
    <2> QED BY <1>0, <2>4, <2>5, GoStillSure
  <1> QED BY <1>1, <1>2 DEF Plan

(* The list has every open job.                                             *)
LEMMA ListStagedSure ==
    ASSUME OneForeground, DiskInv, OutboxInv, DiskInv', NEW c \in Foreground, ListStaged(c) PROVE OutboxInv'
  <1>0. /\ c \in Caller /\ callers[c] \in CallerRecord /\ HasJob(c, callers[c]) /\ Looks(callers[c])
        /\ callers[c].phase = "listing" /\ Still /\ UNCHANGED <<jobs, abandoned>>
    BY Names, KnownSure DEF ListStaged, Still, disk
  <1>1. PICK u : u = {[seg |-> s, exhausted |-> jobs[s] = "FAILED"] : s \in Unfinished}
    OBVIOUS
  <1>2. PICK v : v = [callers[c] EXCEPT !.phase = "completing", !.checked = TRUE, !.todo = u]
    OBVIOUS
  <1>3. v.phase = "completing" /\ v.why = "new" /\ v.todo = u /\ v.checked
    BY <1>0, <1>2 DEF CallerRecord, Looks
  <1>4. \A s \in DOMAIN jobs : Open(s) => s \in Ahead(v)
    <2> SUFFICES ASSUME NEW s \in DOMAIN jobs, Open(s) PROVE s \in {t.seg : t \in v.todo}
      BY DEF Ahead
    <2>1. [seg |-> s, exhausted |-> jobs[s] = "FAILED"] \in u
      BY <1>1 DEF Open, Unfinished
    <2>2. [seg |-> s, exhausted |-> jobs[s] = "FAILED"].seg = s
      OBVIOUS
    <2> QED BY <1>3, <2>1, <2>2
  <1>5. \A t \in u : t.seg \in DOMAIN jobs /\ jobs[t.seg] \in {"STAGED", "FAILED"}
    BY <1>1 DEF Unfinished
  <1>8. ASSUME NEW s \in Ahead(v), NEW t \in Ahead(v), Due(s), Due(t) PROVE s = t
    <2>1. s \in {x.seg : x \in u} /\ t \in {x.seg : x \in u}
      BY <1>3, <1>8 DEF Ahead
    <2>2. s \in DOMAIN jobs /\ t \in DOMAIN jobs /\ Open(s) /\ Open(t)
      BY <1>0, <1>5, <1>8, <2>1, KnownSure, RepairedPast DEF Open
    <2> QED BY <1>0, <2>2, KnownSure DEF Outbox
  <1>6. Sure(c, v)
    BY <1>3, <1>4, <1>5, <1>8, SureForeground DEF HasJob, Looks, Booked
  <1>7. Go(c, v)
    BY <1>1, <1>2 DEF ListStaged
  <1> QED BY <1>0, <1>6, <1>7, GoStillSure

(* The job that is taken up leaves the list and is the one ahead.           *)
LEMMA CompleteNextSure ==
    ASSUME OneForeground, DiskInv, OutboxInv, DiskInv', NEW c \in Foreground, CompleteNext(c) PROVE OutboxInv'
  <1>0. /\ c \in Caller /\ callers[c] \in CallerRecord /\ HasJob(c, callers[c]) /\ Looks(callers[c])
        /\ callers[c].phase = "completing" /\ Still /\ UNCHANGED <<jobs, abandoned>>
    BY Names, KnownSure DEF CompleteNext, Still, disk
  <1>1. PICK t \in callers[c].todo :
           Go(c, [callers[c] EXCEPT !.phase = "read", !.job = t.seg, !.todo = @ \ {t},
                        !.why = IF t.exhausted THEN "exhausted" ELSE "complete"])
    BY DEF CompleteNext
  <1>2. PICK v : v = [callers[c] EXCEPT !.phase = "read", !.job = t.seg, !.todo = @ \ {t},
                        !.why = IF t.exhausted THEN "exhausted" ELSE "complete"]
    OBVIOUS
  <1>3. /\ v.phase = "read" /\ v.job = t.seg /\ v.todo = callers[c].todo \ {t}
        /\ v.why = (IF t.exhausted THEN "exhausted" ELSE "complete") /\ v.checked = callers[c].checked
    BY <1>0, <1>2 DEF CallerRecord
  <1>4. v.why # "new"
    BY <1>3
  <1>5. v.checked /\ \A x \in callers[c].todo : x.seg \in Booked
    BY <1>0, <1>3 DEF Looks, Passing
  <1>6. ASSUME NEW s \in DOMAIN jobs, Open(s) PROVE s \in Ahead(v)
    <2>1. s \in Ahead(callers[c])
      BY <1>0, <1>3, <1>5, <1>6 DEF Looks
    <2>2. PICK x \in callers[c].todo : s = x.seg
      BY <1>0, <2>1 DEF Ahead
    <2>3. CASE x = t
      BY <1>3, <1>4, <2>2, <2>3 DEF Ahead
    <2>4. CASE x # t
      BY <1>3, <2>2, <2>4 DEF Ahead
    <2> QED BY <2>3, <2>4
  <1>7. HasJob(c, v)
    BY <1>3, <1>5, SureForeground DEF HasJob
  <1>8. Looks(v)
    <2>1. Ahead(v) \subseteq Ahead(callers[c])
      BY <1>0, <1>3, <1>4 DEF Ahead
    <2>2. \A s, x \in Ahead(v) : Due(s) /\ Due(x) => s = x
      BY <1>0, <1>3, <1>5, <2>1 DEF Looks
    <2> QED BY <1>3, <1>4, <1>5, <1>6, <2>2 DEF Looks
  <1>9. Sure(c, v) /\ Go(c, v)
    BY <1>1, <1>2, <1>7, <1>8, SureForeground
  <1> QED BY <1>0, <1>9, GoStillSure

(* When the list is empty no job is open.                                   *)
LEMMA CompletedAllSure ==
    ASSUME OneForeground, DiskInv, OutboxInv, DiskInv', NEW c \in Foreground, CompletedAll(c) PROVE OutboxInv'
  <1>0. /\ c \in Caller /\ callers[c] \in CallerRecord /\ Looks(callers[c]) /\ callers[c].todo = {}
        /\ callers[c].phase = "completing" /\ Still /\ UNCHANGED <<jobs, abandoned>>
    BY Names, KnownSure DEF CompletedAll, Still, disk
  <1>1. \A s \in DOMAIN jobs : ~Open(s)
    BY <1>0 DEF Looks, Passing, Ahead
  <1>2. ASSUME NEW v, v.phase \in {"plan", "boundary"}, v.why = "new", v.todo = {}, v.checked, Go(c, v)
        PROVE  OutboxInv'
    <2>1. Sure(c, v)
      BY <1>1, <1>2, SureForeground DEF HasJob, Looks, Ahead
    <2> QED BY <1>0, <1>2, <2>1, GoStillSure
  <1>3. PICK v : v = [Idle EXCEPT !.phase = "plan", !.checked = TRUE]
    OBVIOUS
  <1>4. PICK w : w = [Idle EXCEPT !.phase = "boundary", !.through = callers[c].through, !.checked = TRUE]
    OBVIOUS
  <1>5. v.phase = "plan" /\ v.why = "new" /\ v.todo = {} /\ v.checked
    BY <1>3, IdleIs DEF CallerRecord
  <1>6. w.phase = "boundary" /\ w.why = "new" /\ w.todo = {} /\ w.checked
    BY <1>4, IdleIs DEF CallerRecord
  <1>7. Go(c, v) \/ Go(c, w)
    BY <1>3, <1>4 DEF CompletedAll
  <1> QED BY <1>2, <1>5, <1>6, <1>7

-----------------------------------------------------------------------------
(* Sealing, in the outbox.                                                  *)

LEMMA SealerSure ==
    ASSUME DiskInv, OutboxInv, NEW c \in Foreground \cup {"worker"}
    PROVE  /\ c \in Caller /\ c # "keeper" /\ callers[c] \in CallerRecord /\ Role(c, callers[c])
           /\ FilesInv /\ Outbox /\ JobsInv
           /\ Remembers(callers[c]) /\ Relies(callers[c]) /\ Knows(callers[c])
           /\ HasJob(c, callers[c]) /\ (c \in Foreground => Looks(callers[c]))
           /\ \A v : HasJob(c, v) /\ (c \in Foreground => Looks(v)) => Sure(c, v)
  BY KnownSure, Sealer, Names DEF Sure, DiskInv

(* The job that ends where the history ends is not open.                    *)
LEMMA EndedNotOpen ==
    ASSUME DiskInv, Outbox, NoNewer, NEW s \in DOMAIN jobs, Hi(s) <= cursor.archived
    PROVE  ~Open(s)
  <1>1. Seg(s) /\ FilesInv
    BY DEF DiskInv, JobsInv
  <1>2. ASSUME NextUp(s) PROVE FALSE
    <2>1. Lo(s) = cursor.archived + 1
      BY <1>1, <1>2, SealedIs DEF NextUp
    <2> QED BY <1>1, <2>1, CursorType DEF Seg
  <1> QED BY <1>2 DEF Outbox

(* What the live file begins with is next.                                  *)
LEMMA PrefixNext ==
    ASSUME FilesInv, Quiet, live # Empty, NEW s, PrefixOf(s) PROVE NextUp(s)
  <1>1. Lo(s) = Lo(live) /\ Lo(live) = cursor.archived + 1 /\ Repaired.archived = cursor.archived
    BY SealedIs DEF Quiet, PrefixOf
  <1>2. Seg(live) /\ Seg(s) /\ Hi(s) <= Hi(live) /\ Same(s, live)
    BY LiveEmpty DEF PrefixOf
  <1>3. DOMAIN s \subseteq DOMAIN live
    BY <1>1, <1>2 DEF Seg
  <1> QED BY <1>1, <1>2, <1>3 DEF NextUp, IsRestriction, Same

(* Taking the lock changes no job.                                          *)
LEMMA StartSealSure ==
    ASSUME OneForeground, DiskInv, OutboxInv, DiskInv', NEW c \in Foreground \cup {"worker"}, StartSeal(c)
    PROVE  OutboxInv'
  <1>1. PICK v : v = [callers[c] EXCEPT !.phase = "seal"]
    OBVIOUS
  <1>2. callers[c].phase = "boundary" /\ Go(c, v) /\ Still /\ UNCHANGED <<jobs, abandoned>>
    BY <1>1 DEF StartSeal, Still, disk
  <1>3. /\ v.phase = "seal" /\ v.why = callers[c].why /\ v.todo = callers[c].todo
        /\ v.checked = callers[c].checked /\ v.job = callers[c].job /\ v.through = callers[c].through
    BY <1>1, SealerSure DEF CallerRecord
  <1>4. HasJob(c, v)
    BY <1>2, <1>3, SealerSure DEF HasJob
  <1>5. c \in Foreground => Looks(v)
    BY <1>2, <1>3, SealerSure DEF Looks, Ahead, Passing
  <1> QED BY <1>2, <1>4, <1>5, SealerSure, GoStillSure

(* The worker publishes the segment of its job.                             *)
LEMMA SealsItsJob ==
    ASSUME DiskInv, Outbox, Quiet, live # Empty, NEW s, PrefixOf(s),
           NEW j \in DOMAIN jobs, Hi(s) = Hi(j)
    PROVE  s = j
  <1>1. FilesInv /\ Seg(j) /\ Seg(s) /\ Seg(live) /\ Lo(live) = cursor.archived + 1 /\ Lo(s) = Lo(live)
        /\ Same(s, live)
    BY LiveEmpty DEF DiskInv, JobsInv, PrefixOf, Quiet
  <1>2. ~(Hi(j) <= cursor.archived)
    BY <1>1, CursorType DEF Seg
  <1>3. j \notin history
    BY <1>1, <1>2, QuietPast DEF Quiet
  <1>4. jobs[j] \notin {"QUEUED", "BLOCKED", "COMMITTED"} /\ jobs[j] \in JobStatus
    BY <1>1, <1>2 DEF DiskInv, JobsInv, Cut
  <1>5. NextUp(j)
    BY <1>3, <1>4 DEF Open, Outbox, JobStatus
  <1>6. Lo(j) = Lo(s) /\ IsRestriction(j, live)
    BY <1>1, <1>5, SealedIs DEF NextUp, Quiet
  <1>7. Same(s, j)
    BY <1>1, <1>6 DEF Same, IsRestriction
  <1> QED BY <1>1, <1>6, <1>7, SegEqual

(* The segment that is cut for a new seal is the next one; a job's own is   *)
(* cut where the job ends.                                                  *)
LEMMA SealFirstSure ==
    ASSUME OneForeground, DiskInv, OutboxInv, DiskInv', NEW c \in Foreground \cup {"worker"}, SealFirst(c)
    PROVE  OutboxInv'
  <1>1. PICK s : s = SealPlan(callers[c].through)
    OBVIOUS
  <1>2. /\ callers[c].phase = "seal" /\ Opened /\ s # Empty /\ UNCHANGED <<live, cursor, jobs, abandoned>>
        /\ Quiet /\ NoNewer
    BY <1>1, SealerSure, OpenedQuiet DEF SealFirst, SealReady, Opened, Loaded, Quiet
  <1>3. /\ Selects(callers[c].through) => live # Empty /\ PrefixOf(s) /\ Hi(s) = callers[c].through
        /\ ~Selects(callers[c].through) => Seg(s) /\ s \in history /\ Hi(s) = callers[c].through
                                           /\ Hi(s) = cursor.archived
    BY <1>1, <1>2, SealerSure, SealPlanIs
  <1>4. ASSUME NEW p, NEW v, v = [callers[c] EXCEPT !.phase = p, !.seg = s]
        PROVE  /\ v.phase = p /\ v.seg = s /\ v.why = callers[c].why /\ v.todo = callers[c].todo
               /\ v.checked = callers[c].checked /\ v.job = callers[c].job /\ v.through = callers[c].through
    BY <1>4, SealerSure DEF CallerRecord
  <1>5. CASE ~Selects(callers[c].through) /\ UNCHANGED history /\ Go(c, [callers[c] EXCEPT !.phase = "sealed", !.seg = s])
    <2>1. PICK v : v = [callers[c] EXCEPT !.phase = "sealed", !.seg = s]
      OBVIOUS
    <2>2. /\ v.phase = "sealed" /\ v.seg = s /\ v.why = callers[c].why /\ v.todo = callers[c].todo
          /\ v.checked = callers[c].checked /\ v.job = callers[c].job
      BY <1>4, <2>1
    <2>3. s \in Booked /\ Stands(s)
      <3>1. s = Latest(cursor)
        BY <1>1, <1>2, <1>5 DEF SealPlan
      <3>2. cursor.archived > cursor.released
        BY <1>2, <3>1, SealerSure, CursorType DEF Latest
      <3>3. Hi(s) > cursor.released
        BY <1>3, <1>5, <3>2
      <3> QED BY <1>3, <1>5, <3>3, SealerSure DEF Outbox, OutboxCoversHistory, Booked, Stands
    <2>4. HasJob(c, v)
      BY <1>2, <2>2, <2>3, SealerSure DEF HasJob
    <2>5. ASSUME callers[c].why # "new", callers[c].job \in DOMAIN jobs PROVE ~Open(callers[c].job)
      <3>1. callers[c].through = Hi(callers[c].job)
        BY <1>2, <2>5, SealerSure DEF HasJob
      <3>2. Hi(callers[c].job) = cursor.archived
        BY <1>3, <1>5, <3>1
      <3> QED BY <1>2, <2>5, <3>2, SealerSure, EndedNotOpen, CursorType
    <2>6. c \in Foreground => Looks(v)
      <3>1. Ahead(v) \subseteq Ahead(callers[c])
        BY <1>2, <2>2 DEF Ahead
      <3> QED BY <1>2, <2>2, <2>3, <2>5, <3>1, SealerSure DEF Looks, Ahead, Passing
    <2>7. Go(c, v) /\ Still /\ UNCHANGED <<jobs, abandoned>>
      BY <1>2, <1>5, <2>1 DEF Still
    <2> QED BY <2>4, <2>6, <2>7, SealerSure, GoStillSure
  <1>6. CASE /\ Selects(callers[c].through) /\ NeedsOutbox(c) /\ UNCHANGED history
             /\ Go(c, [callers[c] EXCEPT !.phase = "staging", !.seg = s])
    <2>1. PICK v : v = [callers[c] EXCEPT !.phase = "staging", !.seg = s]
      OBVIOUS
    <2>2. /\ v.phase = "staging" /\ v.seg = s /\ v.why = callers[c].why /\ v.todo = callers[c].todo
          /\ v.checked = callers[c].checked /\ v.job = callers[c].job /\ v.through = callers[c].through
      BY <1>4, <2>1
    <2>3. HasJob(c, v)
      BY <1>2, <2>2, SealerSure DEF HasJob
    <2>4. c \in Foreground => Looks(v)
      BY <1>2, <2>2, SealerSure DEF Looks, Ahead, Passing
    <2>5. Go(c, v) /\ Still /\ UNCHANGED <<jobs, abandoned>>
      BY <1>2, <1>6, <2>1 DEF Still
    <2> QED BY <2>3, <2>4, <2>5, SealerSure, GoStillSure
  <1>7. CASE /\ Selects(callers[c].through) /\ ~NeedsOutbox(c) /\ history' = history \cup {s}
             /\ Go(c, [callers[c] EXCEPT !.phase = "created", !.seg = s])
    <2>1. PICK v : v = [callers[c] EXCEPT !.phase = "created", !.seg = s]
      OBVIOUS
    <2>2. v.phase = "created" /\ v.seg = s /\ v.why = callers[c].why /\ v.job = callers[c].job
      BY <1>4, <2>1
    <2>3. callers[c].why = "recover" /\ c = "worker"
      BY <1>2, <1>7, SealerSure DEF NeedsOutbox, Role
    <2>4. callers[c].job \in DOMAIN jobs /\ callers[c].through = Hi(callers[c].job)
      BY <1>2, <2>3, SealerSure DEF HasJob
    <2>5. s = callers[c].job
      BY <1>2, <1>3, <1>7, <2>4, SealerSure, SealsItsJob
    <2>6. Seals1(s)
      <3>1. Publishes(s)
        BY <1>2, <1>3, <1>7 DEF Publishes
      <3>2. Open(s)
        BY <2>4, <2>5, <3>1, PublishedOpen
      <3> QED BY <1>2, <2>4, <2>5, <3>1, <3>2, SealerSure DEF Seals1, Outbox, Booked
    <2>7. HasJob(c, v)'
      BY <1>2, <2>2, <2>4, <2>5 DEF HasJob, Booked
    <2>8. Sure(c, v)' /\ Kind(c) /\ Go(c, v)
      BY <1>7, <2>1, <2>3, <2>4, <2>5, <2>6, <2>7, Names DEF Sure, Kind
    <2> QED BY <2>8, SealerSure, GoSure
  <1> QED BY <1>1, <1>5, <1>6, <1>7 DEF SealFirst

(* A job is staged for the next segment only when none is open.             *)
LEMMA CallbackSure ==
    ASSUME OneForeground, DiskInv, OutboxInv, DiskInv', NEW c \in Foreground, Callback(c) PROVE OutboxInv'
  <1>0. /\ c \in Caller /\ callers[c] \in CallerRecord /\ HasJob(c, callers[c]) /\ Looks(callers[c])
        /\ Remembers(callers[c]) /\ Relies(callers[c]) /\ FilesInv /\ Outbox
        /\ callers[c].phase \in {"staging", "lost"} /\ Still
    BY Names, KnownSure DEF Callback, Still, disk
  <1>1. PICK s : s = callers[c].seg
    OBVIOUS
  <1>2. ASSUME callers[c].why = "new" PROVE Stages(s) /\ \A t \in DOMAIN jobs : ~Open(t)
    <2>1. \A t \in DOMAIN jobs : ~Open(t)
      BY <1>0, <1>2 DEF Looks, Passing, Ahead
    <2>2. NextUp(s)
      BY <1>0, <1>1, <1>2, PrefixNext DEF Looks, Relies
    <2>3. Seg(s) /\ jobs' = StageJob(s) /\ UNCHANGED abandoned
      BY <1>0, <1>1, <1>2 DEF Remembers, Callback
    <2> QED BY <1>0, <2>1, <2>2, <2>3 DEF Stages
  <1>3. Kind(c)
    BY <1>0, <1>2 DEF Callback, Kind, Calm, Unaffected, Quietly
  <1>4. CASE Return(c)
    BY <1>0, <1>3, <1>4, ReturnSure
  <1>5. CASE /\ callers[c].phase = "staging" /\ (callers[c].why # "new" => s = callers[c].job)
             /\ Go(c, [callers[c] EXCEPT !.phase = "staged"])
    <2>1. PICK v : v = [callers[c] EXCEPT !.phase = "staged"]
      OBVIOUS
    <2>2. /\ v.phase = "staged" /\ v.seg = s /\ v.why = callers[c].why /\ v.todo = callers[c].todo
          /\ v.checked = callers[c].checked /\ v.job = callers[c].job /\ v.through = callers[c].through
      BY <1>0, <1>1, <2>1 DEF CallerRecord
    <2>3. CASE v.why = "new"
      <3>1. jobs' = StageJob(s) /\ s \in DOMAIN jobs'
        BY <1>1, <2>2, <2>3 DEF Callback, StageJob
      <3>2. \A t \in DOMAIN jobs' : Open(t)' => t = s
        <4> SUFFICES ASSUME NEW t \in DOMAIN jobs', Open(t)', t # s PROVE FALSE
          OBVIOUS
        <4>1. t \in DOMAIN jobs
          BY <3>1 DEF StageJob
        <4>2. Open(t)
          BY <1>0, <1>3, <4>1, OpenBefore DEF Opens
        <4> QED BY <1>2, <2>2, <2>3, <4>1, <4>2
      <3>3. HasJob(c, v)' /\ Looks(v)'
        <4>1. v.todo = {} /\ v.checked
          BY <1>0, <1>5, <2>2, <2>3 DEF Looks, Passing
        <4>2. HasJob(c, v)'
          BY <2>2, <2>3, <3>1, SureForeground DEF HasJob, Booked
        <4>3. Looks(v)'
          BY <2>2, <2>3, <3>2, <4>1 DEF Looks, Ahead
        <4> QED BY <4>2, <4>3
      <3>4. Sure(c, v)' /\ Go(c, v)
        BY <1>5, <2>1, <3>3, Names DEF Sure
      <3> QED BY <1>0, <1>3, <3>4, GoSure
    <2>4. CASE v.why # "new"
      <3>1. UNCHANGED <<jobs, abandoned>> /\ Go(c, v)
        BY <1>5, <2>1, <2>2, <2>4 DEF Callback
      <3>2. HasJob(c, v)
        BY <1>0, <1>5, <2>2, <2>4 DEF HasJob
      <3>3. Looks(v)
        BY <1>0, <1>5, <2>2, <2>4 DEF Looks, Ahead, Passing
      <3> QED BY <1>0, <3>1, <3>2, <3>3, SureForeground, GoStillSure
    <2> QED BY <2>3, <2>4
  <1> QED BY <1>1, <1>4, <1>5 DEF Callback

(* A lost lease leaves the staged job to the next pass.                     *)
LEMMA LoseLeaseSure ==
    ASSUME OneForeground, DiskInv, OutboxInv, DiskInv', NEW c \in Foreground, LoseLease(c) PROVE OutboxInv'
  <1>0. /\ c \in Caller /\ callers[c] \in CallerRecord /\ HasJob(c, callers[c]) /\ Looks(callers[c])
        /\ Relies(callers[c]) /\ FilesInv /\ Still /\ UNCHANGED <<jobs, abandoned>>
    BY Names, KnownSure DEF LoseLease, Still, disk
  <1>1. CASE Return(c)
    BY <1>0, <1>1, SureIdle, GoStillSure DEF Return
  <1>2. CASE callers[c].phase = "staging" /\ Go(c, [callers[c] EXCEPT !.phase = "lost"])
    <2>1. PICK v : v = [callers[c] EXCEPT !.phase = "lost"]
      OBVIOUS
    <2>2. /\ v.phase = "lost" /\ v.seg = callers[c].seg /\ v.why = callers[c].why /\ v.todo = callers[c].todo
          /\ v.checked = callers[c].checked /\ v.job = callers[c].job /\ v.through = callers[c].through
      BY <1>0, <2>1 DEF CallerRecord
    <2>3. NextUp(v.seg)
      BY <1>0, <1>2, <2>2, PrefixNext DEF Relies
    <2>4. HasJob(c, v)
      BY <1>0, <1>2, <2>2 DEF HasJob
    <2>5. Looks(v)
      BY <1>0, <1>2, <2>2, <2>3 DEF Looks, Ahead, Passing
    <2>6. Go(c, v)
      BY <1>2, <2>1
    <2> QED BY <1>0, <2>4, <2>5, <2>6, SureForeground, GoStillSure
  <1> QED BY <1>1, <1>2 DEF LoseLease

(* The segment that is published has its job.                               *)
LEMMA SealSecondSure ==
    ASSUME OneForeground, DiskInv, OutboxInv, DiskInv', NEW c \in Foreground, SealSecond(c) PROVE OutboxInv'
  <1>0. /\ c \in Caller /\ callers[c] \in CallerRecord /\ HasJob(c, callers[c]) /\ Looks(callers[c])
        /\ Relies(callers[c]) /\ FilesInv /\ Outbox /\ callers[c].phase = "staged"
    BY Names, KnownSure DEF SealSecond
  <1>1. PICK s : s = callers[c].seg
    OBVIOUS
  <1>2. Seals1(s) /\ Due(s) /\ Seg(s)
    <2>1. Publishes(s) /\ s \in Booked /\ UNCHANGED <<jobs, abandoned>>
      BY <1>0, <1>1 DEF SealSecond, Publishes, Relies, HasJob
    <2>2. Due(s) /\ Seg(s)
      BY <1>0, <2>1, SealedIs, CursorType, PublishedOpen DEF Due, Seg, Publishes, Quiet
    <2>3. ASSUME NEW t \in DOMAIN jobs, Open(t) PROVE t = s
      <3>1. Due(t)
        BY <1>0, <2>3, RepairedPast DEF Due, NextUp, Outbox, DiskInv, JobsInv, Seg
      <3>2. t \in Ahead(callers[c]) /\ s \in Ahead(callers[c])
        BY <1>0, <1>1, <2>3 DEF Looks, Passing, Ahead
      <3> QED BY <1>0, <2>2, <3>1, <3>2 DEF Looks, Passing
    <2> QED BY <2>1, <2>2, <2>3 DEF Seals1
  <1>3. Kind(c)
    BY <1>2 DEF Kind
  <1>4. PICK v : v = [callers[c] EXCEPT !.phase = "created"]
    OBVIOUS
  <1>5. /\ v.phase = "created" /\ v.seg = s /\ v.why = callers[c].why /\ v.todo = callers[c].todo
        /\ v.checked = callers[c].checked /\ v.job = callers[c].job
    BY <1>0, <1>1, <1>4 DEF CallerRecord
  <1>6. UNCHANGED <<jobs, abandoned>> /\ Go(c, v) /\ history' = history \cup {s}
    BY <1>1, <1>4 DEF SealSecond
  <1>7. HasJob(c, v)'
    BY <1>0, <1>1, <1>5, <1>6, SureForeground DEF HasJob, Booked
  <1>8. ASSUME NEW t \in DOMAIN jobs', Open(t)' PROVE t \in Ahead(v)
    <2>1. t \in DOMAIN jobs /\ Open(t) /\ t # s
      BY <1>6, <1>8 DEF Open
    <2>2. t \in Ahead(callers[c])
      BY <1>0, <2>1 DEF Looks, Passing
    <2>3. t \in {x.seg : x \in callers[c].todo}
      BY <1>0, <1>1, <2>1, <2>2 DEF Ahead, Looks
    <2> QED BY <1>5, <2>3 DEF Ahead
  <1>9. Looks(v)'
    <2>1. \A t \in DOMAIN jobs' : Open(t)' => t \in Ahead(v)'
      BY <1>8 DEF Ahead
    <2>2. v.checked /\ (\A t \in v.todo : t.seg \in Booked') /\ (v.why = "new" => v.todo = {})
      BY <1>0, <1>5, <1>6 DEF Looks, Passing, Booked
    <2>3. \A t, u \in Ahead(v) : Due(t)' /\ Due(u)' => t = u
      <3>1. Ahead(v) \subseteq Ahead(callers[c])
        BY <1>0, <1>5 DEF Ahead
      <3>2. \A t, u \in Ahead(callers[c]) : Due(t) /\ Due(u) => t = u
        BY <1>0 DEF Looks, Passing
      <3> QED BY <1>0, <1>3, <3>1, <3>2, OneDueKept DEF DiskInv
    <2>4. Stands(s)'
      <3>1. Hi(s) > cursor.released
        BY <1>0, <1>2, SealedIs, CursorType DEF Due, Seals1, Publishes, Quiet, Seg, FilesInv, FilesTyped
      <3> QED BY <1>2, <3>1 DEF Stands, Seals1, Publishes
    <2> QED BY <1>5, <2>1, <2>2, <2>3, <2>4 DEF Looks, Ahead
  <1>10. Sure(c, v)'
    BY <1>7, <1>9, Names DEF Sure
  <1> QED BY <1>0, <1>3, <1>6, <1>10, GoSure

(* Cutting the live file leaves the jobs.                                   *)
LEMMA TruncateLiveSure ==
    ASSUME OneForeground, DiskInv, OutboxInv, DiskInv', NEW c \in Foreground \cup {"worker"}, TruncateLive(c)
    PROVE  OutboxInv'
  <1>0. Move(c) /\ UNCHANGED <<history, cursor, jobs, abandoned>> /\ callers[c].phase = "created"
    BY TruncateLiveStep DEF TruncateLive, Step
  <1>1. Unaffected
    BY <1>0, SealerSure, MoveQuietly DEF Unaffected
  <1>2. Kind(c)
    BY <1>1 DEF Kind, Calm
  <1>3. PICK v : v = [callers[c] EXCEPT !.phase = "trimmed"]
    OBVIOUS
  <1>4. /\ v.phase = "trimmed" /\ v.seg = callers[c].seg /\ v.why = callers[c].why /\ v.todo = callers[c].todo
        /\ v.checked = callers[c].checked /\ v.job = callers[c].job
    BY <1>3, SealerSure DEF CallerRecord
  <1>5. Go(c, v)
    BY <1>3 DEF TruncateLive
  <1>6. HasJob(c, v)'
    BY <1>0, <1>4, SealerSure DEF HasJob, Booked
  <1>7. ASSUME NEW s \in DOMAIN jobs', Open(s)' PROVE s \in DOMAIN jobs /\ Open(s)
    BY <1>0, <1>7 DEF Open
  <1>8. c \in Foreground => Looks(v)'
    <2> SUFFICES ASSUME c \in Foreground PROVE Looks(v)'
      OBVIOUS
    <2>1. Ahead(v) \subseteq Ahead(callers[c])
      BY <1>0, <1>4 DEF Ahead
    <2>2. \A t, u \in Ahead(v) : Due(t)' /\ Due(u)' => t = u
      <3>1. \A t, u \in Ahead(callers[c]) : Due(t) /\ Due(u) => t = u
        BY <1>0, SealerSure DEF Looks, Passing
      <3> QED BY <1>2, <2>1, <3>1, SealerSure, OneDueKept DEF DiskInv
    <2> QED BY <1>0, <1>4, <1>7, <2>2, SealerSure DEF Looks, Ahead, Passing, Booked, Stands
  <1>9. Sure(c, v)'
    BY <1>6, <1>8, SealerSure, Names DEF Sure
  <1> QED BY <1>2, <1>5, <1>9, SealerSure, GoSure

(* The sealed segment's job is still there.                                 *)
LEMMA SealReturnsSure ==
    ASSUME OneForeground, DiskInv, OutboxInv, DiskInv', NEW c \in Foreground \cup {"worker"}, SealReturns(c)
    PROVE  OutboxInv'
  <1>1. PICK v : v = [callers[c] EXCEPT !.phase = "sealed"]
    OBVIOUS
  <1>2. callers[c].phase = "trimmed" /\ Go(c, v) /\ Still /\ UNCHANGED <<jobs, abandoned>>
    BY <1>1 DEF SealReturns, Still, disk
  <1>3. /\ v.phase = "sealed" /\ v.seg = callers[c].seg /\ v.why = callers[c].why /\ v.todo = callers[c].todo
        /\ v.checked = callers[c].checked /\ v.job = callers[c].job
    BY <1>1, SealerSure DEF CallerRecord
  <1>4. HasJob(c, v)
    BY <1>2, <1>3, SealerSure DEF HasJob
  <1>5. c \in Foreground => Looks(v)
    BY <1>2, <1>3, SealerSure DEF Looks, Ahead, Passing
  <1> QED BY <1>2, <1>4, <1>5, SealerSure, GoStillSure

(* An activation changes a staged job into a queued one.                    *)
LEMMA ActivateWorks ==
    ASSUME NEW s, Still, UNCHANGED abandoned, jobs' = ActivateJob(s) PROVE Works
  BY DEF ActivateJob, Works

(* Only staging opens a job.                                                *)
LEMMA WorksOpen ==
    ASSUME Works \/ (Still /\ UNCHANGED <<jobs, abandoned>>), NEW s \in DOMAIN jobs', Open(s)' PROVE s \in DOMAIN jobs /\ Open(s)
  BY DEF Works, Still, Open

(* The job of a segment that stands is there, or is staged anew.            *)
LEMMA RestageSure ==
    ASSUME OneForeground, DiskInv, OutboxInv, DiskInv', NEW c \in Foreground, Restage(c) PROVE OutboxInv'
  <1>0. /\ c \in Caller /\ callers[c] \in CallerRecord /\ Looks(callers[c]) /\ Remembers(callers[c])
        /\ callers[c].phase = "sealed" /\ callers[c].why = "new" /\ Still /\ UNCHANGED abandoned
    BY Names, KnownSure DEF Restage, Still, disk
  <1>1. PICK s : s = callers[c].seg
    OBVIOUS
  <1>2. jobs' = StageJob(s) /\ Seg(s) /\ Stands(s)
    BY <1>0, <1>1 DEF Restage, Looks, Remembers
  <1>3. Kind(c) /\ s \in DOMAIN jobs'
    BY <1>0, <1>2 DEF Kind, Stages, Stands, StageJob
  <1>4. ASSUME NEW t \in DOMAIN jobs', Open(t)' PROVE t \in DOMAIN jobs /\ Open(t)
    <2>1. CASE t \in DOMAIN jobs
      <3>1. jobs'[t] = jobs[t] /\ history' = history
        BY <1>0, <1>2, <2>1 DEF StageJob, Still
      <3> QED BY <1>4, <2>1, <3>1 DEF Open
    <2>2. CASE t \notin DOMAIN jobs
      <3>1. t = s /\ s \in history
        BY <1>2, <2>2 DEF StageJob, Stands
      <3> QED BY <1>0, <1>4, <3>1 DEF Open, Still
    <2> QED BY <2>1, <2>2
  <1>5. PICK v : v = [callers[c] EXCEPT !.phase = "enqueued"]
    OBVIOUS
  <1>6. /\ v.phase = "enqueued" /\ v.seg = s /\ v.why = "new" /\ v.todo = {}
        /\ callers[c].todo = {} /\ callers[c].checked /\ v.checked
    BY <1>0, <1>1, <1>5 DEF CallerRecord, Looks, Passing
  <1>7. HasJob(c, v)'
    BY <1>3, <1>6, SureForeground DEF HasJob, Booked
  <1>8. Looks(v)'
    <2>1. \A t \in DOMAIN jobs' : ~Open(t)'
      BY <1>0, <1>4, <1>6 DEF Looks, Ahead
    <2> QED BY <1>6, <2>1 DEF Looks, Ahead
  <1>9. Sure(c, v)' /\ Go(c, v)
    BY <1>5, <1>7, <1>8, Names DEF Sure, Restage
  <1> QED BY <1>0, <1>3, <1>9, GoSure

(* Activation opens no job.                                                 *)
LEMMA EnqueueSure ==
    ASSUME OneForeground, DiskInv, OutboxInv, DiskInv', NEW c \in Foreground, Enqueue(c) PROVE OutboxInv'
  <1>0. /\ c \in Caller /\ callers[c] \in CallerRecord /\ Looks(callers[c])
        /\ callers[c].phase = "enqueued" /\ Still /\ UNCHANGED abandoned
    BY Names, KnownSure DEF Enqueue, Still, disk
  <1>1. Works
    BY <1>0, ActivateWorks DEF Enqueue
  <1>2. \A s \in DOMAIN jobs : ~Open(s)
    BY <1>0 DEF Looks, Ahead, Passing
  <1>3. \A s \in DOMAIN jobs' : ~Open(s)'
    BY <1>1, <1>2, WorksOpen
  <1>4. PICK v : v = [Idle EXCEPT !.phase = "plan", !.checked = TRUE]
    OBVIOUS
  <1>5. v.phase = "plan" /\ v.why = "new" /\ v.todo = {} /\ v.checked
    BY <1>4, IdleIs DEF CallerRecord
  <1>6. HasJob(c, v)' /\ Looks(v)'
    BY <1>3, <1>5, SureForeground DEF HasJob, Looks, Ahead
  <1>7. Sure(c, v)' /\ Kind(c)
    BY <1>1, <1>6, Names DEF Sure, Kind, Calm
  <1>8. Go(c, v) \/ Return(c)
    BY <1>4 DEF Enqueue
  <1> QED BY <1>0, <1>7, <1>8, GoSure, ReturnSure

(* A completed job is not open.                                             *)
LEMMA CompletedSure ==
    ASSUME OneForeground, DiskInv, OutboxInv, DiskInv', NEW c \in Foreground \cup {"worker"}, Completed(c)
    PROVE  OutboxInv'
  <1>0. callers[c].phase = "sealed" /\ callers[c].why # "new" /\ Still /\ UNCHANGED abandoned
    BY DEF Completed, Still, disk
  <1>1. Works \/ UNCHANGED <<jobs, abandoned>>
    BY <1>0, ActivateWorks DEF Completed
  <1>2. Kind(c) /\ DOMAIN jobs' = DOMAIN jobs /\ Booked' = Booked
    BY <1>0, <1>1 DEF Kind, Calm, Unaffected, Quietly, Works, Booked
  <1>3. CASE Return(c)
    BY <1>2, <1>3, SealerSure, ReturnSure
  <1>4. CASE callers[c].why # "recover" /\ Go(c, [callers[c] EXCEPT !.phase = "completing", !.completed = TRUE])
    <2>1. PICK v : v = [callers[c] EXCEPT !.phase = "completing", !.completed = TRUE]
      OBVIOUS
    <2>2. /\ v.phase = "completing" /\ v.why = callers[c].why /\ v.todo = callers[c].todo
          /\ v.checked = callers[c].checked /\ v.job = callers[c].job
      BY <2>1, SealerSure DEF CallerRecord
    <2>3. c \in Foreground /\ Looks(callers[c]) /\ HasJob(c, callers[c])
      BY <1>0, <1>4, SealerSure, Names DEF Role
    <2>4. \A s \in DOMAIN jobs' : Open(s)' => s \in DOMAIN jobs /\ Open(s)
      BY <1>0, <1>1, WorksOpen
    <2>5. HasJob(c, v)'
      BY <1>0, <1>2, <2>2, <2>3, SureForeground DEF HasJob
    <2>6. Looks(v)'
      <3>1. Ahead(v) \subseteq Ahead(callers[c])
        BY <1>0, <2>2 DEF Ahead
      <3>2. \A t, u \in Ahead(callers[c]) : Due(t) /\ Due(u) => t = u
        BY <1>0, <2>3 DEF Looks, Passing
      <3>3. \A t, u \in Ahead(v) : Due(t)' /\ Due(u)' => t = u
        BY <1>2, <3>1, <3>2, SealerSure, OneDueKept DEF DiskInv
      <3> QED BY <1>0, <1>2, <2>2, <2>3, <2>4, <3>3 DEF Looks, Ahead, Passing
    <2>7. Sure(c, v)' /\ Go(c, v)
      BY <1>4, <2>1, <2>3, <2>5, <2>6, Names DEF Sure
    <2> QED BY <1>2, <2>7, SealerSure, GoSure
  <1> QED BY <1>3, <1>4 DEF Completed

(* Looking a staged job's segment up changes no job.                        *)
LEMMA StagedSegmentSure ==
    ASSUME OneForeground, DiskInv, OutboxInv, DiskInv', NEW c \in Foreground \cup {"worker"}, StagedSegment(c)
    PROVE  OutboxInv'
  <1>0. callers[c].phase = "read" /\ Still /\ UNCHANGED <<jobs, abandoned>> /\ NoNewer /\ callers[c].why # "new"
    BY SealerSure, RepairedIs, Names DEF StagedSegment, Loaded, Still, disk, Role
  <1>1. callers[c].job \in Booked /\ Seg(callers[c].job)
    BY <1>0, SealerSure DEF HasJob, Remembers
  <1>2. cursor.archived > Hi(callers[c].job) \/ cursor.archived >= Hi(callers[c].job)
          => (callers[c].job \in DOMAIN jobs => ~Open(callers[c].job))
    <2>1. cursor.archived > Hi(callers[c].job) \/ cursor.archived >= Hi(callers[c].job)
             => Hi(callers[c].job) <= cursor.archived
      BY <1>1, SealerSure, CursorType DEF Seg
    <2> QED BY <1>0, <1>1, <2>1, SealerSure, EndedNotOpen
  <1>3. CASE /\ callers[c].why = "exhausted" /\ cursor.archived >= Hi(callers[c].job)
             /\ Go(c, [callers[c] EXCEPT !.phase = "completing"])
    <2>1. PICK v : v = [callers[c] EXCEPT !.phase = "completing"]
      OBVIOUS
    <2>2. /\ v.phase = "completing" /\ v.why = callers[c].why /\ v.todo = callers[c].todo
          /\ v.checked = callers[c].checked /\ v.job = callers[c].job
      BY <2>1, SealerSure DEF CallerRecord
    <2>3. HasJob(c, v)
      BY <1>0, <2>2, SealerSure DEF HasJob
    <2>4. c \in Foreground => Looks(v)
      BY <1>0, <1>2, <1>3, <2>2, SealerSure DEF Looks, Ahead, Passing
    <2>5. Go(c, v)
      BY <1>3, <2>1
    <2> QED BY <1>0, <2>3, <2>4, <2>5, SealerSure, GoStillSure
  <1>4. CASE /\ cursor.archived > Hi(callers[c].job)
             /\ Go(c, [callers[c] EXCEPT !.phase = "sealed", !.seg = callers[c].job])
    <2>1. PICK v : v = [callers[c] EXCEPT !.phase = "sealed", !.seg = callers[c].job]
      OBVIOUS
    <2>2. /\ v.phase = "sealed" /\ v.why = callers[c].why /\ v.todo = callers[c].todo
          /\ v.checked = callers[c].checked /\ v.job = callers[c].job /\ v.seg = callers[c].job
      BY <2>1, SealerSure DEF CallerRecord
    <2>3. HasJob(c, v)
      BY <1>0, <1>1, <2>2, SealerSure DEF HasJob
    <2>4. c \in Foreground => Looks(v)
      BY <1>0, <1>2, <1>4, <2>2, SealerSure DEF Looks, Ahead, Passing
    <2>5. Go(c, v)
      BY <1>4, <2>1
    <2> QED BY <1>0, <2>3, <2>4, <2>5, SealerSure, GoStillSure
  <1>5. CASE Go(c, [callers[c] EXCEPT !.phase = "boundary", !.through = Hi(callers[c].job)])
    <2>1. PICK v : v = [callers[c] EXCEPT !.phase = "boundary", !.through = Hi(callers[c].job)]
      OBVIOUS
    <2>2. /\ v.phase = "boundary" /\ v.why = callers[c].why /\ v.todo = callers[c].todo
          /\ v.checked = callers[c].checked /\ v.job = callers[c].job /\ v.through = Hi(callers[c].job)
      BY <2>1, SealerSure DEF CallerRecord
    <2>3. HasJob(c, v)
      BY <1>0, <1>1, <2>2, SealerSure DEF HasJob
    <2>4. c \in Foreground => Looks(v)
      BY <1>0, <2>2, SealerSure DEF Looks, Ahead, Passing
    <2>5. Go(c, v)
      BY <1>5, <2>1
    <2> QED BY <1>0, <2>3, <2>4, <2>5, SealerSure, GoStillSure
  <1> QED BY <1>3, <1>4, <1>5 DEF StagedSegment

-----------------------------------------------------------------------------
(* The worker, the jobs and the lifecycle.                                  *)

LEMMA RepairSure ==
    ASSUME OneForeground, DiskInv, OutboxInv, DiskInv', NEW c \in Caller, Repair(c) \/ Trim(c) PROVE OutboxInv'
  <1>1. UNCHANGED <<callers, jobs, abandoned>>
    BY DEF Repair, Trim
  <1>2. CASE Repair(c)
    <2>1. Repairs
      BY <1>2, Known, RepairedIs DEF Repair, Repairs
    <2> QED BY <1>1, <2>1, StaySure DEF Calm, Unaffected, Quietly
  <1>3. CASE Trim(c)
    <2>1. Move(c) /\ c # "keeper" /\ history' = history
      BY <1>3, TrimStep, Known DEF Step, Trim, Role
    <2> QED BY <1>1, <2>1, MoveQuietly, StaySure DEF Calm, Unaffected
  <1> QED BY <1>2, <1>3

(* A refused call forgets what it knew.                                     *)
LEMMA RefuseSure ==
    ASSUME OneForeground, DiskInv, OutboxInv, DiskInv', NEW c \in Caller, Refuse(c) \/ Stop(c) PROVE OutboxInv'
  <1>1. Return(c) /\ Still /\ Failure(c) /\ UNCHANGED abandoned
    BY DEF Refuse, Stop, Still, disk
  <1>2. CASE UNCHANGED <<jobs, abandoned>>
    BY <1>1, <1>2, ReturnSure DEF Kind, Calm, Unaffected, Quietly
  <1>3. ASSUME NEW status \in {"STAGED", "FAILED"}, callers[c].job \in DOMAIN jobs,
               jobs[callers[c].job] = "STAGED", jobs' = [jobs EXCEPT ![callers[c].job] = status]
        PROVE  OutboxInv'
    <2>1. jobs = [s \in DOMAIN jobs |-> jobs[s]]
      BY DEF DiskInv, JobsInv
    <2>2. Works
      BY <1>1, <1>3, <2>1 DEF Works
    <2> QED BY <1>1, <2>2, ReturnSure DEF Kind, Calm
  <1> QED BY <1>1, <1>2, <1>3 DEF Failure

(* What becomes of a job opens none.                                        *)
LEMMA JobsSure ==
    ASSUME OneForeground, DiskInv, OutboxInv, DiskInv', NEW s \in DOMAIN jobs, JobStep(s)
    PROVE  OutboxInv'
  <1>1. Still /\ UNCHANGED callers
    BY DEF JobStep, CommitJob, FailJob, RetryFailed, AbandonFailed, DiscardJob, Still, disk
  <1>2. CASE CommitJob(s) \/ FailJob(s) \/ RetryFailed(s)
    <2>1. jobs = [t \in DOMAIN jobs |-> jobs[t]]
      BY DEF DiskInv, JobsInv
    <2>2. PICK x : /\ jobs' = [jobs EXCEPT ![s] = x] /\ jobs[s] # "COMMITTED" /\ UNCHANGED abandoned
                   /\ x \in {"STAGED", "FAILED"} => jobs[s] \in {"STAGED", "FAILED"}
      <3>1. CASE CommitJob(s) \/ FailJob(s)
        BY <3>1 DEF CommitJob, FailJob
      <3>2. CASE RetryFailed(s)
        <4>1. PICK y : y = IF jobs[s] = "FAILED" THEN "STAGED" ELSE "QUEUED"
          OBVIOUS
        <4>2. jobs' = [jobs EXCEPT ![s] = y] /\ UNCHANGED abandoned
          BY <3>2, <4>1 DEF RetryFailed
        <4>3. jobs[s] # "COMMITTED" /\ (y \in {"STAGED", "FAILED"} => jobs[s] \in {"STAGED", "FAILED"})
          BY <3>2, <4>1 DEF RetryFailed, Undecided
        <4> QED BY <4>2, <4>3
      <3> QED BY <1>2, <3>1, <3>2
    <2>3. Works
      BY <1>1, <2>1, <2>2 DEF Works
    <2> QED BY <1>1, <2>3, StaySure DEF Calm
  <1>3. CASE DiscardJob(s)
    BY <1>1, <1>3, StaySure DEF Calm, Discards, DiscardJob
  <1>4. CASE AbandonFailed(s)
    <2>1. Forsakes(s)
      BY <1>1, <1>4 DEF Forsakes, AbandonFailed, Undecided
    <2> QED BY <1>1, <2>1, StaySure DEF Calm
  <1> QED BY <1>2, <1>3, <1>4 DEF JobStep

(* Recovery starts from a job of the outbox.                                *)
LEMMA StartRecoverySure ==
    ASSUME OneForeground, DiskInv, OutboxInv, DiskInv', NEW s \in DOMAIN jobs, StartRecovery(s) PROVE OutboxInv'
  <1>1. PICK v : v = [Idle EXCEPT !.phase = "read", !.job = s, !.why = "recover"]
    OBVIOUS
  <1>2. v.phase = "read" /\ v.job = s /\ v.why = "recover"
    BY <1>1, IdleIs DEF CallerRecord
  <1>3. HasJob("worker", v)
    BY <1>2 DEF HasJob, Booked
  <1>4. Go("worker", v) /\ Still /\ UNCHANGED <<jobs, abandoned>>
    BY <1>1 DEF StartRecovery, Still, disk
  <1> QED BY <1>3, <1>4, Names, SureWorker, GoStillSure

(* The lifecycle chooses committed segments only, and releases what it      *)
(* chose.                                                                   *)
LEMMA KeepingSure ==
    ASSUME OneForeground, DiskInv, OutboxInv, DiskInv', Keeping PROVE OutboxInv'
  <1> DEFINE k == callers["keeper"]
  <1>0. /\ "keeper" \in Caller /\ "keeper" # "worker" /\ "keeper" \notin Foreground /\ k \in CallerRecord
        /\ FilesInv /\ Remembers(k) /\ Knows(k)
    BY Names, Known
  <1>1. ASSUME NEW v, v.phase \notin {"chosen", "release"} PROVE Sure("keeper", v) /\ Sure("keeper", v)'
    BY <1>0, <1>1 DEF Sure
  <1>2. k.phase \in {"chosen", "release"} => Chosen(k.through)
    BY <1>0 DEF OutboxInv, Sure
  <1>3. ASSUME NEW v, Go("keeper", v), v.phase \notin {"chosen", "release"}, Kind("keeper") PROVE OutboxInv'
    BY <1>0, <1>1, <1>3, GoSure
  <1>4. Still /\ UNCHANGED <<jobs, abandoned>> => Kind("keeper")
    BY DEF Kind, Calm, Unaffected, Quietly
  <1>5. CASE StartKeeping
    <2>1. PICK p \in {"list", "purge"} : Go("keeper", [Idle EXCEPT !.phase = p])
      BY <1>5 DEF StartKeeping
    <2>2. [Idle EXCEPT !.phase = p].phase = p
      BY IdleIs DEF CallerRecord
    <2>3. Still /\ UNCHANGED <<jobs, abandoned>>
      BY <1>5 DEF StartKeeping, Still, disk
    <2> QED BY <1>3, <1>4, <2>1, <2>2, <2>3
  <1>6. CASE ChooseRelease
    <2>1. Still /\ UNCHANGED <<jobs, abandoned>> /\ NoNewer
      BY <1>0, <1>6, RepairedIs DEF ChooseRelease, Loaded, Still, disk
    <2>2. CASE Return("keeper")
      BY <1>0, <1>4, <2>1, <2>2, ReturnSure
    <2>3. ASSUME NEW n, \A s \in Active(cursor) : Hi(s) <= n => Releasable(s),
                 n \in {Hi(s) : s \in Active(cursor)},
                 Go("keeper", [k EXCEPT !.phase = "chosen", !.through = n])
          PROVE  OutboxInv'
      <3>1. PICK v : v = [k EXCEPT !.phase = "chosen", !.through = n]
        OBVIOUS
      <3>2. v.phase = "chosen" /\ v.through = n
        BY <1>0, <3>1 DEF CallerRecord
      <3>3. Chosen(n)
        <4> SUFFICES ASSUME NEW s \in history, cursor.released < Lo(s), Hi(s) <= n
                     PROVE  s \in DOMAIN jobs /\ jobs[s] = "COMMITTED"
          BY DEF Chosen
        <4>1. Seg(s) /\ Hi(s) <= cursor.archived
          BY <1>0, <2>1, QuietPast
        <4>2. Hi(s) > cursor.released
          BY <1>0, <4>1, CursorType DEF Seg
        <4>3. s \in Active(cursor)
          BY <4>1, <4>2 DEF Active
        <4> QED BY <2>3, <4>3 DEF Releasable
      <3>4. Sure("keeper", v)
        BY <1>0, <3>2, <3>3 DEF Sure
      <3>5. Go("keeper", v)
        BY <2>3, <3>1
      <3> QED BY <1>0, <2>1, <3>4, <3>5, GoStillSure
    <2> QED BY <1>6, <2>2, <2>3 DEF ChooseRelease
  <1>7. CASE StartRelease
    <2>1. PICK v : v = [k EXCEPT !.phase = "release"]
      OBVIOUS
    <2>2. v.phase = "release" /\ v.through = k.through
      BY <1>0, <2>1 DEF CallerRecord
    <2>3. k.phase = "chosen" /\ Go("keeper", v) /\ Still /\ UNCHANGED <<jobs, abandoned>>
      BY <1>7, <2>1 DEF StartRelease, Still, disk
    <2>4. Sure("keeper", v)
      BY <1>0, <1>2, <2>2, <2>3 DEF Sure
    <2> QED BY <1>0, <2>3, <2>4, GoStillSure
  <1>8. CASE ReleasePrefix
    <2>1. PICK u : u = {[seg |-> s, exhausted |-> FALSE] : s \in {t \in Active(cursor) : Hi(t) <= k.through}}
      OBVIOUS
    <2>2. PICK v : v = [k EXCEPT !.phase = "unlink", !.todo = u]
      OBVIOUS
    <2>3. v.phase = "unlink"
      BY <1>0, <2>2 DEF CallerRecord
    <2>4. Go("keeper", v)
      BY <1>8, <2>1, <2>2 DEF ReleasePrefix
    <2>5. k.phase = "release" /\ NoNewer
      BY <1>0, <1>8, RepairedIs DEF ReleasePrefix, Loaded
    <2>6. Frees(k.through)
      BY <1>0, <1>2, <1>8, <2>5 DEF Frees, Releases, ReleasePrefix, Knows
    <2>7. Kind("keeper")
      BY <2>6 DEF Kind
    <2> QED BY <1>3, <2>3, <2>4, <2>7
  <1>9. CASE Unlink
    <2>1. CASE Return("keeper") /\ UNCHANGED history
      <3>1. Still /\ UNCHANGED <<jobs, abandoned>>
        BY <1>9, <2>1 DEF Unlink, Still
      <3> QED BY <1>0, <1>4, <2>1, <3>1, ReturnSure
    <2>2. ASSUME NEW t \in k.todo, history' = history \ {t.seg}, Go("keeper", [k EXCEPT !.todo = @ \ {t}])
          PROVE  OutboxInv'
      <3>1. PICK v : v = [k EXCEPT !.todo = @ \ {t}]
        OBVIOUS
      <3>2. v.phase = "unlink" /\ Go("keeper", v)
        BY <1>0, <1>9, <2>2, <3>1 DEF CallerRecord, Unlink
      <3>3. Seg(t.seg) /\ Drops(t.seg) /\ UNCHANGED <<jobs, abandoned>>
        BY <1>0, <1>9, <2>2 DEF Remembers, Knows, Drops, IsStale, Unlink
      <3>4. Kind("keeper")
        BY <3>3 DEF Kind, Calm, Unaffected, Quietly
      <3> QED BY <1>3, <3>2, <3>4
    <2> QED BY <1>9, <2>1, <2>2 DEF Unlink
  <1>10. CASE Purge
    <2>1. CASE Return("keeper") /\ UNCHANGED history
      <3>1. Still /\ UNCHANGED <<jobs, abandoned>>
        BY <1>10, <2>1 DEF Purge, Still
      <3> QED BY <1>0, <1>4, <2>1, <3>1, ReturnSure
    <2>2. ASSUME NEW s \in Stale, history' = history \ {s}, callers' = callers PROVE OutboxInv'
      <3>1. Seg(s) /\ Drops(s) /\ UNCHANGED <<jobs, abandoned>>
        BY <1>0, <1>10, <2>2 DEF Stale, Drops, IsStale, FilesInv, FilesTyped, Purge
      <3> QED BY <2>2, <3>1, StaySure DEF Calm, Unaffected, Quietly
    <2> QED BY <1>10, <2>1, <2>2 DEF Purge
  <1> QED BY <1>5, <1>6, <1>7, <1>8, <1>9, <1>10 DEF Keeping

(* Nothing is in the outbox at first.                                       *)
LEMMA OutboxInit == Init => OutboxInv
  <1> SUFFICES ASSUME Init PROVE OutboxInv
    OBVIOUS
  <1>1. DOMAIN jobs = {} /\ history = {} /\ \A c \in Caller : callers[c] = Idle
    BY EmptyFile DEF Init
  <1>2. Outbox
    BY <1>1 DEF Outbox, OutboxCoversHistory
  <1> QED BY <1>1, <1>2, SureIdle DEF OutboxInv

(* Every step keeps the outbox.                                             *)
LEMMA OutboxNext == OneForeground /\ DiskInv /\ DiskInv' /\ OutboxInv /\ [Next]_vars => OutboxInv'
  <1> SUFFICES ASSUME OneForeground, DiskInv, DiskInv', OutboxInv, [Next]_vars PROVE OutboxInv'
    OBVIOUS
  <1>1. ASSUME NEW c \in Foreground, Foregrounds(c) PROVE OutboxInv'
    BY <1>1, AppendSure, WriteLiveSure, StartPassSure, PlanSure, ListStagedSure,
       CompleteNextSure,
       CompletedAllSure, CallbackSure, LoseLeaseSure, SealSecondSure, RestageSure, EnqueueSure DEF Foregrounds
  <1>2. ASSUME NEW c \in Foreground \cup {"worker"}, Seals(c) PROVE OutboxInv'
    BY <1>2, StagedSegmentSure, StartSealSure, SealFirstSure, TruncateLiveSure,
       SealReturnsSure,
       CompletedSure DEF Seals
  <1>3. ASSUME NEW c \in Caller, NEW d \in DeliveryId, RecoverReceipt(c, d) PROVE OutboxInv'
    BY <1>3, StaySure DEF RecoverReceipt, Calm, Unaffected, Quietly, Still
  <1>4. CASE UNCHANGED vars
    BY <1>4, StaySure DEF vars, Calm, Unaffected, Quietly, Still
  <1> QED BY <1>1, <1>2, <1>3, <1>4, RepairSure, RefuseSure, JobsSure, StartRecoverySure, KeepingSure
     DEF Next, JobStep

(* With one thread that appends and enqueues.                               *)
THEOREM OutboxAlways == ASSUME OneForeground PROVE Spec => []OutboxInv
  <1>1. DiskInv /\ DiskInv' /\ OutboxInv /\ [Next]_vars => OutboxInv'
    BY OutboxNext
  <1> QED BY <1>1, OutboxInit, DiskAlways, PTL DEF Spec

(* OutboxCoversHistory, where one foreground ingests a conversation: every  *)
(* segment that is published and not released has a job in the outbox, or   *)
(* the record of an operator who abandoned it.  The job is staged before    *)
(* the segment is published (seal_and_enqueue, staged_job_segment), the     *)
(* worker's job cannot be abandoned under it, and the lifecycle releases,   *)
(* and later discards, committed jobs only.                                 *)
THEOREM OutboxCovers == ASSUME OneForeground PROVE Spec => []OutboxCoversHistory
  <1>1. OutboxInv => OutboxCoversHistory
    BY DEF OutboxInv, Outbox
  <1> QED BY <1>1, OutboxAlways, PTL

(* StagedIsCompletable, where one foreground ingests a conversation: a      *)
(* staged job whose segment is not published is the next segment at the     *)
(* front of the live file, message by message, so a later pass can always   *)
(* complete it.                                                             *)
THEOREM StagedCompletes == ASSUME OneForeground PROVE Spec => []StagedIsCompletable
  <1>1. OutboxInv => StagedIsCompletable
    BY DEF OutboxInv, Outbox, Open, NextUp, StagedIsCompletable
  <1> QED BY <1>1, OutboxAlways, PTL
=============================================================================
