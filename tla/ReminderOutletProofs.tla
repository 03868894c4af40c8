------------------------ MODULE ReminderOutletProofs ------------------------
(***************************************************************************)
(* What holds of ReminderOutlet for any expectations, sessions and bounds: *)
(* one question per expectation in the ledger, one input of a moment on    *)
(* the list at a time, and no question or answer that is lost.             *)
(***************************************************************************)
EXTENDS ReminderOutlet, FiniteSetTheorems, TLAPS

----------------------------------------------------------------------------
(* Types.                                                                  *)

Question == [req : Requests, late : BOOLEAN, answered : BOOLEAN]

QuestionCall == [req : Requests, turn : Nat]

Transcript == [questions : SUBSET Question, replies : SUBSET QuestionCall]

TurnRecord == [n : Nat, busy : BOOLEAN, questions : SUBSET Question,
               replies : SUBSET QuestionCall]

Holder == [session : Sessions, turn : Nat, live : BOOLEAN]

Stay == [session : Sessions, turn : Nat, ended : {"expired", "released", "spoken"}]

ClaimRecord == [exists : BOOLEAN, holder : Holder \cup {NoHolder}, attempts : Nat,
                history : SUBSET Stay, said : BOOLEAN]

TickRecord == [busy : BOOLEAN, at : Nat, alive : BOOLEAN, seen : SUBSET Requests,
               wait : SUBSET Requests, todo : SUBSET Requests, joins : SUBSET Requests,
               close : SUBSET Requests, opens : SUBSET Requests, fresh : SUBSET Requests]

Settling == {"next", "record", "mark", "drop", "answer"}

ObsRecord == [session : Sessions \cup {"none"},
              step : Settling \cup {"idle", "respond", "end"},
              todo : SUBSET (Question \cup Nat),
              q : [req : Requests \cup {"none"}, late : BOOLEAN, answered : BOOLEAN]]

SessionCall == [session : Sessions, turn : Nat]

SessionAnswer == [req : Requests, session : Sessions, turn : Nat]

Typed ==
    /\ reason \in [Requests -> Reasons]
    /\ spoken \in [Requests -> SUBSET SessionCall]
    /\ response \in SUBSET SessionAnswer
    /\ asked \in SUBSET SessionAnswer
    /\ open \in SUBSET Requests
    /\ seen \in SUBSET Requests
    /\ now \in Nat
    /\ claim \in [Requests -> ClaimRecord]
    /\ tick \in TickRecord
    /\ obs \in ObsRecord
    /\ turn \in [Sessions -> TurnRecord]
    /\ known \in [Sessions -> SUBSET Requests]
    /\ mail \in [Sessions -> Seq(Transcript)]
    /\ done \in [Sessions -> Nat]
    /\ alive \in BOOLEAN
    /\ crashes \in Nat /\ refused \in Nat

----------------------------------------------------------------------------
(* The tick and the moments.                                               *)

\* What a tick is about to decide is what it read: its own writes do not
\* overtake its plan, and nobody else decides.
Planned ==
    /\ tick.at <= now
    /\ \A e \in tick.todo : reason[e] = "awaiting"
    /\ \A e \in tick.joins : reason[e] = "none" /\ BasisOf[e] # e
    /\ \A e \in tick.close : reason[e] \in {"pending", "unit"}
    /\ \A e \in tick.opens : reason[e] = "none" /\ BasisOf[e] = e
    /\ \A e \in tick.wait \cup tick.fresh :
          ~Late(e, tick.at) /\ e \notin tick.seen => reason[e] = "awaiting"
    /\ \A e \in Requests : reason[e] = "unit" => BasisOf[e] # e

\* Nothing more will be said of e.
Over(e) ==
    \/ reason[e] \in {"happened", "unreachable", "unclaimed", "other"}
    \/ Late(e, now)

\* e is decided, or about to be.
Active(e) == reason[e] \notin {"none", "unit"} \/ e \in tick.close

\* A member takes over when its basis is over or has lost its voice, and every
\* member that took over before it is over.
Succession ==
    \A e, f \in Requests : e # f /\ BasisOf[e] = BasisOf[f] /\ BasisOf[e] # e /\ Active(e) =>
       IF BasisOf[f] = f THEN Over(f) \/ f \in lost ELSE Active(f) => Over(e) \/ Over(f)

----------------------------------------------------------------------------
(* Questions and answers.                                                  *)

\* Session s, which was given these requests, may have put these questions by t.
Askable(s, Q, given, t) ==
    \A q \in Q : /\ q.req \in given
                 /\ q.late => Late(q.req, t)
                 /\ q.answered => s \notin RepliesLater
                 /\ \A p \in Q : p.req = q.req => p = q

Asking ==
    \A s \in Sessions :
       /\ Askable(s, turn[s].questions, known[s], now)
       /\ \A n \in 1..Len(mail[s]) : Askable(s, mail[s][n].questions, known[s], now)

\* Whoever was given a request is still known to have held it, unless its time
\* is over or the person did it.
Holding ==
    \A s \in Sessions : \A e \in known[s] :
       ~Elapsed(e, now) /\ reason[e] # "happened" => s \in Holders(claim[e])

\* The transcript being observed.
Observing ==
    /\ \A s \in Sessions : done[s] <= Len(mail[s])
    /\ obs.step # "idle" => obs.session \in Sessions /\ done[obs.session] < Len(mail[obs.session])
    /\ obs.step = "idle" => obs = NoObs
    /\ obs.step \in Settling => obs.todo \subseteq Batch(obs.session).questions
    /\ obs.step \in Settling \ {"next"} => obs.q \in Batch(obs.session).questions
    /\ obs.step = "respond" => obs.todo \subseteq Nat /\ Req \in Requests
    /\ obs.step = "mark" => spoken[Req] # {}
    /\ \A e \in Requests : claim[e].said => spoken[e] # {}

\* At most one question is recorded, of a turn that is over.
Recorded ==
    \A e \in Requests :
       /\ \A c, d \in spoken[e] : c = d
       /\ \A c \in spoken[e] : c.turn \in 1..Len(mail[c.session])

\* Nothing is left to recognise of q.
Settled(q) ==
    q.late \/ Elapsed(q.req, now) \/ spoken[q.req] # {} \/ reason[q.req] = "happened"

Recognised ==
    /\ \A s \in Sessions : \A n \in 1..done[s] : \A q \in mail[s][n].questions : Settled(q)
    /\ obs.step # "idle" =>
          \A q \in Batch(obs.session).questions :
             \/ Settled(q)
             \/ obs.step \in Settling /\ q \in obs.todo
             \/ obs.step = "record" /\ q = obs.q

\* The observer is between the question c of q and its answer.
Underway(c, q) ==
    /\ obs.session = c.session /\ c.turn = done[c.session] + 1 /\ obs.q = q
    /\ obs.step \in {"mark", "answer"} \/ (obs.step = "drop" /\ claim[q.req].said)

Answered ==
    \A e \in Requests : \A c \in spoken[e] : \A q \in mail[c.session][c.turn].questions :
       q.req = e /\ q.answered =>
          Underway(c, q) \/ [req |-> e, session |-> c.session, turn |-> c.turn] \in response

IInv ==
    /\ Typed /\ Planned /\ Succession /\ OneOpenPerMoment
    /\ Asking /\ Holding /\ Observing /\ Recorded
    /\ refused = 0 => Recognised
    /\ crashes + refused = 0 => Answered


----------------------------------------------------------------------------
(* Types are kept.                                                         *)

LEMMA BoundsAreNats ==
    /\ MaxTime \in Nat /\ MaxTurns \in Nat /\ MaxAttempts \in Nat /\ ClaimLimit \in Nat
    /\ MaxCrashes \in Nat /\ MaxFailures \in Nat /\ MaxRefused \in Nat
    /\ \A e \in Requests : WindowEnd[e] \in Nat /\ Deadline[e] \in Nat
    /\ \A e \in Requests : BasisOf[e] \in Requests /\ BasisOf[BasisOf[e]] = BasisOf[e]
    /\ RepliesLater \subseteq Sessions /\ "none" \notin Sessions
BY OutletAssumption

LEMMA EmptyThings ==
    /\ NoClaim \in ClaimRecord /\ NoTick \in TickRecord /\ NoObs \in ObsRecord
    /\ \A n \in Nat : NoTurn(n) \in TurnRecord
BY DEF NoClaim, ClaimRecord, NoTick, TickRecord, NoObs, NoQuestion, ObsRecord, NoTurn,
       TurnRecord, Settling

LEMMA LateIs ==
    ASSUME NEW e \in Requests, NEW t \in Nat, NEW u \in Nat, t <= u, Late(e, t)
    PROVE  Late(e, u)
BY BoundsAreNats DEF Late

LEMMA ElapsedIs ==
    ASSUME NEW e \in Requests, NEW t \in Nat
    PROVE  /\ Late(e, t) => Elapsed(e, t)
           /\ \A u \in Nat : t <= u /\ Elapsed(e, t) => Elapsed(e, u)
BY BoundsAreNats DEF Late, Elapsed

\* What may happen to a claim.
LEMMA ExpiredIs ==
    ASSUME NEW c \in ClaimRecord, c.holder # NoHolder
    PROVE  /\ Expired(c) \in ClaimRecord /\ Expired(c).said = c.said
           /\ Expired(c).holder = NoHolder
           /\ Expired(c).history = c.history \cup {[session |-> c.holder.session,
                                                   turn |-> c.holder.turn, ended |-> "expired"]}
<1> DEFINE r == [session |-> c.holder.session, turn |-> c.holder.turn, ended |-> "expired"]
<1>1. Expired(c) = [c EXCEPT !.holder = NoHolder, !.history = c.history \cup {r}]
  BY DEF Expired, ClaimRecord
<1>2. r \in Stay
  BY DEF ClaimRecord, Holder, Stay
<1> HIDE DEF r
<1>3. /\ Expired(c) \in ClaimRecord /\ Expired(c).said = c.said
      /\ Expired(c).holder = NoHolder /\ Expired(c).history = c.history \cup {r}
  BY <1>1, <1>2 DEF ClaimRecord
<1> QED
  BY <1>3 DEF r

LEMMA SweptIs ==
    ASSUME Typed, NEW e \in Requests, NEW t
    PROVE  SweptClaim(e, t) \in ClaimRecord
BY ExpiredIs, EmptyThings DEF SweptClaim, Typed

LEMMA GivenIs ==
    ASSUME NEW c \in ClaimRecord, NEW s \in Sessions, NEW n \in Nat, Offered(c, s)
    PROVE  /\ Given(c, s, n) \in ClaimRecord
           /\ Given(c, s, n).holder.session = s /\ Given(c, s, n).said = c.said
           /\ Holders(c) \subseteq Holders(Given(c, s, n))
<1> DEFINE g == Given(c, s, n)
<1>0. s # "none" /\ NoHolder.session = "none"
  BY BoundsAreNats DEF NoHolder
<1>1. CASE c.holder.session = s
  <2>1. g = c
    BY <1>0, <1>1 DEF Given
  <2> QED
    BY <1>1, <2>1
<1>2. CASE c.holder.session # s /\ c.holder = NoHolder /\ Mine(c, s) # {}
  <2> DEFINE m == CHOOSE h \in Mine(c, s) : TRUE
  <2>1. m \in Mine(c, s)
    BY <1>2
  <2>2. m \in c.history /\ m.session = s /\ m \in Stay
    BY <2>1 DEF Mine, ClaimRecord
  <2>3. g = [c EXCEPT !.exists = TRUE, !.history = @ \ {m},
                      !.holder = [session |-> s, turn |-> m.turn, live |-> TRUE]]
    BY <1>2 DEF Given
  <2> HIDE DEF m
  <2>4. [session |-> s, turn |-> m.turn, live |-> TRUE] \in Holder
    BY <2>2 DEF Holder, Stay
  <2>5. /\ g \in ClaimRecord
        /\ g.holder = [session |-> s, turn |-> m.turn, live |-> TRUE]
        /\ g.history = c.history \ {m} /\ g.said = c.said
    BY <2>3, <2>4 DEF ClaimRecord
  <2>6. g.holder.session = s
    BY <2>5
  <2> QED
    BY <1>0, <1>2, <2>2, <2>5, <2>6 DEF Holders
<1>3. CASE c.holder.session # s /\ c.holder = NoHolder /\ Mine(c, s) = {}
  <2>1. g = [c EXCEPT !.exists = TRUE, !.holder = [session |-> s, turn |-> n, live |-> TRUE]]
    BY <1>3 DEF Given
  <2>2. [session |-> s, turn |-> n, live |-> TRUE] \in Holder
    BY DEF Holder
  <2>3. /\ g \in ClaimRecord
        /\ g.holder = [session |-> s, turn |-> n, live |-> TRUE]
        /\ g.history = c.history /\ g.said = c.said
    BY <2>1, <2>2 DEF ClaimRecord
  <2>4. g.holder.session = s
    BY <2>3
  <2> QED
    BY <1>0, <1>3, <2>3, <2>4 DEF Holders
<1> QED
  BY <1>1, <1>2, <1>3 DEF Offered

LEMMA StayAdded ==
    ASSUME NEW H, NEW s, NEW n, NEW how
    PROVE  {h.session : h \in H \cup {[session |-> s, turn |-> n, ended |-> how]}}
             = {h.session : h \in H} \cup {s}
<1> DEFINE r == [session |-> s, turn |-> n, ended |-> how]
<1>1. r.session = s
  OBVIOUS
<1> HIDE DEF r
<1>2. {h.session : h \in H \cup {r}} = {h.session : h \in H} \cup {s}
  BY <1>1
<1> QED
  BY <1>2 DEF r

LEMMA SaidIs ==
    ASSUME NEW c \in ClaimRecord
    PROVE  /\ Said(c) \in ClaimRecord /\ Said(c).said
           /\ Holders(c) \subseteq Holders(Said(c))
<1> DEFINE h == IF c.holder = NoHolder THEN c.history
                ELSE c.history \cup {[session |-> c.holder.session, turn |-> c.holder.turn,
                                      ended |-> "spoken"]}
<1>1. Said(c) = [c EXCEPT !.said = TRUE, !.holder = NoHolder, !.history = h]
  BY DEF Said
<1>2. h \in SUBSET Stay
  BY DEF ClaimRecord, Holder, Stay
<1>3. {x.session : x \in h} = {x.session : x \in c.history} \cup ({c.holder.session} \ {"none"})
  <2>1. CASE c.holder = NoHolder
    BY <2>1 DEF NoHolder
  <2>2. CASE c.holder # NoHolder
    <3>1. c.holder.session # "none"
      BY <2>2, BoundsAreNats DEF ClaimRecord, Holder
    <3>2. {x.session : x \in h} = {x.session : x \in c.history} \cup {c.holder.session}
      BY <2>2, StayAdded, Zenon
    <3> HIDE DEF h
    <3> QED
      BY <3>1, <3>2
  <2> QED
    BY <2>1, <2>2
<1> HIDE DEF h
<1>4. /\ Said(c) \in ClaimRecord /\ Said(c).said /\ Said(c).history = h
  BY <1>1, <1>2 DEF ClaimRecord
<1> QED
  BY <1>3, <1>4 DEF Holders

LEMMA ReleasedIs ==
    ASSUME NEW c \in ClaimRecord, c.holder.session \in Sessions
    PROVE  /\ Released(c) \in ClaimRecord /\ Released(c).said = c.said
           /\ Holders(c) \subseteq Holders(Released(c))
<1> DEFINE h == c.history \cup {[session |-> c.holder.session, turn |-> c.holder.turn,
                                 ended |-> "released"]}
<1>1. Released(c) = [c EXCEPT !.holder = NoHolder, !.attempts = c.attempts + 1, !.history = h]
  BY DEF Released, ClaimRecord
<1>2. h \in SUBSET Stay /\ c.attempts + 1 \in Nat
  BY BoundsAreNats DEF ClaimRecord, Holder, Stay, NoHolder
<1>3. {x.session : x \in h} = {x.session : x \in c.history} \cup ({c.holder.session} \ {"none"})
  <2>1. {x.session : x \in h} = {x.session : x \in c.history} \cup {c.holder.session}
    BY StayAdded, Zenon
  <2> HIDE DEF h
  <2> QED
    BY <2>1, BoundsAreNats
<1> HIDE DEF h
<1>4. Released(c) \in ClaimRecord /\ Released(c).said = c.said /\ Released(c).history = h
  BY <1>1, <1>2 DEF ClaimRecord
<1> QED
  BY <1>3, <1>4 DEF Holders

LEMMA LapsedIs ==
    ASSUME NEW c \in ClaimRecord, c.holder.live
    PROVE  LET d == [c EXCEPT !.holder.live = FALSE] IN
           d \in ClaimRecord /\ d.said = c.said /\ Holders(d) = Holders(c)
<1> DEFINE d == [c EXCEPT !.holder.live = FALSE]
<1>1. c.holder \in Holder
  BY DEF ClaimRecord, NoHolder
<1>2. d.holder = [c.holder EXCEPT !.live = FALSE] /\ d.holder \in Holder
      /\ d.holder.session = c.holder.session
  BY <1>1 DEF ClaimRecord, Holder
<1>3. d \in ClaimRecord /\ d.said = c.said /\ d.history = c.history
  BY <1>2 DEF ClaimRecord
<1> QED
  BY <1>2, <1>3 DEF Holders


LEMMA InitTyped == Init => Typed
<1> SUFFICES ASSUME Init PROVE Typed
  OBVIOUS
<1>1. \A e \in Requests : "none" \in Reasons
  BY DEF Reasons
<1>2. mail \in [Sessions -> Seq(Transcript)]
  BY DEF Init
<1> QED
  BY <1>1, <1>2, EmptyThings DEF Init, Typed

\* What a tick reads: the windows that close and open, the heirs and the inputs
\* that join their units.
Read(C, H, O, J) ==
    /\ C \subseteq {e \in Requests : reason[e] = "pending"}
    /\ H \subseteq UNION {Heirs(e, now) : e \in Requests} /\ H \subseteq Requests
    /\ O \subseteq {e \in Requests : BasisOf[e] = e /\ reason[e] = "none"}
    /\ J \subseteq {m \in Requests : BasisOf[m] # m /\ reason[m] = "none"}
    /\ Handover(H, now)
    /\ lost' = lost \cup {b \in mute : BasisOf[b] = b /\ reason[b] \in {"pending", "awaiting"}}
    /\ tick' = [busy |-> TRUE, at |-> now, alive |-> alive, seen |-> seen, fresh |-> {},
                wait |-> {e \in Requests : Awaiting(e)},
                todo |-> {e \in Requests : Awaiting(e)},
                joins |-> J, close |-> C \cup H, opens |-> O]

LEMMA ReadPicks ==
    ASSUME TickRead
    PROVE  \E C, H, O, J : Read(C, H, O, J)
<1> DEFINE pending == {e \in Requests : reason[e] = "pending"}
           heirs == UNION {Heirs(e, now) : e \in Requests}
           fresh == {e \in Requests : BasisOf[e] = e /\ reason[e] = "none" /\ ~Late(e, now)}
           joining(O) == {m \in Requests : BasisOf[m] # m /\ reason[m] = "none"
                            /\ (BasisOf[m] \in O \/ reason[BasisOf[m]] # "none")}
           next(C, H, O, J) ==
              [busy |-> TRUE, at |-> now, alive |-> alive, seen |-> seen, fresh |-> {},
               wait |-> {e \in Requests : Awaiting(e)},
               todo |-> {e \in Requests : Awaiting(e)},
               joins |-> J, close |-> C \cup H, opens |-> O]
<1>1. \E C \in SUBSET pending, H \in SUBSET heirs, O \in SUBSET fresh :
      \E J \in SUBSET joining(O) :
         /\ \A e \in pending : Closes(C, e, now)
         /\ Handover(H, now)
         /\ tick' = next(C, H, O, J)
  BY DEF TickRead
<1>2. heirs \subseteq Requests
  BY DEF Heirs, Members
<1>3. \A O : joining(O) \subseteq {m \in Requests : BasisOf[m] # m /\ reason[m] = "none"}
  OBVIOUS
<1>4. fresh \subseteq {e \in Requests : BasisOf[e] = e /\ reason[e] = "none"}
  OBVIOUS
<1> HIDE DEF heirs, fresh, joining, next
<1>5. PICK C \in SUBSET pending, H \in SUBSET heirs, O \in SUBSET fresh :
      \E J \in SUBSET joining(O) : Handover(H, now) /\ tick' = next(C, H, O, J)
  BY <1>1
<1>6. PICK J \in SUBSET joining(O) : Handover(H, now) /\ tick' = next(C, H, O, J)
  BY <1>5
<1>7. /\ C \subseteq pending /\ H \subseteq heirs /\ H \subseteq Requests
      /\ O \subseteq {e \in Requests : BasisOf[e] = e /\ reason[e] = "none"}
      /\ J \subseteq {m \in Requests : BasisOf[m] # m /\ reason[m] = "none"}
  BY <1>2, <1>3, <1>4
<1>8. lost' = lost \cup {b \in mute : BasisOf[b] = b /\ reason[b] \in {"pending", "awaiting"}}
  BY DEF TickRead
<1>9. Read(C, H, O, J)
  BY <1>6, <1>7, <1>8 DEF Read, heirs, next
<1> QED
  BY <1>9

\* The decisions of a tick.
LEMMA TickTyped ==
    ASSUME Typed,
           \/ TickRead \/ TickAwait \/ TickSubsume \/ TickClose \/ TickOpen
           \/ TickDefer \/ TickFail
    PROVE  Typed'
<1>0. tick \in TickRecord /\ NoTick \in TickRecord
  BY EmptyThings DEF Typed
<1>1. UNCHANGED <<spoken, response, outlet, alive, obs, hosts, done, now, seen, crashes, refused>>
  BY DEF TickRead, TickAwait, TickSubsume, TickClose, TickOpen, TickDefer, TickFail, ledger, faults
<1>2. ASSUME reason' \in [Requests -> Reasons], tick' \in TickRecord
      PROVE  Typed'
  BY <1>1, <1>2 DEF Typed, outlet, hosts
<1>3. CASE TickRead
  <2>1. PICK C, H, O, J : Read(C, H, O, J)
    BY <1>3, ReadPicks
  <2>2. tick' \in TickRecord
    BY <2>1 DEF Typed, TickRecord, Read
  <2> QED
    BY <1>2, <1>3, <2>2 DEF TickRead, ledger, Typed
<1>4. CASE TickAwait
  <2>1. PICK e \in tick.todo : /\ reason' = [reason EXCEPT ![e] = OnAwaiting(e)]
                               /\ tick' = [tick EXCEPT !.todo = @ \ {e}]
    BY <1>4 DEF TickAwait, Decide
  <2>2. tick' \in TickRecord
    BY <1>0, <2>1 DEF TickRecord
  <2>3. OnAwaiting(e) \in Reasons
    BY <1>0, <2>1 DEF OnAwaiting, Reasons, Typed, TickRecord
  <2> QED
    BY <1>2, <2>1, <2>2, <2>3 DEF Typed
<1>5. CASE TickSubsume
  <2>1. tick' \in TickRecord
    BY <1>0, <1>5 DEF TickSubsume, TickRecord
  <2>2. "unit" \in Reasons
    BY DEF Reasons
  <2>3. reason' = [e \in Requests |-> IF e \in tick.joins THEN "unit" ELSE reason[e]]
    BY <1>5 DEF TickSubsume
  <2>4. reason' \in [Requests -> Reasons]
    BY <2>2, <2>3 DEF Typed
  <2> QED
    BY <1>2, <2>1, <2>4
<1>6. CASE TickClose
  <2>0. PICK e \in tick.close : \E r \in OnClosing(e) :
             /\ Decide(e, r)
             /\ tick' = [tick EXCEPT !.close = @ \ {e},
                                     !.fresh = IF r = "awaiting" THEN @ \cup {e} ELSE @]
    BY <1>6 DEF TickClose
  <2>1. PICK r \in OnClosing(e) :
             /\ reason' = [reason EXCEPT ![e] = r]
             /\ tick' = [tick EXCEPT !.close = @ \ {e},
                                     !.fresh = IF r = "awaiting" THEN @ \cup {e} ELSE @]
    BY <2>0 DEF Decide
  <2>2. e \in Requests
    BY <1>0 DEF TickRecord
  <2>3. tick' \in TickRecord
    BY <1>0, <2>1, <2>2 DEF TickRecord
  <2>4. r \in Reasons
    BY DEF OnClosing, Reasons
  <2> QED
    BY <1>2, <2>1, <2>3, <2>4 DEF Typed
<1>7. CASE TickOpen
  <2>0. PICK e \in tick.opens : \E r \in OnOpening(e) :
             Decide(e, r) /\ tick' = [tick EXCEPT !.opens = @ \ {e}]
    BY <1>7 DEF TickOpen
  <2>1. PICK r \in OnOpening(e) :
             /\ reason' = [reason EXCEPT ![e] = r]
             /\ tick' = [tick EXCEPT !.opens = @ \ {e}]
    BY <2>0 DEF Decide
  <2>2. tick' \in TickRecord
    BY <1>0, <2>1 DEF TickRecord
  <2>3. r \in Reasons
    BY DEF OnOpening, Reasons
  <2> QED
    BY <1>2, <2>1, <2>2, <2>3 DEF Typed
<1>8. CASE TickDefer
  <2>1. tick' \in TickRecord
    BY <1>0, <1>8 DEF TickDefer, TickRecord
  <2> QED
    BY <1>2, <1>8, <2>1 DEF TickDefer, ledger, Typed
<1>9. CASE TickFail
  BY <1>0, <1>2, <1>9 DEF TickFail, ledger, Typed
<1> QED
  BY <1>3, <1>4, <1>5, <1>6, <1>7, <1>8, <1>9

\* The list is published, time passes, a lease lapses, somebody crashes.
LEMMA OutsideTyped ==
    ASSUME Typed,
           \/ TickPublish \/ Pass \/ Night \/ HostsGone \/ Seen \/ Crash
           \/ \E e \in Requests : LeaseLapses(e)
    PROVE  Typed'
<1>1. CASE TickPublish
  <2>1. claim' \in [Requests -> ClaimRecord]
    BY <1>1, SweptIs DEF TickPublish
  <2>2. open' \in SUBSET Requests
    BY <1>1 DEF TickPublish, Published, Typed, TickRecord
  <2>3. asked' \in SUBSET SessionAnswer
    BY <1>1 DEF TickPublish, SweptAsked, Typed
  <2> QED
    BY <1>1, <2>1, <2>2, <2>3, EmptyThings DEF TickPublish, Typed, ledger, hosts, faults
<1>2. CASE Pass
  BY <1>2 DEF Pass, Typed, ledger, outlet, hosts, faults
<1>3. CASE Night \/ HostsGone
  BY <1>3 DEF Night, HostsGone, Typed, ledger, outlet, hosts
<1>4. CASE Seen
  <2>1. seen' \in SUBSET Requests
    BY <1>4 DEF Seen
  <2> QED
    BY <1>4, <2>1 DEF Seen, Typed, ledger, outlet, hosts, faults
<1>5. CASE Crash
  BY <1>5, EmptyThings DEF Crash, Typed, ledger, outlet, hosts
<1>6. ASSUME NEW e \in Requests, LeaseLapses(e)
      PROVE  Typed'
  <2>1. claim' = [claim EXCEPT ![e] = [claim[e] EXCEPT !.holder.live = FALSE]]
        /\ claim[e].holder.live /\ claim[e] \in ClaimRecord
    BY <1>6 DEF LeaseLapses, Typed
  <2>2. [claim[e] EXCEPT !.holder.live = FALSE] \in ClaimRecord
    BY <2>1, LapsedIs
  <2>3. claim' \in [Requests -> ClaimRecord]
    BY <2>1, <2>2 DEF Typed
  <2> QED
    BY <1>6, <2>3 DEF LeaseLapses, Typed, ledger, hosts, faults
<1> QED
  BY <1>1, <1>2, <1>3, <1>4, <1>5, <1>6


\* A host session asks, answers and hands over its transcript.
LEMMA PromptIs ==
    ASSUME Typed, NEW s \in Sessions, Prompt(s)
    PROVE  \E given \in SUBSET Requests :
              LET n == turn[s].n + 1
                  swept(e) == SweptClaim(e, now)
              IN /\ \A e \in given : e \in open /\ ~Elapsed(e, now) /\ Offered(swept(e), s)
                 /\ claim' = [e \in Requests |-> IF e \in given THEN Given(swept(e), s, n)
                                                 ELSE swept(e)]
                 /\ known' = [known EXCEPT ![s] =
                                @ \cup {e \in given : claim'[e].holder.turn = n}]
                 /\ turn' = [turn EXCEPT ![s] = [NoTurn(n) EXCEPT !.busy = TRUE]]
<1> DEFINE n == turn[s].n + 1
           swept == [e \in Requests |-> SweptClaim(e, now)]
           offer == {e \in open : ~Elapsed(e, now) /\ Offered(swept[e], s)}
           given(limit) == {e \in offer : Cardinality({f \in offer : Deadline[f] < Deadline[e]}) < limit}
           after(limit) == [e \in Requests |-> IF e \in given(limit) THEN Given(swept[e], s, n)
                                               ELSE swept[e]]
<1>1. PICK limit \in 1..ClaimLimit :
         /\ claim' = after(limit)
         /\ known' = [known EXCEPT ![s] = @ \cup {e \in given(limit) : after(limit)[e].holder.turn = n}]
         /\ turn' = [turn EXCEPT ![s] = [NoTurn(n) EXCEPT !.busy = TRUE]]
  BY DEF Prompt
<1>2. /\ given(limit) \subseteq open
      /\ \A e \in given(limit) : ~Elapsed(e, now) /\ Offered(swept[e], s)
  OBVIOUS
<1>3. open \subseteq Requests
  BY DEF Typed
<1> DEFINE g == given(limit)
<1>4. /\ g \subseteq open /\ \A e \in g : ~Elapsed(e, now) /\ Offered(swept[e], s)
      /\ claim' = [e \in Requests |-> IF e \in g THEN Given(swept[e], s, n) ELSE swept[e]]
      /\ known' = [known EXCEPT ![s] = @ \cup {e \in g : claim'[e].holder.turn = n}]
  BY <1>1, <1>2
<1> HIDE DEF g
<1>5. g \in SUBSET Requests
  BY <1>3, <1>4
<1>6. \A e \in g : e \in open /\ ~Elapsed(e, now) /\ Offered(SweptClaim(e, now), s)
  BY <1>4, <1>5
<1>7. claim' = [e \in Requests |-> IF e \in g THEN Given(SweptClaim(e, now), s, n)
                                   ELSE SweptClaim(e, now)]
  BY <1>4, <1>5
<1> QED
  BY <1>1, <1>4, <1>5, <1>6, <1>7

LEMMA HostTyped ==
    ASSUME Typed, NEW s \in Sessions, Prompt(s) \/ Ask(s) \/ Reply(s) \/ EndTurn(s)
    PROVE  Typed'
<1>0. /\ turn[s] \in TurnRecord /\ known[s] \in SUBSET Requests /\ turn \in [Sessions -> TurnRecord]
      /\ mail[s] \in Seq(Transcript)
  BY DEF Typed
<1>1. CASE Prompt(s)
  <2> DEFINE n == turn[s].n + 1
  <2>1. PICK given \in SUBSET Requests :
           /\ \A e \in given : Offered(SweptClaim(e, now), s)
           /\ claim' = [e \in Requests |-> IF e \in given THEN Given(SweptClaim(e, now), s, n)
                                           ELSE SweptClaim(e, now)]
           /\ known' = [known EXCEPT ![s] = @ \cup {e \in given : claim'[e].holder.turn = n}]
           /\ turn' = [turn EXCEPT ![s] = [NoTurn(n) EXCEPT !.busy = TRUE]]
    BY <1>1, PromptIs
  <2>2. n \in Nat
    BY <1>0, BoundsAreNats DEF TurnRecord
  <2> HIDE DEF n
  <2>3. \A e \in Requests : SweptClaim(e, now) \in ClaimRecord
    BY SweptIs
  <2>4. \A e \in given : Given(SweptClaim(e, now), s, n) \in ClaimRecord
    BY <2>1, <2>2, <2>3, GivenIs
  <2>5. claim' \in [Requests -> ClaimRecord]
    BY <2>1, <2>3, <2>4
  <2>6. known' \in [Sessions -> SUBSET Requests]
    BY <2>1 DEF Typed
  <2>7. [NoTurn(n) EXCEPT !.busy = TRUE] \in TurnRecord
    BY <2>2 DEF NoTurn, TurnRecord
  <2>8. turn' \in [Sessions -> TurnRecord]
    BY <1>0, <2>1, <2>7
  <2>9. asked' \in SUBSET SessionAnswer
    BY <1>1 DEF Prompt, SweptAsked, Typed
  <2> QED
    BY <1>1, <2>5, <2>6, <2>8, <2>9 DEF Prompt, Typed, ledger, faults
<1>2. CASE Ask(s)
  <2>1. PICK e \in known[s], fixed \in BOOLEAN :
           turn' = [turn EXCEPT ![s].questions =
                       @ \cup {[req |-> e, late |-> Late(e, now), answered |-> fixed]}]
    BY <1>2 DEF Ask
  <2> DEFINE q == [req |-> e, late |-> Late(e, now), answered |-> fixed]
  <2>2. q \in Question
    <3>1. Late(e, now) \in BOOLEAN
      BY DEF Late
    <3> QED
      BY <1>0, <3>1 DEF Question
  <2> HIDE DEF q
  <2>3. turn' = [turn EXCEPT ![s] = [turn[s] EXCEPT !.questions = turn[s].questions \cup {q}]]
    BY <2>1 DEF q
  <2>4. [turn[s] EXCEPT !.questions = turn[s].questions \cup {q}] \in TurnRecord
    BY <1>0, <2>2 DEF TurnRecord
  <2>5. turn' \in [Sessions -> TurnRecord]
    BY <1>0, <2>3, <2>4
  <2> QED
    BY <1>2, <2>5 DEF Ask, Typed, ledger, outlet, faults
<1>3. CASE Reply(s)
  <2>1. PICK c \in Put(s) : turn' = [turn EXCEPT ![s].replies = @ \cup {c}]
    BY <1>3 DEF Reply
  <2>2. Put(s) \subseteq QuestionCall
    <3>1. {[req |-> q.req, turn |-> turn[s].n] : q \in turn[s].questions} \subseteq QuestionCall
      BY <1>0 DEF TurnRecord, Question, QuestionCall
    <3>2. \A n \in 1..Len(mail[s]) :
             {[req |-> q.req, turn |-> n] : q \in mail[s][n].questions} \subseteq QuestionCall
      <4>1. \A n \in 1..Len(mail[s]) : mail[s][n] \in Transcript /\ n \in Nat
        BY <1>0
      <4> QED
        BY <4>1 DEF Transcript, Question, QuestionCall
    <3> QED
      BY <3>1, <3>2 DEF Put
  <2>3. turn' = [turn EXCEPT ![s] = [turn[s] EXCEPT !.replies = turn[s].replies \cup {c}]]
    BY <2>1
  <2>4. [turn[s] EXCEPT !.replies = turn[s].replies \cup {c}] \in TurnRecord
    BY <1>0, <2>1, <2>2 DEF TurnRecord
  <2>5. turn' \in [Sessions -> TurnRecord]
    BY <1>0, <2>3, <2>4
  <2> QED
    BY <1>3, <2>5 DEF Reply, Typed, ledger, outlet, faults
<1>4. CASE EndTurn(s)
  <2> DEFINE t == [questions |-> turn[s].questions, replies |-> turn[s].replies]
  <2>1. t \in Transcript /\ turn[s].n \in Nat
    BY <1>0 DEF TurnRecord, Transcript
  <2> HIDE DEF t
  <2>2. mail' = [mail EXCEPT ![s] = Append(mail[s], t)] /\ turn' = [turn EXCEPT ![s] = NoTurn(turn[s].n)]
    BY <1>4 DEF EndTurn, t
  <2>3. Append(mail[s], t) \in Seq(Transcript)
    BY <1>0, <2>1
  <2>4. mail' \in [Sessions -> Seq(Transcript)]
    BY <2>2, <2>3 DEF Typed
  <2>5. turn' \in [Sessions -> TurnRecord]
    BY <1>0, <2>1, <2>2, EmptyThings
  <2> QED
    BY <1>4, <2>4, <2>5 DEF EndTurn, Typed, ledger, outlet, faults
<1> QED
  BY <1>1, <1>2, <1>3, <1>4


\* The transcript being observed is one of the session's.
LEMMA BatchIs ==
    ASSUME Typed, Observing, obs.step # "idle"
    PROVE  /\ obs.session \in Sessions
           /\ Batch(obs.session) \in Transcript
           /\ done[obs.session] + 1 \in 1..Len(mail[obs.session])
           /\ obs.step \in Settling => obs.todo \subseteq Question
           /\ obs.step \in Settling \ {"next"} => Req \in Requests /\ obs.q \in Question
           /\ Call \in SessionCall
           /\ \A e \in Requests : Answer(e) \in SessionAnswer
<1>1. /\ obs.session \in Sessions /\ done[obs.session] < Len(mail[obs.session])
      /\ mail[obs.session] \in Seq(Transcript) /\ done[obs.session] \in Nat
  BY DEF Observing, Typed
<1>2. done[obs.session] + 1 \in 1..Len(mail[obs.session])
  BY <1>1
<1>3. Batch(obs.session) \in Transcript
  BY <1>1, <1>2 DEF Batch
<1>4. /\ obs.step \in Settling => obs.todo \subseteq Question
      /\ obs.step \in Settling \ {"next"} => obs.q \in Question
  BY <1>3 DEF Observing, Transcript
<1>5. Call \in SessionCall /\ \A e \in Requests : Answer(e) \in SessionAnswer
  BY <1>1 DEF Call, SessionCall, Answer, SessionAnswer
<1> QED
  BY <1>1, <1>2, <1>3, <1>4, <1>5 DEF Question, Req

\* The steps of the observer.
LEMMA ObserveTyped ==
    ASSUME Typed, Observing,
           \/ \E s \in Sessions : ObserveStart(s)
           \/ SettleQuestion \/ RecordSpoken \/ MarkSpoken \/ DropOpen \/ RecordAnswer
           \/ TakeReply \/ WriteReply \/ ReleaseUnasked \/ ObserveEnd
           \/ RecordFails \/ ObserveFails \/ ObserveAgain
    PROVE  Typed'
<1>0. /\ obs \in ObsRecord /\ NoClaim \in ClaimRecord /\ claim \in [Requests -> ClaimRecord]
      /\ NoObs \in ObsRecord
  BY EmptyThings DEF Typed
<1>a. \A c \in ClaimRecord : Said(c) \in ClaimRecord
  BY SaidIs
<1>b. ASSUME NEW step \in Settling \cup {"idle", "respond", "end"}, To(step)
      PROVE  obs' \in ObsRecord
  BY <1>0, <1>b DEF To, ObsRecord
<1>1. ASSUME NEW s \in Sessions, ObserveStart(s)
      PROVE  Typed'
  <2>1. Batch(s) \in Transcript
    <3>1. done[s] < Len(mail[s]) /\ mail[s] \in Seq(Transcript) /\ done[s] \in Nat
      BY <1>1 DEF ObserveStart, Typed
    <3>2. done[s] + 1 \in 1..Len(mail[s])
      BY <3>1
    <3> QED
      BY <3>1, <3>2 DEF Batch
  <2> DEFINE t == {q \in Batch(s).questions : s \in Holders(claim[q.req])}
  <2>2. t \in SUBSET (Question \cup Nat)
    BY <2>1 DEF Transcript
  <2> HIDE DEF t
  <2>3. obs' = [NoObs EXCEPT !.session = s, !.step = "next", !.todo = t]
    BY <1>1 DEF ObserveStart, t
  <2>4. obs' \in ObsRecord
    BY <2>2, <2>3 DEF ObsRecord, NoObs, NoQuestion, Settling
  <2> QED
    BY <1>1, <2>4 DEF ObserveStart, Typed, ledger, outlet, hosts, faults
<1>2. CASE SettleQuestion
  <2>1. PICK q \in obs.todo :
           /\ \E step \in {"drop", "next", "record"} :
                 obs' = [obs EXCEPT !.todo = @ \ {q}, !.q = q, !.step = step]
           /\ claim' = [claim EXCEPT ![q.req] = NoClaim] \/ UNCHANGED claim
    BY <1>2 DEF SettleQuestion
  <2>2. q \in Question
    BY <1>2, <2>1, BatchIs DEF SettleQuestion, Settling
  <2>3. obs' \in ObsRecord
    <3>1. PICK step \in {"drop", "next", "record"} :
             obs' = [obs EXCEPT !.todo = obs.todo \ {q}, !.q = q, !.step = step]
      BY <2>1
    <3>2. q \in [req : Requests \cup {"none"}, late : BOOLEAN, answered : BOOLEAN]
      BY <2>2 DEF Question
    <3>3. obs.todo \ {q} \in SUBSET (Question \cup Nat)
      BY <1>0 DEF ObsRecord
    <3> QED
      BY <1>0, <3>1, <3>2, <3>3 DEF ObsRecord, Settling
  <2>4. claim' \in [Requests -> ClaimRecord]
    BY <1>0, <2>1
  <2> QED
    BY <1>2, <2>3, <2>4 DEF SettleQuestion, Typed, ledger, hosts, faults
<1>3. CASE RecordSpoken
  <2>1. Req \in Requests /\ Call \in SessionCall
    BY <1>3, BatchIs DEF RecordSpoken, Settling
  <2>2. CASE spoken[Req] = {}
    <3>1. spoken' = [spoken EXCEPT ![Req] = {Call}] /\ UNCHANGED claim /\ To("mark")
      BY <1>3, <2>2 DEF RecordSpoken
    <3>2. obs' \in ObsRecord
      BY <1>b, <3>1 DEF Settling
    <3>3. spoken' \in [Requests -> SUBSET SessionCall]
      BY <2>1, <3>1 DEF Typed
    <3> QED
      BY <1>3, <3>1, <3>2, <3>3 DEF RecordSpoken, Typed, hosts, faults
  <2>3. CASE spoken[Req] # {}
    <3>1. claim' = [claim EXCEPT ![Req] = Said(claim[Req])] /\ UNCHANGED spoken /\ To("next")
      BY <1>3, <2>3 DEF RecordSpoken
    <3>2. obs' \in ObsRecord
      BY <1>b, <3>1 DEF Settling
    <3>3. claim' \in [Requests -> ClaimRecord]
      BY <1>0, <1>a, <2>1, <3>1
    <3> QED
      BY <1>3, <3>1, <3>2, <3>3 DEF RecordSpoken, Typed, hosts, faults
  <2> QED
    BY <2>2, <2>3
<1>4. CASE MarkSpoken
  <2>1. Req \in Requests
    BY <1>4, BatchIs DEF MarkSpoken, Settling
  <2>2. claim' = [claim EXCEPT ![Req] = Said(claim[Req])]
    BY <1>4 DEF MarkSpoken
  <2>3. claim' \in [Requests -> ClaimRecord]
    BY <1>0, <1>a, <2>1, <2>2
  <2>4. obs' \in ObsRecord
    BY <1>4, <1>b DEF MarkSpoken, Settling
  <2> QED
    BY <1>4, <2>3, <2>4 DEF MarkSpoken, Typed, ledger, hosts, faults
<1>5. CASE DropOpen
  <2>1. obs' \in ObsRecord
    <3>1. To("answer") \/ To("next")
      BY <1>5 DEF DropOpen
    <3> QED
      BY <1>b, <3>1 DEF Settling
  <2> QED
    BY <1>5, <2>1 DEF DropOpen, Typed, ledger, hosts, faults
<1>6. CASE RecordAnswer
  <2>1. obs' \in ObsRecord
    BY <1>6, <1>b DEF RecordAnswer, Settling
  <2>2. Answer(Req) \in SessionAnswer
    BY <1>6, BatchIs DEF RecordAnswer, Settling
  <2>3. asked' \in SUBSET SessionAnswer /\ response' \in SUBSET SessionAnswer
    BY <1>6, <2>2 DEF RecordAnswer, Typed
  <2> QED
    BY <1>6, <2>1, <2>3 DEF RecordAnswer, Typed, hosts, faults
<1>7. CASE TakeReply
  <2>1. PICK a \in Matched :
           /\ asked' = asked \ {a}
           /\ obs' = [obs EXCEPT !.step = "respond", !.q = [NoQuestion EXCEPT !.req = a.req],
                                 !.todo = {a.turn}]
    BY <1>7 DEF TakeReply
  <2>2. a \in SessionAnswer
    BY <2>1 DEF Matched, Typed
  <2>3. a.req \in Requests /\ a.turn \in Nat
    BY <2>2 DEF SessionAnswer
  <2>4. obs' \in ObsRecord
    BY <1>0, <2>1, <2>3 DEF ObsRecord, NoQuestion
  <2>5. asked' \in SUBSET SessionAnswer
    BY <2>1 DEF Typed
  <2> QED
    BY <1>7, <2>4, <2>5 DEF TakeReply, Typed, ledger, hosts, faults
<1>8. CASE WriteReply
  <2>1. obs.todo \subseteq Nat /\ Req \in Requests /\ obs.session \in Sessions
    BY <1>8 DEF WriteReply, Observing
  <2>2. response' = response \cup {[req |-> Req, session |-> obs.session, turn |-> n] : n \in obs.todo}
    BY <1>8 DEF WriteReply
  <2>3. response' \in SUBSET SessionAnswer
    BY <2>1, <2>2 DEF SessionAnswer, Typed
  <2>4. obs' \in ObsRecord
    BY <1>0, <1>8 DEF WriteReply, ObsRecord, Settling
  <2> QED
    BY <1>8, <2>3, <2>4 DEF WriteReply, Typed, outlet, hosts, faults
<1>9. CASE ReleaseUnasked
  <2>1. obs' \in ObsRecord
    BY <1>9, <1>b DEF ReleaseUnasked
  <2>2. obs.session \in Sessions
    BY <1>9, BatchIs DEF ReleaseUnasked
  <2>3. claim' \in [Requests -> ClaimRecord]
    <3>1. claim' = [e \in Requests |->
              IF claim[e].holder.session = obs.session /\ claim[e].holder.turn <= Call.turn
              THEN Released(claim[e]) ELSE claim[e]]
      BY <1>9 DEF ReleaseUnasked
    <3>2. \A e \in Requests : claim[e].holder.session = obs.session => Released(claim[e]) \in ClaimRecord
      BY <1>0, <2>2, ReleasedIs
    <3> QED
      BY <1>0, <3>1, <3>2
  <2> QED
    BY <1>9, <2>1, <2>3 DEF ReleaseUnasked, Typed, ledger, hosts, faults
<1>10. CASE ObserveEnd
  <2>1. done' = [done EXCEPT ![obs.session] = done[obs.session] + 1] /\ done' \in [Sessions -> Nat]
    BY <1>10, BatchIs DEF ObserveEnd, Typed
  <2> QED
    BY <1>0, <1>10, <2>1 DEF ObserveEnd, Typed, ledger, outlet, hosts, faults
<1>11. CASE RecordFails
  <2>1. obs' \in ObsRecord
    BY <1>0, <1>11 DEF RecordFails, ObsRecord, Settling
  <2>2. refused' \in Nat
    BY <1>11 DEF RecordFails, Typed
  <2> QED
    BY <1>11, <2>1, <2>2 DEF RecordFails, Typed, ledger, outlet, hosts
<1>12. CASE ObserveFails
  <2>1. obs' \in ObsRecord
    BY <1>12, <1>b DEF ObserveFails
  <2>2. refused' \in Nat
    BY <1>12 DEF ObserveFails, Typed
  <2> QED
    BY <1>12, <2>1, <2>2 DEF ObserveFails, Typed, ledger, outlet, hosts
<1>13. CASE ObserveAgain
  BY <1>0, <1>13 DEF ObserveAgain, Typed, ledger, outlet, hosts
<1> QED
  BY <1>1, <1>2, <1>3, <1>4, <1>5, <1>6, <1>7, <1>8, <1>9, <1>10, <1>11, <1>12, <1>13


LEMMA NextTyped == Typed /\ Observing /\ [Next]_vars => Typed'
<1> SUFFICES ASSUME Typed, Observing, [Next]_vars PROVE Typed'
  OBVIOUS
<1>1. CASE UNCHANGED vars
  BY <1>1 DEF vars, ledger, outlet, hosts, faults, Typed
<1>2. CASE TickPublish \/ Pass \/ Night \/ HostsGone \/ Seen \/ Crash \/ \E e \in Requests : LeaseLapses(e)
  BY <1>2, OutsideTyped
<1>3. CASE TickStep \/ TickDefer \/ TickFail
  BY <1>2, <1>3, TickTyped DEF TickStep
<1>4. CASE HostStep
  BY <1>4, HostTyped DEF HostStep
<1>5. CASE ObserveStep \/ RecordFails \/ ObserveFails \/ ObserveAgain
  BY <1>5, ObserveTyped DEF ObserveStep
<1> QED
  BY <1>1, <1>2, <1>3, <1>4, <1>5 DEF Next


----------------------------------------------------------------------------
(* The tick and the moments are kept.                                      *)

\* Steps that decide nothing.
Quiet ==
    /\ reason' = reason /\ now' \in Nat /\ now <= now'
    /\ tick' = tick \/ tick' = NoTick \/ \E e \in Requests : tick' = [tick EXCEPT !.close = @ \ {e}]

Deciding == TickRead \/ TickAwait \/ TickSubsume \/ TickClose \/ TickOpen

LEMMA ObserverIsQuiet ==
    ASSUME ObserveStep \/ RecordFails \/ ObserveFails \/ ObserveAgain
    PROVE  /\ UNCHANGED <<reason, voices, tick, now, hosts, alive, seen, crashes>>
           /\ open' \subseteq open
<1>1. CASE \E s \in Sessions : ObserveStart(s)
  BY <1>1 DEF ObserveStart, ledger, outlet, faults
<1>2. CASE SettleQuestion \/ RecordSpoken \/ MarkSpoken
  BY <1>2 DEF SettleQuestion, RecordSpoken, MarkSpoken, ledger, faults
<1>3. CASE DropOpen \/ RecordAnswer \/ TakeReply
  BY <1>3 DEF DropOpen, RecordAnswer, TakeReply, ledger, faults
<1>4. CASE WriteReply \/ ReleaseUnasked \/ ObserveEnd
  BY <1>4 DEF WriteReply, ReleaseUnasked, ObserveEnd, ledger, outlet, faults
<1>5. CASE RecordFails \/ ObserveFails \/ ObserveAgain
  BY <1>5 DEF RecordFails, ObserveFails, ObserveAgain, ledger, outlet
<1> QED
  BY <1>1, <1>2, <1>3, <1>4, <1>5 DEF ObserveStep

LEMMA HostIsQuiet ==
    ASSUME NEW s \in Sessions, Prompt(s) \/ Ask(s) \/ Reply(s) \/ EndTurn(s)
    PROVE  UNCHANGED <<ledger, open, voices, tick, obs, done, now, seen, faults>>
BY DEF Prompt, Ask, Reply, EndTurn, outlet

LEMMA QuietSteps ==
    ASSUME Typed, [Next]_vars
    PROVE  /\ Quiet \/ Deciding
           /\ TickPublish \/ open' \subseteq open
           /\ lost \subseteq lost'
<1>1. CASE UNCHANGED vars
  BY <1>1 DEF vars, ledger, outlet, voices, hosts, faults, Quiet, Typed
<1>2. CASE TickPublish
  BY <1>2 DEF TickPublish, ledger, voices, Quiet, Typed
<1>3. CASE Pass \/ Night \/ HostsGone \/ Seen \/ Crash \/ \E e \in Requests : LeaseLapses(e)
  BY <1>3 DEF Pass, Night, voices, HostsGone, Seen, Crash, LeaseLapses, ledger, outlet, Quiet, Typed
<1>4. CASE Deciding
  BY <1>4 DEF Deciding, TickRead, TickAwait, TickSubsume, TickClose, TickOpen, outlet, voices
<1>5. CASE TickDefer
  <2>1. PICK e \in tick.close \ tick.seen : tick' = [tick EXCEPT !.close = @ \ {e}]
    BY <1>5 DEF TickDefer
  <2>2. e \in Requests
    BY DEF Typed, TickRecord
  <2>3. UNCHANGED <<reason, now, open, lost>> /\ now \in Nat
    BY <1>5 DEF TickDefer, ledger, outlet, voices, Typed
  <2>4. \E f \in Requests : tick' = [tick EXCEPT !.close = @ \ {f}]
    BY <2>1, <2>2
  <2>5. reason' = reason /\ now' \in Nat /\ now <= now'
    BY <2>3
  <2>6. Quiet
    BY <2>4, <2>5, Zenon DEF Quiet
  <2> QED
    BY <2>3, <2>6
<1>6. CASE TickFail
  BY <1>6 DEF TickFail, ledger, outlet, voices, Quiet, Typed
<1>7. CASE HostStep
  BY <1>7, HostIsQuiet DEF HostStep, Quiet, Typed, ledger, voices
<1>8. CASE ObserveStep \/ RecordFails \/ ObserveFails \/ ObserveAgain
  BY <1>8, ObserverIsQuiet DEF Quiet, Typed, voices
<1> QED
  BY <1>1, <1>2, <1>3, <1>4, <1>5, <1>6, <1>7, <1>8 DEF Next, TickStep, Deciding

\* A tick decides about one expectation after the other, and an expectation is
\* in one part of its plan only.
LEMMA PlannedKept ==
    ASSUME Typed, Planned, Quiet \/ Deciding
    PROVE  Planned'
<1>0. tick \in TickRecord /\ reason \in [Requests -> Reasons] /\ now \in Nat
  BY DEF Typed
<1>1. CASE Quiet
  <2>1. CASE tick' = NoTick
    BY <1>1, <2>1, <1>0 DEF Quiet, Planned, NoTick
  <2>2. CASE tick' = tick
    BY <1>1, <2>2, <1>0 DEF Quiet, Planned, Late, TickRecord
  <2>3. ASSUME NEW e \in Requests, tick' = [tick EXCEPT !.close = @ \ {e}]
        PROVE  Planned'
    <3>1. /\ tick'.at = tick.at /\ tick'.todo = tick.todo /\ tick'.joins = tick.joins
          /\ tick'.close = tick.close \ {e} /\ tick'.opens = tick.opens
          /\ tick'.wait = tick.wait /\ tick'.fresh = tick.fresh /\ tick'.seen = tick.seen
      BY <1>0, <2>3 DEF TickRecord
    <3> QED
      BY <1>1, <3>1, <1>0 DEF Quiet, Planned, Late, TickRecord
  <2> QED
    BY <1>1, <2>1, <2>2, <2>3 DEF Quiet
<1>2. CASE TickRead
  <2>1. PICK C, H, O, J : Read(C, H, O, J)
    BY <1>2, ReadPicks
  <2>2. UNCHANGED <<reason, now>>
    BY <1>2 DEF TickRead, ledger
  <2>3. /\ tick'.at = now /\ tick'.todo = {e \in Requests : Awaiting(e)}
        /\ tick'.joins = J /\ tick'.close = C \cup H /\ tick'.opens = O
        /\ tick'.wait = {e \in Requests : Awaiting(e)} /\ tick'.fresh = {}
    BY <2>1 DEF Read
  <2>4. \A e \in H : reason[e] = "unit"
    BY <2>1 DEF Read, Heirs
  <2> QED
    BY <1>0, <2>1, <2>2, <2>3, <2>4 DEF Planned, Read, Awaiting
<1>3. CASE TickAwait
  <2>1. PICK e \in tick.todo : /\ reason' = [reason EXCEPT ![e] = OnAwaiting(e)]
                               /\ tick' = [tick EXCEPT !.todo = @ \ {e}]
    BY <1>3 DEF TickAwait, Decide
  <2>2. /\ tick'.at = tick.at /\ tick'.todo = tick.todo \ {e} /\ tick'.joins = tick.joins
        /\ tick'.close = tick.close /\ tick'.opens = tick.opens
        /\ tick'.wait = tick.wait /\ tick'.fresh = tick.fresh /\ tick'.seen = tick.seen
    BY <1>0, <2>1 DEF TickRecord
  <2>3. /\ e \in Requests /\ reason[e] = "awaiting"
        /\ ~Late(e, tick.at) /\ e \notin tick.seen => OnAwaiting(e) = "awaiting"
    BY <1>0, <2>1 DEF TickRecord, Planned, OnAwaiting
  <2>4. \A f \in Requests : f # e => reason'[f] = reason[f]
    BY <1>0, <2>1
  <2>5. reason'[e] = OnAwaiting(e) /\ UNCHANGED now
    BY <1>0, <1>3, <2>1, <2>3 DEF TickAwait
  <2>6. \A f \in Requests : reason'[f] = "unit" => BasisOf[f] # f
    BY <2>3, <2>4, <2>5 DEF Planned, OnAwaiting
  <2> HIDE DEF Late
  <2> QED
    BY <1>0, <2>2, <2>3, <2>4, <2>5, <2>6 DEF Planned, TickRecord, Late
<1>4. CASE TickSubsume
  <2>1. /\ reason' = [e \in Requests |-> IF e \in tick.joins THEN "unit" ELSE reason[e]]
        /\ tick' = [tick EXCEPT !.joins = {}] /\ UNCHANGED now
    BY <1>4 DEF TickSubsume
  <2>2. /\ tick'.at = tick.at /\ tick'.todo = tick.todo /\ tick'.joins = {}
        /\ tick'.close = tick.close /\ tick'.opens = tick.opens
        /\ tick'.wait = tick.wait /\ tick'.fresh = tick.fresh /\ tick'.seen = tick.seen
    BY <1>0, <2>1 DEF TickRecord
  <2>3. \A f \in Requests : f \notin tick.joins => reason'[f] = reason[f]
    BY <2>1
  <2> QED
    BY <1>0, <2>1, <2>2, <2>3 DEF Planned, TickRecord, Late
<1>5. CASE TickClose
  <2>0. PICK e \in tick.close : \E r \in OnClosing(e) :
             /\ Decide(e, r)
             /\ tick' = [tick EXCEPT !.close = @ \ {e},
                                     !.fresh = IF r = "awaiting" THEN @ \cup {e} ELSE @]
    BY <1>5 DEF TickClose
  <2>1. PICK r \in OnClosing(e) :
             /\ reason' = [reason EXCEPT ![e] = r]
             /\ tick' = [tick EXCEPT !.close = @ \ {e},
                                     !.fresh = IF r = "awaiting" THEN @ \cup {e} ELSE @]
    BY <2>0 DEF Decide
  <2>2. /\ tick'.at = tick.at /\ tick'.todo = {} /\ tick'.joins = {}
        /\ tick'.close = tick.close \ {e} /\ tick'.opens = tick.opens
        /\ tick'.wait = tick.wait /\ tick'.seen = tick.seen
        /\ tick'.fresh = IF r = "awaiting" THEN tick.fresh \cup {e} ELSE tick.fresh
    BY <1>0, <1>5, <2>1 DEF TickRecord, TickClose
  <2>3. e \in Requests /\ reason[e] \in {"pending", "unit"}
    BY <1>0 DEF TickRecord, Planned
  <2>4. \A f \in Requests : f # e => reason'[f] = reason[f]
    BY <1>0, <2>1
  <2>5. reason'[e] = r /\ UNCHANGED now
    BY <1>0, <1>5, <2>1, <2>3 DEF TickClose
  <2>6. \A f \in Requests : reason'[f] = "unit" => BasisOf[f] # f
    BY <2>1, <2>4, <2>5 DEF Planned, OnClosing
  <2> QED
    BY <1>0, <2>2, <2>3, <2>4, <2>5, <2>6 DEF Planned, TickRecord, Late
<1>6. CASE TickOpen
  <2>0. PICK e \in tick.opens : \E r \in OnOpening(e) :
             Decide(e, r) /\ tick' = [tick EXCEPT !.opens = @ \ {e}]
    BY <1>6 DEF TickOpen
  <2>1. PICK r \in OnOpening(e) :
             reason' = [reason EXCEPT ![e] = r] /\ tick' = [tick EXCEPT !.opens = @ \ {e}]
    BY <2>0 DEF Decide
  <2>2. /\ tick'.at = tick.at /\ tick'.todo = {} /\ tick'.joins = {}
        /\ tick'.close = {} /\ tick'.opens = tick.opens \ {e}
        /\ tick'.wait = tick.wait /\ tick'.fresh = tick.fresh /\ tick'.seen = tick.seen
    BY <1>0, <1>6, <2>1 DEF TickRecord, TickOpen
  <2>3. e \in Requests /\ reason[e] = "none"
    BY <1>0 DEF TickRecord, Planned
  <2>4. \A f \in Requests : f # e => reason'[f] = reason[f]
    BY <1>0, <2>1
  <2>5. UNCHANGED now
    BY <1>6 DEF TickOpen
  <2>6. reason'[e] = r
    BY <1>0, <2>1, <2>3
  <2>7. \A f \in Requests : reason'[f] = "unit" => BasisOf[f] # f
    BY <2>1, <2>4, <2>6 DEF Planned, OnOpening
  <2> QED
    BY <1>0, <2>2, <2>3, <2>4, <2>5, <2>7 DEF Planned, TickRecord, Late
<1> QED
  BY <1>1, <1>2, <1>3, <1>4, <1>5, <1>6 DEF Deciding


\* What is over stays over, and only a tick's reading makes a member active.
LEMMA OverStays ==
    ASSUME Typed, Planned, Quiet \/ Deciding, NEW e \in Requests
    PROVE  /\ Over(e) => Over(e)'
           /\ BasisOf[e] # e /\ Active(e)' => Active(e) \/ TickRead
           /\ reason[e] = "happened" => reason'[e] = "happened"
           /\ Late(e, now) => Late(e, now)'
           /\ Elapsed(e, now) => Elapsed(e, now)'
<1>0. /\ tick \in TickRecord /\ reason \in [Requests -> Reasons] /\ now \in Nat
      /\ Deadline[e] \in Nat
  BY BoundsAreNats DEF Typed
<1>1. CASE Quiet
  <2>1. tick'.close \subseteq tick.close \/ tick'.close = {}
    BY <1>0, <1>1 DEF Quiet, NoTick, TickRecord
  <2> QED
    BY <1>0, <1>1, <2>1 DEF Quiet, Over, Active, Late, Elapsed
<1>2. CASE TickRead
  BY <1>2 DEF TickRead, ledger, Over, Late, Elapsed
<1>3. CASE TickAwait
  <2>1. PICK f \in tick.todo : /\ reason' = [reason EXCEPT ![f] = OnAwaiting(f)]
                               /\ tick' = [tick EXCEPT !.todo = @ \ {f}]
    BY <1>3 DEF TickAwait, Decide
  <2>2. f \in Requests /\ reason[f] = "awaiting" /\ tick'.close = tick.close /\ UNCHANGED now
    BY <1>0, <1>3, <2>1 DEF TickRecord, Planned, TickAwait
  <2>3. e # f => reason'[e] = reason[e]
    BY <1>0, <2>1
  <2> QED
    BY <2>2, <2>3 DEF Over, Active, Late, Elapsed
<1>4. CASE TickSubsume
  <2>1. tick'.close = tick.close /\ UNCHANGED now
    BY <1>0, <1>4 DEF TickSubsume, TickRecord
  <2>2. IF e \in tick.joins THEN reason[e] = "none" /\ reason'[e] = "unit"
        ELSE reason'[e] = reason[e]
    BY <1>0, <1>4 DEF TickSubsume, Planned
  <2> QED
    BY <2>1, <2>2 DEF Over, Active, Late, Elapsed
<1>5. CASE TickClose
  <2>0. PICK f \in tick.close : \E r \in OnClosing(f) :
             /\ Decide(f, r)
             /\ tick' = [tick EXCEPT !.close = @ \ {f},
                                     !.fresh = IF r = "awaiting" THEN @ \cup {f} ELSE @]
    BY <1>5 DEF TickClose
  <2>1. PICK r \in OnClosing(f) :
             /\ reason' = [reason EXCEPT ![f] = r]
             /\ tick' = [tick EXCEPT !.close = @ \ {f},
                                     !.fresh = IF r = "awaiting" THEN @ \cup {f} ELSE @]
    BY <2>0 DEF Decide
  <2>2. /\ f \in Requests /\ reason[f] \in {"pending", "unit"} /\ Active(f)
        /\ tick'.close \subseteq tick.close /\ UNCHANGED now
    BY <1>0, <1>5, <2>1 DEF TickRecord, Planned, TickClose, Active
  <2>3. e # f => reason'[e] = reason[e]
    BY <1>0, <2>1
  <2> QED
    BY <2>2, <2>3 DEF Over, Active, Late, Elapsed
<1>6. CASE TickOpen
  <2>0. PICK f \in tick.opens : \E r \in OnOpening(f) :
             Decide(f, r) /\ tick' = [tick EXCEPT !.opens = @ \ {f}]
    BY <1>6 DEF TickOpen
  <2>1. PICK r \in OnOpening(f) :
             reason' = [reason EXCEPT ![f] = r] /\ tick' = [tick EXCEPT !.opens = @ \ {f}]
    BY <2>0 DEF Decide
  <2>2. /\ f \in Requests /\ reason[f] = "none" /\ BasisOf[f] = f
        /\ tick'.close = tick.close /\ UNCHANGED now
    BY <1>0, <1>6, <2>1 DEF TickRecord, Planned, TickOpen
  <2>3. e # f => reason'[e] = reason[e]
    BY <1>0, <2>1
  <2> QED
    BY <2>2, <2>3 DEF Over, Active, Late, Elapsed
<1> QED
  BY <1>1, <1>2, <1>3, <1>4, <1>5, <1>6 DEF Deciding

\* What was not said, and cannot be any more, is over; a basis may have lost
\* its voice instead.
LEMMA UnsaidIsOver ==
    ASSUME NEW e, NEW t, t = now, Unsaid(e, t)
    PROVE  Over(e)
BY DEF Unsaid, Over

LEMMA BasisIsOver ==
    ASSUME Typed, Planned, TickRead, NEW b \in Requests, BasisOf[b] = b, UnsaidBasis(b, now)
    PROVE  Over(b) \/ b \in lost'
<1>1. CASE Unsaid(b, now)
  BY <1>1, UnsaidIsOver
<1>2. CASE b \in mute /\ reason[b] \notin {"none", "happened"}
  <2>1. reason[b] \in Reasons /\ reason[b] # "unit"
    BY DEF Typed, Planned
  <2>2. CASE reason[b] \in {"pending", "awaiting"}
    BY <1>2, <2>2 DEF TickRead
  <2>3. CASE reason[b] \in {"unreachable", "unclaimed", "other"}
    BY <2>3 DEF Over
  <2> QED
    BY <1>2, <2>1, <2>2, <2>3 DEF Reasons
<1> QED
  BY <1>1, <1>2 DEF UnsaidBasis

\* Two of the moment cannot take over in one reading.
LEMMA HeirAlone ==
    ASSUME NEW C, NEW H, NEW O, NEW J, Read(C, H, O, J), NEW e \in H
    PROVE  /\ e \in Requests /\ BasisOf[e] # e /\ e \in Heirs(BasisOf[e], now)
           /\ \A f \in H : BasisOf[f] = BasisOf[e] => f = e
<1>1. PICK c \in Requests : e \in Heirs(c, now)
  BY DEF Read
<1>2. e \in Members(c) /\ c = BasisOf[e] /\ BasisOf[e] # e /\ e \in Requests
  BY <1>1 DEF Heirs, Members
<1>3. ASSUME NEW f \in H, BasisOf[f] = BasisOf[e]
      PROVE  f = e
  <2>1. f \in Members(c)
    <3>1. PICK d \in Requests : f \in Heirs(d, now)
      BY DEF Read
    <3> QED
      BY <1>2, <1>3, <3>1 DEF Heirs, Members
  <2> DEFINE S == H \cap Members(c)
  <2>2. Cardinality(S) <= 1
    BY <1>2 DEF Read, Handover
  <2>3. IsFiniteSet(S)
    BY FS_Subset, OutletAssumption DEF Read
  <2>4. e \in S /\ f \in S
    BY <1>2, <2>1
  <2> HIDE DEF S
  <2>5. Cardinality(S) \in Nat /\ Cardinality(S) # 0
    BY <2>3, <2>4, FS_CardinalityType, FS_EmptySet
  <2>6. Cardinality(S) = 1
    BY <2>2, <2>5
  <2> QED
    BY <2>3, <2>4, <2>6, FS_Singleton
<1> QED
  BY <1>1, <1>2, <1>3

LEMMA SuccessionKept ==
    ASSUME Typed, Planned, Succession, Quiet \/ Deciding, lost \subseteq lost'
    PROVE  Succession'
<1>1. CASE ~TickRead
  <2> SUFFICES ASSUME NEW e \in Requests, NEW f \in Requests, e # f, BasisOf[e] = BasisOf[f],
                      BasisOf[e] # e, Active(e)'
               PROVE  IF BasisOf[f] = f THEN Over(f)' \/ f \in lost'
                      ELSE Active(f)' => Over(e)' \/ Over(f)'
    BY DEF Succession
  <2>1. Active(e) /\ (Over(e) => Over(e)') /\ (Over(f) => Over(f)')
        /\ (BasisOf[f] # f /\ Active(f)' => Active(f))
    BY <1>1, OverStays
  <2>2. IF BasisOf[f] = f THEN Over(f) \/ f \in lost ELSE Active(f) => Over(e) \/ Over(f)
    BY <2>1 DEF Succession
  <2> QED
    BY <2>1, <2>2
<1>2. CASE TickRead
  <2>0. UNCHANGED <<reason, spoken, now>>
    BY <1>2 DEF TickRead, ledger
  <2>1. PICK C, H, O, J : Read(C, H, O, J)
    BY <1>2, ReadPicks
  <2>2. tick'.close = C \cup H /\ \A c \in C : reason[c] = "pending"
    BY <2>1 DEF Read
  <2>3. \A e \in Requests : /\ Over(e)' = Over(e)
                            /\ Active(e)' => e \in H \/ Active(e)
                            /\ Active(e)' /\ e \notin H => reason[e] \notin {"none", "unit"}
    BY <2>0, <2>2 DEF Over, Active, Late
  <2> SUFFICES ASSUME NEW e \in Requests, NEW f \in Requests, e # f, BasisOf[e] = BasisOf[f],
                      BasisOf[e] # e, Active(e)'
               PROVE  IF BasisOf[f] = f THEN Over(f) \/ f \in lost'
                      ELSE Active(f)' => Over(e) \/ Over(f)
    BY <2>3 DEF Succession
  <2>4. CASE e \in H
    <3>1. e \in Heirs(BasisOf[e], now) /\ (f \in H => f = e)
      BY <2>1, <2>4, HeirAlone
    <3>2. UnsaidBasis(BasisOf[e], now)
          /\ \A n \in Members(BasisOf[e]) : reason[n] \in {"none", "unit"} \/ Unsaid(n, now)
      BY <3>1 DEF Heirs
    <3>3. BasisOf[f] = f => Over(f) \/ f \in lost'
      BY <1>2, <3>2, BasisIsOver
    <3>4. BasisOf[f] # f /\ Active(f)' => Over(f)
      BY <2>3, <3>1, <3>2, UnsaidIsOver DEF Members
    <3> QED
      BY <3>3, <3>4
  <2>5. CASE e \notin H
    <3>1. Active(e) /\ reason[e] \notin {"none", "unit"}
      BY <2>3, <2>5
    <3>2. CASE f \notin H
      <4>1. Active(f)' => Active(f)
        BY <2>3, <3>2
      <4> QED
        BY <3>1, <4>1 DEF Succession
    <3>3. CASE f \in H
      <4>1. f \in Heirs(BasisOf[f], now) /\ BasisOf[f] # f
        BY <2>1, <3>3, HeirAlone
      <4>2. \A n \in Members(BasisOf[f]) : reason[n] \in {"none", "unit"} \/ Unsaid(n, now)
        BY <4>1 DEF Heirs
      <4>3. e \in Members(BasisOf[f])
        BY DEF Members
      <4>4. Unsaid(e, now)
        BY <3>1, <4>2, <4>3
      <4> QED
        BY <4>1, <4>4, UnsaidIsOver
    <3> QED
      BY <3>2, <3>3
  <2> QED
    BY <2>4, <2>5
<1> QED
  BY <1>1, <1>2

LEMMA ListKept ==
    ASSUME Typed, Planned, Succession, OneOpenPerMoment, Quiet \/ Deciding,
           lost \subseteq lost', TickPublish \/ open' \subseteq open
    PROVE  OneOpenPerMoment'
<1>0. open \subseteq Requests
  BY DEF Typed
<1>1. CASE open' \subseteq open
  <2>1. \A e \in open : Late(e, now) => Late(e, now)'
    BY <1>0, OverStays
  <2> QED
    BY <1>1, <2>1 DEF OneOpenPerMoment
<1>2. CASE TickPublish
  <2>1. open' = Published /\ UNCHANGED now
    BY <1>2 DEF TickPublish
  <2>2. \A e \in Published : e \in Requests /\ reason[e] = "awaiting"
    BY DEF Published, Planned, Typed, TickRecord
  <2>3. \A e \in Published : Active(e) /\ (Over(e) => Late(e, now))
    BY <2>2 DEF Active, Over
  <2> SUFFICES ASSUME NEW e \in Published, NEW f \in Published, e # f, BasisOf[e] = BasisOf[f]
               PROVE  Late(e, now) \/ Late(f, now) \/ {e, f} \cap lost # {}
    BY <2>1 DEF OneOpenPerMoment, Late
  <2>4. e \in Requests /\ f \in Requests
    BY <2>2
  <2>5. BasisOf[e] # e \/ BasisOf[f] # f
    OBVIOUS
  <2> QED
    BY <2>3, <2>4, <2>5 DEF Succession
<1> QED
  BY <1>1, <1>2


----------------------------------------------------------------------------
(* Questions, transcripts and claims.                                      *)

LEMMA AskableStays ==
    ASSUME NEW s, NEW Q, NEW given, NEW more, NEW t \in Nat, NEW u \in Nat,
           given \subseteq more, given \subseteq Requests, t <= u, Askable(s, Q, given, t)
    PROVE  Askable(s, Q, more, u)
BY LateIs DEF Askable

\* Who is not in turn stands still; transcripts are only appended.
HostKept(s) ==
    /\ turn'[s] = turn[s] /\ known'[s] = known[s] /\ mail'[s] = mail[s]

MailKept(s) ==
    /\ known[s] \subseteq known'[s]
    /\ Len(mail[s]) <= Len(mail'[s])
    /\ \A n \in 1..Len(mail[s]) : mail'[s][n] = mail[s][n]

LEMMA HostsStill ==
    ASSUME [Next]_vars, ~HostStep
    PROVE  UNCHANGED hosts
<1>1. CASE ObserveStep \/ RecordFails \/ ObserveFails \/ ObserveAgain
  BY <1>1, ObserverIsQuiet
<1>2. CASE TickStep \/ TickDefer \/ TickFail
  BY <1>2 DEF TickStep, TickRead, TickAwait, TickSubsume, TickClose, TickOpen, TickPublish,
              TickDefer, TickFail
<1>3. CASE Pass \/ Night \/ HostsGone \/ Seen \/ Crash \/ \E e \in Requests : LeaseLapses(e)
  BY <1>3 DEF Pass, Night, HostsGone, Seen, Crash, LeaseLapses
<1>4. CASE UNCHANGED vars
  BY <1>4 DEF vars
<1> QED
  BY <1>1, <1>2, <1>3, <1>4 DEF Next

LEMMA MailGrows ==
    ASSUME Typed, [Next]_vars, NEW s \in Sessions
    PROVE  MailKept(s)
<1>0. mail \in [Sessions -> Seq(Transcript)] /\ known \in [Sessions -> SUBSET Requests]
      /\ Len(mail[s]) \in Nat
  BY DEF Typed
<1>1. CASE mail'[s] = mail[s] /\ known'[s] = known[s]
  BY <1>0, <1>1 DEF MailKept
<1>2. CASE ~HostStep
  BY <1>1, <1>2, HostsStill DEF hosts
<1>3. ASSUME NEW p \in Sessions, Prompt(p)
      PROVE  MailKept(s)
  <2>1. PICK given \in SUBSET Requests :
           known' = [known EXCEPT ![p] = @ \cup {e \in given : claim'[e].holder.turn = turn[p].n + 1}]
    BY <1>3, PromptIs
  <2>2. known[s] \subseteq known'[s]
    BY <1>0, <2>1
  <2> QED
    BY <1>0, <1>3, <2>2 DEF Prompt, MailKept
<1>4. ASSUME NEW p \in Sessions, Ask(p) \/ Reply(p)
      PROVE  MailKept(s)
  BY <1>1, <1>4 DEF Ask, Reply
<1>5. ASSUME NEW p \in Sessions, EndTurn(p)
      PROVE  MailKept(s)
  <2> DEFINE t == [questions |-> turn[p].questions, replies |-> turn[p].replies]
  <2>1. mail' = [mail EXCEPT ![p] = Append(mail[p], t)] /\ UNCHANGED known
    BY <1>5 DEF EndTurn
  <2> HIDE DEF t
  <2>2. CASE p = s
    <3>1. mail'[s] = Append(mail[s], t) /\ mail[s] \in Seq(Transcript)
      BY <1>0, <2>1, <2>2
    <3>2. Len(mail'[s]) = Len(mail[s]) + 1 /\ \A n \in 1..Len(mail[s]) : mail'[s][n] = mail[s][n]
      BY <3>1
    <3> QED
      BY <1>0, <2>1, <3>2 DEF MailKept
  <2>3. CASE p # s
    BY <1>0, <1>1, <2>1, <2>3
  <2> QED
    BY <2>2, <2>3
<1> QED
  BY <1>2, <1>3, <1>4, <1>5 DEF HostStep

LEMMA AskingKept ==
    ASSUME Typed, Typed', Asking, [Next]_vars, now <= now'
    PROVE  Asking'
<1> SUFFICES ASSUME NEW s \in Sessions
             PROVE  /\ Askable(s, turn'[s].questions, known'[s], now')
                    /\ \A n \in 1..Len(mail'[s]) :
                          Askable(s, mail'[s][n].questions, known'[s], now')
  BY DEF Asking
<1>0. /\ MailKept(s) /\ known[s] \subseteq Requests /\ now \in Nat /\ now' \in Nat
      /\ turn \in [Sessions -> TurnRecord] /\ mail[s] \in Seq(Transcript)
  BY MailGrows DEF Typed
<1>1. ASSUME NEW Q, Askable(s, Q, known[s], now)
      PROVE  Askable(s, Q, known'[s], now')
  BY <1>0, <1>1, AskableStays DEF MailKept
<1>2. \A n \in 1..Len(mail[s]) : Askable(s, mail'[s][n].questions, known'[s], now')
  BY <1>0, <1>1 DEF Asking, MailKept
<1>3. CASE turn'[s].questions = turn[s].questions /\ mail'[s] = mail[s]
  BY <1>1, <1>2, <1>3 DEF Asking
<1>4. CASE ~HostStep
  BY <1>3, <1>4, HostsStill DEF hosts
<1>5. ASSUME NEW p \in Sessions, Prompt(p)
      PROVE  /\ Askable(s, turn'[s].questions, known'[s], now')
             /\ \A n \in 1..Len(mail'[s]) : Askable(s, mail'[s][n].questions, known'[s], now')
  <2>1. turn' = [turn EXCEPT ![p] = [NoTurn(turn[p].n + 1) EXCEPT !.busy = TRUE]]
    BY <1>5 DEF Prompt
  <2>2. turn'[s].questions = turn[s].questions \/ turn'[s].questions = {}
    BY <1>0, <2>1 DEF NoTurn
  <2>3. mail' = mail
    BY <1>5 DEF Prompt
  <2> QED
    BY <1>1, <1>2, <2>2, <2>3 DEF Asking, Askable
<1>6. ASSUME NEW p \in Sessions, Ask(p)
      PROVE  /\ Askable(s, turn'[s].questions, known'[s], now')
             /\ \A n \in 1..Len(mail'[s]) : Askable(s, mail'[s][n].questions, known'[s], now')
  <2>1. PICK e \in known[p], fixed \in BOOLEAN :
           /\ \A q \in turn[p].questions : q.req # e
           /\ p \in RepliesLater => ~fixed
           /\ turn' = [turn EXCEPT ![p].questions =
                         @ \cup {[req |-> e, late |-> Late(e, now), answered |-> fixed]}]
    BY <1>6 DEF Ask
  <2>2. UNCHANGED <<known, mail, now>>
    BY <1>6 DEF Ask
  <2>3. CASE p # s
    BY <1>0, <1>3, <2>1, <2>2, <2>3
  <2>4. CASE p = s
    <3> DEFINE q == [req |-> e, late |-> Late(e, now), answered |-> fixed]
    <3>1. turn'[s].questions = turn[s].questions \cup {q}
      BY <1>0, <2>1, <2>4 DEF TurnRecord
    <3>2. q.req = e /\ (q.late => Late(e, now)) /\ q.answered = fixed
      OBVIOUS
    <3> HIDE DEF q
    <3>3. Askable(s, turn[s].questions, known[s], now)
      BY DEF Asking
    <3>4. Askable(s, turn[s].questions \cup {q}, known[s], now)
      BY <2>1, <2>4, <3>2, <3>3 DEF Askable
    <3> QED
      BY <1>2, <2>2, <3>1, <3>4
  <2> QED
    BY <2>3, <2>4
<1>7. ASSUME NEW p \in Sessions, Reply(p)
      PROVE  /\ Askable(s, turn'[s].questions, known'[s], now')
             /\ \A n \in 1..Len(mail'[s]) : Askable(s, mail'[s][n].questions, known'[s], now')
  <2>1. PICK c : turn' = [turn EXCEPT ![p].replies = @ \cup {c}]
    BY <1>7 DEF Reply
  <2>2. turn'[s].questions = turn[s].questions
    BY <1>0, <2>1 DEF TurnRecord
  <2> QED
    BY <1>3, <1>7, <2>2 DEF Reply
<1>8. ASSUME NEW p \in Sessions, EndTurn(p)
      PROVE  /\ Askable(s, turn'[s].questions, known'[s], now')
             /\ \A n \in 1..Len(mail'[s]) : Askable(s, mail'[s][n].questions, known'[s], now')
  <2> DEFINE t == [questions |-> turn[p].questions, replies |-> turn[p].replies]
  <2>0. t.questions = turn[p].questions
    OBVIOUS
  <2>1. /\ mail' = [mail EXCEPT ![p] = Append(mail[p], t)]
        /\ turn' = [turn EXCEPT ![p] = NoTurn(turn[p].n)]
    BY <1>8 DEF EndTurn
  <2> HIDE DEF t
  <2>2. CASE p # s
    BY <1>0, <1>3, <2>1, <2>2 DEF Typed
  <2>3. CASE p = s
    <3>1. mail'[s] = Append(mail[s], t) /\ turn'[s].questions = {}
      BY <1>0, <2>1, <2>3 DEF Typed, NoTurn
    <3>2. Len(mail'[s]) = Len(mail[s]) + 1 /\ mail'[s][Len(mail[s]) + 1] = t
      BY <1>0, <3>1
    <3>3. Askable(s, t.questions, known'[s], now')
      BY <1>1, <2>0, <2>3 DEF Asking
    <3>4. \A n \in 1..Len(mail'[s]) : n \in 1..Len(mail[s]) \/ n = Len(mail[s]) + 1
      BY <1>0, <3>2
    <3> QED
      BY <1>2, <3>1, <3>2, <3>3, <3>4 DEF Askable
  <2> QED
    BY <2>2, <2>3
<1> QED
  BY <1>4, <1>5, <1>6, <1>7, <1>8 DEF HostStep


\* A sweep takes a record away only when its time is over.
LEMMA SweptKeeps ==
    ASSUME Typed, NEW e \in Requests, NEW t
    PROVE  /\ SweptClaim(e, t).said => claim[e].said
           /\ Elapsed(e, t) \/ Holders(claim[e]) \subseteq Holders(SweptClaim(e, t))
<1> DEFINE c == claim[e]
<1>0. c \in ClaimRecord
  BY DEF Typed
<1>1. CASE Elapsed(e, t)
  BY <1>1 DEF SweptClaim, NoClaim
<1>2. CASE ~Elapsed(e, t) /\ c.holder # NoHolder /\ ~c.holder.live
  <2>1. SweptClaim(e, t) = Expired(c)
    BY <1>2 DEF SweptClaim
  <2> DEFINE h == c.history \cup {[session |-> c.holder.session, turn |-> c.holder.turn,
                                   ended |-> "expired"]}
  <2>2. Expired(c).said = c.said /\ Expired(c).history = h
    BY <1>0, <1>2, ExpiredIs
  <2>3. {x.session : x \in h} = {x.session : x \in c.history} \cup {c.holder.session}
    BY StayAdded, Zenon
  <2> HIDE DEF h
  <2> QED
    BY <2>1, <2>2, <2>3 DEF Holders
<1>3. CASE ~Elapsed(e, t) /\ ~(c.holder # NoHolder /\ ~c.holder.live)
  <2>1. SweptClaim(e, t) = c
    BY <1>3 DEF SweptClaim
  <2> QED
    BY <2>1
<1> QED
  BY <1>1, <1>2, <1>3

\* Who held a request is remembered until its time is over or it was done, and
\* only a recorded question makes a record "said".
ClaimKept(e) ==
    /\ \/ Holders(claim[e]) \subseteq Holders(claim'[e])
       \/ Elapsed(e, now) \/ reason[e] = "happened"
    /\ claim'[e].said => spoken'[e] # {}
    /\ spoken[e] \subseteq spoken'[e]

\* A late question is late.
LEMMA LateAsked ==
    ASSUME Typed, Asking, Observing, NEW q, q \in Batch(obs.session).questions, obs.step # "idle"
    PROVE  /\ q.req \in Requests /\ q.req \in known[obs.session]
           /\ q.late => Late(q.req, now)
           /\ q.answered => obs.session \notin RepliesLater
           /\ \A p \in Batch(obs.session).questions : p.req = q.req => p = q
<1>1. /\ obs.session \in Sessions /\ Batch(obs.session) \in Transcript
      /\ done[obs.session] + 1 \in 1..Len(mail[obs.session])
  BY BatchIs
<1>2. Askable(obs.session, Batch(obs.session).questions, known[obs.session], now)
  BY <1>1 DEF Asking, Batch
<1> QED
  BY <1>1, <1>2 DEF Askable, Transcript, Question

LEMMA ClaimMoves ==
    ASSUME Typed, Planned, Asking, Observing, [Next]_vars, NEW e \in Requests
    PROVE  ClaimKept(e)
<1>0. /\ claim \in [Requests -> ClaimRecord] /\ claim[e] \in ClaimRecord
      /\ claim[e].said => spoken[e] # {}
      /\ spoken \in [Requests -> SUBSET SessionCall]
  BY DEF Typed, Observing
<1>1. CASE claim'[e] = claim[e] /\ spoken[e] \subseteq spoken'[e]
  BY <1>0, <1>1 DEF ClaimKept
<1>2. CASE Pass \/ Night \/ HostsGone \/ Seen \/ Crash \/ Deciding \/ TickDefer \/ TickFail \/ UNCHANGED vars
  <2>1. UNCHANGED <<spoken, claim>>
    BY <1>2 DEF Pass, Night, HostsGone, Seen, Crash, Deciding, TickRead, TickAwait, TickSubsume, TickClose,
                TickOpen, TickDefer, TickFail, vars, ledger, outlet
  <2> QED
    BY <1>1, <2>1
<1>3. ASSUME NEW f \in Requests, LeaseLapses(f)
      PROVE  ClaimKept(e)
  <2>1. claim' = [claim EXCEPT ![f] = [claim[f] EXCEPT !.holder.live = FALSE]]
        /\ claim[f].holder.live /\ UNCHANGED spoken
    BY <1>3 DEF LeaseLapses, ledger
  <2>2. CASE f = e
    <3>1. claim'[e] = [claim[e] EXCEPT !.holder.live = FALSE]
      BY <1>0, <2>1, <2>2
    <3>2. claim'[e].said = claim[e].said /\ Holders(claim'[e]) = Holders(claim[e])
      BY <1>0, <2>1, <2>2, <3>1, LapsedIs
    <3> QED
      BY <1>0, <2>1, <3>2 DEF ClaimKept
  <2>3. CASE f # e
    BY <1>0, <1>1, <2>1, <2>3
  <2> QED
    BY <2>2, <2>3
<1>4. CASE TickPublish
  <2>1. claim'[e] = SweptClaim(e, tick.at) /\ UNCHANGED spoken
    BY <1>4 DEF TickPublish, ledger
  <2>2. Elapsed(e, tick.at) => Elapsed(e, now)
    BY ElapsedIs DEF Planned, Typed, TickRecord
  <2> QED
    BY <1>0, <2>1, <2>2, SweptKeeps DEF ClaimKept
<1>5. ASSUME NEW s \in Sessions, Prompt(s)
      PROVE  ClaimKept(e)
  <2> DEFINE n == turn[s].n + 1
             c == SweptClaim(e, now)
  <2>1. PICK given \in SUBSET Requests :
           /\ \A f \in given : Offered(SweptClaim(f, now), s)
           /\ claim' = [f \in Requests |-> IF f \in given THEN Given(SweptClaim(f, now), s, n)
                                           ELSE SweptClaim(f, now)]
    BY <1>5, PromptIs
  <2>2. c \in ClaimRecord /\ (c.said => claim[e].said)
        /\ (Elapsed(e, now) \/ Holders(claim[e]) \subseteq Holders(c))
    BY SweptIs, SweptKeeps
  <2>3. n \in Nat
    BY DEF Typed, TurnRecord
  <2>4. UNCHANGED spoken
    BY <1>5, HostIsQuiet DEF ledger
  <2>5. CASE e \in given
    <3>1. claim'[e] = Given(c, s, n) /\ Offered(c, s)
      BY <2>1, <2>5
    <3> HIDE DEF c, n
    <3>2. Given(c, s, n).said = c.said /\ Holders(c) \subseteq Holders(Given(c, s, n))
      BY <2>2, <2>3, <3>1, GivenIs
    <3> QED
      BY <1>0, <2>2, <2>4, <3>1, <3>2 DEF ClaimKept
  <2>6. CASE e \notin given
    <3>1. claim'[e] = c
      BY <2>1, <2>6
    <3> QED
      BY <1>0, <2>2, <2>4, <3>1 DEF ClaimKept
  <2> QED
    BY <2>5, <2>6
<1>6. ASSUME NEW s \in Sessions, Ask(s) \/ Reply(s) \/ EndTurn(s)
      PROVE  ClaimKept(e)
  <2>1. UNCHANGED <<spoken, claim>>
    BY <1>6 DEF Ask, Reply, EndTurn, ledger, outlet
  <2> QED
    BY <1>1, <2>1
<1>7. CASE (\E s \in Sessions : ObserveStart(s)) \/ DropOpen \/ RecordAnswer \/ TakeReply \/ WriteReply
           \/ ObserveEnd \/ RecordFails \/ ObserveFails \/ ObserveAgain
  <2>1. UNCHANGED <<spoken, claim>>
    BY <1>7 DEF ObserveStart, DropOpen, RecordAnswer, TakeReply, WriteReply, ObserveEnd,
                RecordFails, ObserveFails, ObserveAgain, ledger, outlet
  <2> QED
    BY <1>1, <2>1
<1>8. CASE SettleQuestion
  <2>1. PICK q \in obs.todo :
           \/ UNCHANGED claim
           \/ /\ claim' = [claim EXCEPT ![q.req] = NoClaim]
              /\ q.late \/ reason[q.req] = "happened"
    BY <1>8 DEF SettleQuestion
  <2>2. obs.step = "next" /\ UNCHANGED spoken
    BY <1>8 DEF SettleQuestion, ledger
  <2>3. q.req \in Requests /\ (q.late => Elapsed(q.req, now))
    BY <2>2, LateAsked, ElapsedIs DEF Observing, Settling, Typed
  <2>4. CASE claim' = [claim EXCEPT ![q.req] = NoClaim] /\ q.req = e
    <3>1. ~claim'[e].said
      BY <1>0, <2>4 DEF NoClaim
    <3>2. Elapsed(e, now) \/ reason[e] = "happened" \/ UNCHANGED claim
      BY <2>1, <2>3, <2>4
    <3> QED
      BY <1>0, <1>1, <2>2, <3>1, <3>2 DEF ClaimKept
  <2>5. CASE UNCHANGED claim \/ (claim' = [claim EXCEPT ![q.req] = NoClaim] /\ q.req # e)
    BY <1>0, <1>1, <2>2, <2>5
  <2> QED
    BY <2>1, <2>4, <2>5
<1>9. CASE RecordSpoken \/ MarkSpoken
  <2>1. Req \in Requests
    BY <1>9, BatchIs DEF RecordSpoken, MarkSpoken, Settling
  <2>2. CASE UNCHANGED claim
    <3>1. spoken[e] \subseteq spoken'[e]
      BY <1>0, <1>9, <2>1 DEF RecordSpoken, MarkSpoken, ledger
    <3> QED
      BY <1>1, <2>2, <3>1
  <2>3. CASE claim' = [claim EXCEPT ![Req] = Said(claim[Req])] /\ UNCHANGED spoken /\ spoken[Req] # {}
    <3>1. e # Req => claim'[e] = claim[e]
      BY <1>0, <2>3
    <3>2. e = Req => claim'[e] = Said(claim[e])
      BY <1>0, <2>3
    <3>3. Holders(claim[e]) \subseteq Holders(Said(claim[e]))
      BY <1>0, SaidIs
    <3> QED
      BY <1>1, <2>3, <3>1, <3>2, <3>3 DEF ClaimKept
  <2>4. MarkSpoken => spoken[Req] # {} /\ UNCHANGED spoken
    BY DEF MarkSpoken, Observing, ledger
  <2> QED
    BY <1>9, <2>2, <2>3, <2>4 DEF RecordSpoken, MarkSpoken
<1>10. CASE ReleaseUnasked
  <2>1. /\ UNCHANGED spoken
        /\ claim' = [f \in Requests |->
              IF claim[f].holder.session = obs.session /\ claim[f].holder.turn <= Call.turn
              THEN Released(claim[f]) ELSE claim[f]]
    BY <1>10 DEF ReleaseUnasked, ledger
  <2>2. obs.session \in Sessions
    BY <1>10, BatchIs DEF ReleaseUnasked
  <2>3. CASE claim'[e] = claim[e]
    BY <1>1, <2>1, <2>3
  <2>4. CASE claim'[e] = Released(claim[e]) /\ claim[e].holder.session = obs.session
    <3>1. Released(claim[e]).said = claim[e].said
          /\ Holders(claim[e]) \subseteq Holders(Released(claim[e]))
      BY <1>0, <2>2, <2>4, ReleasedIs
    <3> QED
      BY <1>0, <2>1, <2>4, <3>1 DEF ClaimKept
  <2> QED
    BY <2>1, <2>3, <2>4
<1> QED
  BY <1>2, <1>3, <1>4, <1>5, <1>6, <1>7, <1>8, <1>9, <1>10
     DEF Next, TickStep, HostStep, ObserveStep, Deciding


LEMMA HoldingKept ==
    ASSUME Typed, Planned, Asking, Observing, Holding, [Next]_vars, Quiet \/ Deciding
    PROVE  Holding'
<1> SUFFICES ASSUME NEW s \in Sessions, NEW e \in known'[s],
                    ~Elapsed(e, now'), reason'[e] # "happened"
             PROVE  s \in Holders(claim'[e])
  BY DEF Holding
<1>0. known \in [Sessions -> SUBSET Requests]
  BY DEF Typed
<1>1. CASE e \in known[s]
  <2>1. e \in Requests
    BY <1>0, <1>1
  <2>2. ~Elapsed(e, now) /\ reason[e] # "happened"
    BY <2>1, OverStays
  <2>3. s \in Holders(claim[e])
    BY <1>1, <2>2 DEF Holding
  <2> QED
    BY <2>1, <2>2, <2>3, ClaimMoves DEF ClaimKept
<1>2. CASE e \notin known[s]
  <2>1. HostStep
    BY <1>2, HostsStill DEF hosts
  <2>2. PICK p \in Sessions : Prompt(p) \/ Ask(p) \/ Reply(p) \/ EndTurn(p)
    BY <2>1 DEF HostStep
  <2>3. Prompt(p)
    BY <1>2, <2>2 DEF Ask, Reply, EndTurn
  <2> DEFINE n == turn[p].n + 1
  <2>4. PICK given \in SUBSET Requests :
           /\ \A f \in given : Offered(SweptClaim(f, now), p)
           /\ claim' = [f \in Requests |-> IF f \in given THEN Given(SweptClaim(f, now), p, n)
                                           ELSE SweptClaim(f, now)]
           /\ known' = [known EXCEPT ![p] = @ \cup {f \in given : claim'[f].holder.turn = n}]
    BY <2>3, PromptIs
  <2>5. n \in Nat
    BY DEF Typed, TurnRecord
  <2> HIDE DEF n
  <2>6. p = s /\ e \in given
    BY <1>0, <1>2, <2>4
  <2>7. claim'[e] = Given(SweptClaim(e, now), s, n) /\ Offered(SweptClaim(e, now), s)
        /\ SweptClaim(e, now) \in ClaimRecord
    BY <2>4, <2>6, SweptIs
  <2>8. claim'[e].holder.session = s
    BY <2>5, <2>7, GivenIs
  <2> QED
    BY <2>8, BoundsAreNats DEF Holders
<1> QED
  BY <1>1, <1>2

\* The observer's place in the transcripts stays where it is while others act.
LEMMA ObservingKept ==
    ASSUME Typed, Typed', Planned, Asking, Observing, [Next]_vars
    PROVE  Observing'
<1>0. /\ \A s \in Sessions : MailKept(s) /\ Len(mail[s]) \in Nat /\ Len(mail'[s]) \in Nat
      /\ \A e \in Requests : ClaimKept(e)
      /\ done \in [Sessions -> Nat] /\ obs \in ObsRecord
  BY MailGrows, ClaimMoves DEF Typed
<1>a. \A e \in Requests : claim'[e].said => spoken'[e] # {}
  BY <1>0 DEF ClaimKept
<1>1. ASSUME UNCHANGED done
      PROVE  /\ \A s \in Sessions : done'[s] <= Len(mail'[s])
             /\ \A s \in Sessions : done[s] < Len(mail[s]) =>
                   done'[s] < Len(mail'[s]) /\ Batch(s)' = Batch(s)
  <2>1. \A s \in Sessions : done'[s] <= Len(mail'[s])
    BY <1>0, <1>1 DEF Observing, MailKept
  <2>2. ASSUME NEW s \in Sessions, done[s] < Len(mail[s])
        PROVE  done'[s] < Len(mail'[s]) /\ mail'[s][done'[s] + 1] = mail[s][done[s] + 1]
    <3>1. done[s] + 1 \in 1..Len(mail[s])
      BY <1>0, <2>2
    <3> QED
      BY <1>0, <1>1, <2>2, <3>1 DEF MailKept
  <2> QED
    BY <2>1, <2>2 DEF Batch
<1>2. CASE UNCHANGED <<obs, done>>
  <2>1. obs.step = "mark" => Req \in Requests
    BY BatchIs DEF Settling
  <2>2. obs.step = "mark" => spoken'[Req] # {}
    BY <1>0, <2>1 DEF Observing, ClaimKept
  <2> QED
    BY <1>1, <1>2, <1>a, <2>2 DEF Observing, Req, Settling
<1>3. CASE obs' = NoObs /\ \A s \in Sessions : done'[s] <= Len(mail'[s])
  BY <1>3, <1>a DEF Observing, NoObs, Settling
<1>4. ASSUME NEW s \in Sessions, ObserveStart(s)
      PROVE  Observing'
  <2>1. /\ UNCHANGED done /\ done[s] < Len(mail[s])
        /\ obs' = [NoObs EXCEPT !.session = s, !.step = "next",
                     !.todo = {q \in Batch(s).questions : s \in Holders(claim[q.req])}]
    BY <1>4 DEF ObserveStart
  <2>2. obs'.session = s /\ obs'.step = "next" /\ obs'.todo \subseteq Batch(s).questions
    BY <2>1 DEF NoObs
  <2> QED
    BY <1>1, <1>a, <2>1, <2>2 DEF Observing, Settling
<1>5. ASSUME UNCHANGED done, obs.step # "idle", obs'.session = obs.session,
             \/ /\ obs'.step \in {"next", "drop", "record", "mark", "answer"}
                /\ obs.step \in Settling /\ obs'.todo \subseteq obs.todo
                /\ obs'.step # "next" => obs'.q \in Batch(obs.session).questions
                /\ obs'.step = "mark" => spoken'[obs'.q.req] # {}
             \/ obs'.step = "respond" /\ obs'.todo \subseteq Nat /\ obs'.q.req \in Requests
             \/ obs'.step = "next" /\ obs'.todo = {}
             \/ obs'.step = "end"
      PROVE  Observing'
  <2>1. obs.session \in Sessions /\ done[obs.session] < Len(mail[obs.session])
    BY <1>5 DEF Observing
  <2>2. done'[obs'.session] < Len(mail'[obs'.session]) /\ obs'.session \in Sessions
        /\ Batch(obs.session)' = Batch(obs.session)
    <3>1. mail'[obs.session][done'[obs.session] + 1] = mail[obs.session][done[obs.session] + 1]
          /\ done'[obs.session] < Len(mail'[obs.session])
      BY <1>1, <1>5, <2>1 DEF Batch
    <3> QED
      BY <1>5, <2>1, <3>1 DEF Batch
  <2>3. obs.step \in Settling => obs.todo \subseteq Batch(obs.session).questions
    BY DEF Observing
  <2> QED
    <3>1. obs'.step \in Settling => obs'.todo \subseteq Batch(obs.session)'.questions
      BY <1>5, <2>2, <2>3 DEF Settling
    <3>2. obs'.step \in Settling \ {"next"} => obs'.q \in Batch(obs.session)'.questions
      BY <1>5, <2>2 DEF Settling
    <3>3. obs'.step # "idle" /\ (obs'.step = "mark" => spoken'[obs'.q.req] # {})
          /\ (obs'.step = "respond" => obs'.todo \subseteq Nat /\ obs'.q.req \in Requests)
      BY <1>5 DEF Settling
    <3> QED
      BY <1>1, <1>5, <1>a, <2>2, <3>1, <3>2, <3>3 DEF Observing, Req
<1>6. CASE SettleQuestion
  <2>1. PICK q \in obs.todo : \E step \in {"drop", "next", "record"} :
           obs' = [obs EXCEPT !.todo = @ \ {q}, !.q = q, !.step = step]
    BY <1>6 DEF SettleQuestion
  <2>2. UNCHANGED done /\ obs.step = "next"
    BY <1>6 DEF SettleQuestion
  <2>3. q \in Batch(obs.session).questions
    BY <2>1, <2>2 DEF Observing, Settling
  <2>4. obs'.session = obs.session /\ obs'.q = q /\ obs'.todo \subseteq obs.todo
        /\ obs'.step \in {"drop", "next", "record"}
    BY <1>0, <2>1 DEF ObsRecord
  <2> QED
    BY <1>5, <2>2, <2>3, <2>4 DEF Settling
<1>7. ASSUME RecordSpoken \/ MarkSpoken \/ DropOpen \/ RecordAnswer \/ ObserveFails
             \/ ReleaseUnasked
      PROVE  Observing'
  <2>1. /\ UNCHANGED done /\ obs.step # "idle"
        /\ obs'.session = obs.session /\ obs'.q = obs.q /\ obs'.todo = obs.todo
    BY <1>0, <1>7 DEF RecordSpoken, MarkSpoken, DropOpen, RecordAnswer, ObserveFails,
                      ReleaseUnasked, To, ObsRecord
  <2>2. CASE ReleaseUnasked \/ ObserveFails
    <3>1. obs'.step = "end"
      BY <1>0, <2>2 DEF ReleaseUnasked, ObserveFails, To, ObsRecord
    <3> QED
      BY <1>5, <2>1, <3>1
  <2>3. CASE RecordSpoken \/ MarkSpoken \/ DropOpen \/ RecordAnswer
    <3>1. /\ obs.step \in Settling \ {"next"}
          /\ obs'.step \in {"next", "mark", "drop", "answer"}
      BY <1>0, <2>3 DEF RecordSpoken, MarkSpoken, DropOpen, RecordAnswer, To, ObsRecord, Settling
    <3>2. obs.q \in Batch(obs.session).questions /\ Req \in Requests
      BY <3>1, BatchIs DEF Observing, Settling
    <3>3. obs'.step = "mark" => spoken'[Req] # {}
      <4>1. MarkSpoken \/ DropOpen \/ RecordAnswer => obs'.step # "mark"
        BY <1>0 DEF MarkSpoken, DropOpen, RecordAnswer, To, ObsRecord
      <4>2. RecordSpoken => obs'.step # "mark" \/ spoken'[Req] # {}
        <5>1. RecordSpoken /\ spoken[Req] = {} => spoken'[Req] = {Call}
          BY <3>2 DEF RecordSpoken, Typed
        <5>2. RecordSpoken /\ spoken[Req] # {} => obs'.step # "mark"
          BY <1>0 DEF RecordSpoken, To, ObsRecord
        <5> QED
          BY <5>1, <5>2
      <4> QED
        BY <2>3, <4>1, <4>2
    <3> QED
      BY <1>5, <2>1, <3>1, <3>2, <3>3 DEF Req
  <2> QED
    BY <1>7, <2>2, <2>3
<1>8. CASE TakeReply
  <2>1. PICK a \in Matched :
           obs' = [obs EXCEPT !.step = "respond", !.q = [NoQuestion EXCEPT !.req = a.req],
                              !.todo = {a.turn}]
    BY <1>8 DEF TakeReply
  <2>2. a.req \in Requests /\ a.turn \in Nat
    BY DEF Matched, Typed, SessionAnswer
  <2>3. obs'.session = obs.session /\ obs'.step = "respond" /\ obs'.todo = {a.turn}
        /\ obs'.q.req = a.req
    BY <1>0, <2>1 DEF ObsRecord, NoQuestion
  <2>4. obs'.todo \subseteq Nat
    BY <2>2, <2>3
  <2>5. UNCHANGED done /\ obs.step # "idle"
    BY <1>8 DEF TakeReply
  <2> QED
    BY <1>5, <2>2, <2>3, <2>4, <2>5
<1>9. CASE WriteReply
  <2>1. obs'.session = obs.session /\ obs'.step = "next" /\ obs'.todo = {}
    BY <1>0, <1>9 DEF WriteReply, ObsRecord
  <2> QED
    BY <1>5, <1>9, <2>1 DEF WriteReply
<1>10. CASE RecordFails
  <2>1. /\ obs'.session = obs.session /\ obs'.step = "next" /\ UNCHANGED done
        /\ obs.step \in {"record", "answer", "respond"}
        /\ obs'.todo = IF obs.step = "respond" THEN {} ELSE obs.todo
    BY <1>0, <1>10 DEF RecordFails, ObsRecord
  <2> QED
    BY <1>5, <2>1 DEF Settling
<1>11. CASE ObserveEnd
  <2>1. /\ obs' = NoObs /\ mail' = mail
        /\ done' = [done EXCEPT ![obs.session] = done[obs.session] + 1]
    BY <1>11 DEF ObserveEnd, hosts
  <2>2. obs.session \in Sessions /\ done[obs.session] < Len(mail[obs.session])
    BY <1>11 DEF ObserveEnd, Observing
  <2>3. \A s \in Sessions : done'[s] <= Len(mail'[s])
    BY <1>0, <2>1, <2>2 DEF Observing
  <2> QED
    BY <1>3, <2>1, <2>3
<1>12. CASE ObserveAgain \/ Crash
  <2>1. obs' = NoObs /\ UNCHANGED done
    BY <1>12 DEF ObserveAgain, Crash
  <2> QED
    BY <1>1, <1>3, <2>1
<1>13. CASE TickPublish \/ Pass \/ Night \/ HostsGone \/ Seen \/ Deciding \/ TickDefer \/ TickFail \/ UNCHANGED vars
            \/ \E e \in Requests : LeaseLapses(e)
  <2>1. UNCHANGED <<obs, done>>
    BY <1>13 DEF TickPublish, Pass, Night, HostsGone, Seen, Deciding, TickRead, TickAwait, TickSubsume,
                 TickClose, TickOpen, TickDefer, TickFail, LeaseLapses, vars
  <2> QED
    BY <1>2, <2>1
<1>14. CASE HostStep
  <2>1. UNCHANGED <<obs, done>>
    BY <1>14, HostIsQuiet DEF HostStep
  <2> QED
    BY <1>2, <2>1
<1> QED
  BY <1>4, <1>6, <1>7, <1>8, <1>9, <1>10, <1>11, <1>12, <1>13, <1>14
     DEF Next, TickStep, ObserveStep, Deciding


----------------------------------------------------------------------------
(* One question, recognised, with its answer.                              *)

\* The ledger takes one question, and only where it has none.
LEMMA SpokenMoves ==
    ASSUME Typed, Observing, [Next]_vars
    PROVE  /\ \/ UNCHANGED spoken
              \/ /\ obs.step = "record" /\ obs'.step = "mark" /\ spoken[Req] = {}
                 /\ spoken' = [spoken EXCEPT ![Req] = {Call}] /\ Req \in Requests
                 /\ UNCHANGED <<done, mail>> /\ obs'.q = obs.q /\ obs'.session = obs.session
           /\ response \subseteq response'
<1>1. CASE RecordSpoken
  <2>1. UNCHANGED <<done, mail, response>> /\ obs.step = "record"
    BY <1>1 DEF RecordSpoken, hosts
  <2>2. CASE spoken[Req] = {}
    <3>1. spoken' = [spoken EXCEPT ![Req] = {Call}] /\ obs' = [obs EXCEPT !.step = "mark"]
      BY <1>1, <2>2 DEF RecordSpoken, To
    <3>2. obs'.step = "mark" /\ obs'.q = obs.q /\ obs'.session = obs.session
      BY <3>1 DEF Typed, ObsRecord
    <3>3. Req \in Requests
      BY <2>1, BatchIs DEF Settling
    <3> QED
      BY <2>1, <2>2, <3>1, <3>2, <3>3
  <2> QED
    BY <1>1, <2>1, <2>2 DEF RecordSpoken
<1>2. CASE (\E s \in Sessions : ObserveStart(s)) \/ SettleQuestion \/ MarkSpoken \/ DropOpen
           \/ RecordAnswer \/ TakeReply
  BY <1>2 DEF ObserveStart, SettleQuestion, MarkSpoken, DropOpen, RecordAnswer, TakeReply, ledger
<1>3. CASE WriteReply \/ ReleaseUnasked \/ ObserveEnd \/ RecordFails \/ ObserveFails \/ ObserveAgain
  BY <1>3 DEF WriteReply, ReleaseUnasked, ObserveEnd, RecordFails, ObserveFails, ObserveAgain, ledger
<1>4. CASE TickStep \/ TickDefer \/ TickFail
  BY <1>4 DEF TickStep, TickRead, TickAwait, TickSubsume, TickClose, TickOpen, TickPublish,
              TickDefer, TickFail, ledger
<1>5. CASE Pass \/ Night \/ HostsGone \/ Seen \/ Crash \/ UNCHANGED vars \/ \E e \in Requests : LeaseLapses(e)
  BY <1>5 DEF Pass, Night, HostsGone, Seen, Crash, LeaseLapses, vars, ledger
<1>6. CASE HostStep
  BY <1>6, HostIsQuiet DEF HostStep, ledger
<1> QED
  BY <1>1, <1>2, <1>3, <1>4, <1>5, <1>6 DEF Next, ObserveStep

LEMMA RecordedKept ==
    ASSUME Typed, Observing, Recorded, [Next]_vars
    PROVE  Recorded'
<1> SUFFICES ASSUME NEW e \in Requests
             PROVE  /\ \A c, d \in spoken'[e] : c = d
                    /\ \A c \in spoken'[e] : c.turn \in 1..Len(mail'[c.session])
  BY DEF Recorded
<1>1. /\ \A s \in Sessions : MailKept(s) /\ Len(mail[s]) \in Nat
      /\ mail' \in [Sessions -> Seq(Transcript)]
      /\ spoken \in [Requests -> SUBSET SessionCall]
  BY MailGrows, NextTyped DEF Typed
<1>2. CASE spoken'[e] = spoken[e]
  <2>1. \A c \in spoken[e] : c.session \in Sessions /\ c.turn \in 1..Len(mail[c.session])
    BY <1>1 DEF Recorded, SessionCall
  <2>2. \A s \in Sessions : Len(mail[s]) <= Len(mail'[s]) /\ Len(mail'[s]) \in Nat
    BY <1>1 DEF MailKept
  <2>3. \A c \in spoken[e] : c.turn \in 1..Len(mail'[c.session])
    BY <1>1, <2>1, <2>2
  <2> QED
    BY <1>2, <2>3 DEF Recorded
<1>3. CASE obs.step = "record" /\ e = Req /\ spoken' = [spoken EXCEPT ![Req] = {Call}] /\ UNCHANGED mail
  <2>1. spoken'[e] = {Call}
    BY <1>1, <1>3
  <2>2. Call.turn \in 1..Len(mail[Call.session])
    BY <1>3, BatchIs DEF Call
  <2> QED
    BY <1>3, <2>1, <2>2
<1> QED
  BY <1>1, <1>2, <1>3, SpokenMoves

LEMMA SettledKept ==
    ASSUME Typed, Planned, Asking, Observing, [Next]_vars,
           NEW q, q.req \in Requests, Settled(q)
    PROVE  Settled(q)'
<1>1. Quiet \/ Deciding
  BY QuietSteps
<1>2. /\ Elapsed(q.req, now) => Elapsed(q.req, now')
      /\ reason[q.req] = "happened" => reason'[q.req] = "happened"
  BY <1>1, OverStays
<1>3. spoken[q.req] \subseteq spoken'[q.req]
  BY ClaimMoves DEF ClaimKept
<1> QED
  BY <1>2, <1>3 DEF Settled

\* Of the transcript observed, a question is settled or still before us.
Before(q) ==
    \/ Settled(q)
    \/ obs.step \in Settling /\ q \in obs.todo
    \/ obs.step = "record" /\ q = obs.q

LEMMA RecognisedKept ==
    ASSUME Typed, Typed', Planned, Asking, Holding, Observing, Observing', Recognised, [Next]_vars,
           refused' = 0
    PROVE  Recognised'
<1>0. /\ \A s \in Sessions : MailKept(s) /\ Len(mail[s]) \in Nat /\ mail[s] \in Seq(Transcript)
      /\ done \in [Sessions -> Nat] /\ obs \in ObsRecord
  BY MailGrows DEF Typed
<1>1. ASSUME NEW s \in Sessions, NEW n \in 1..Len(mail[s]), NEW q \in mail[s][n].questions
      PROVE  q.req \in Requests /\ (Settled(q) => Settled(q)')
  <2>1. mail[s][n] \in Transcript
    BY <1>0
  <2>2. q.req \in Requests
    BY <2>1 DEF Transcript, Question
  <2> QED
    BY <2>2, SettledKept
<1>2. ASSUME obs.step # "idle"
      PROVE  \A q \in Batch(obs.session).questions : Before(q) /\ (Settled(q) => Settled(q)')
  <2>1. obs.session \in Sessions /\ done[obs.session] + 1 \in 1..Len(mail[obs.session])
    BY <1>2, BatchIs
  <2> QED
    BY <1>1, <1>2, <2>1 DEF Recognised, Before, Batch
<1>3. ASSUME UNCHANGED done,
             obs'.step # "idle" => \A q \in Batch(obs'.session).questions :
                 \/ Settled(q)'
                 \/ obs'.step \in Settling /\ q \in obs'.todo
                 \/ obs'.step = "record" /\ q = obs'.q
      PROVE  Recognised'
  <2>1. \A s \in Sessions : \A n \in 1..done'[s] :
           n \in 1..done[s] /\ n \in 1..Len(mail[s]) /\ mail'[s][n] = mail[s][n]
    BY <1>0, <1>3 DEF Observing, MailKept
  <2>2. \A s \in Sessions : \A n \in 1..done'[s] : \A q \in mail'[s][n].questions : Settled(q)'
    BY <1>1, <2>1 DEF Recognised
  <2>3. obs'.step # "idle" => mail'[obs'.session][done'[obs'.session] + 1] = Batch(obs'.session)
    <3>1. SUFFICES ASSUME obs'.step # "idle"
                   PROVE  mail'[obs'.session][done'[obs'.session] + 1] = Batch(obs'.session)
      OBVIOUS
    <3>2. obs'.session \in Sessions
      BY <3>1 DEF Observing
    <3>3. done[obs'.session] < Len(mail[obs'.session])
      <4>1. CASE obs.step # "idle" /\ obs'.session = obs.session
        BY <4>1 DEF Observing
      <4>2. CASE \E s \in Sessions : ObserveStart(s)
        <5>1. PICK s \in Sessions : ObserveStart(s)
          BY <4>2
        <5>2. done[s] < Len(mail[s]) /\ obs'.session = s
          BY <5>1 DEF ObserveStart, NoObs
        <5> QED
          BY <5>2
      <4>3. CASE UNCHANGED obs
        BY <3>1, <4>3 DEF Observing
      <4>4. CASE obs' = NoObs
        BY <3>1, <4>4 DEF NoObs
      <4>5. CASE SettleQuestion \/ TakeReply
        BY <1>0, <4>1, <4>5 DEF SettleQuestion, TakeReply, ObsRecord
      <4>6. CASE RecordSpoken \/ MarkSpoken \/ DropOpen \/ RecordAnswer \/ WriteReply
                 \/ ReleaseUnasked \/ RecordFails \/ ObserveFails
        BY <1>0, <4>1, <4>6 DEF RecordSpoken, MarkSpoken, DropOpen, RecordAnswer, WriteReply,
                                ReleaseUnasked, RecordFails, ObserveFails, To, ObsRecord
      <4>7. CASE ObserveEnd \/ ObserveAgain \/ Crash
        BY <4>4, <4>7 DEF ObserveEnd, ObserveAgain, Crash
      <4>8. CASE HostStep
        BY <4>3, <4>8, HostIsQuiet DEF HostStep
      <4>9. CASE TickStep \/ TickDefer \/ TickFail \/ Pass \/ Night \/ HostsGone \/ Seen \/ UNCHANGED vars
                 \/ \E e \in Requests : LeaseLapses(e)
        BY <4>3, <4>9 DEF TickStep, TickPublish, Pass, Night, HostsGone, Seen, TickRead, TickAwait,
                     TickSubsume, TickClose, TickOpen, TickDefer, TickFail, LeaseLapses, vars
      <4> QED
        BY <4>2, <4>5, <4>6, <4>7, <4>8, <4>9 DEF Next, ObserveStep
    <3>4. done[obs'.session] + 1 \in 1..Len(mail[obs'.session])
      BY <1>0, <3>2, <3>3
    <3> QED
      BY <1>0, <1>3, <3>2, <3>4 DEF MailKept, Batch
  <2> QED
    BY <1>3, <2>2, <2>3 DEF Recognised, Batch
<1>4. CASE UNCHANGED <<obs, done>>
  BY <1>2, <1>3, <1>4 DEF Before
<1>5. CASE obs' = NoObs /\ UNCHANGED done
  BY <1>3, <1>5 DEF NoObs
<1>6. ASSUME NEW s \in Sessions, ObserveStart(s)
      PROVE  Recognised'
  <2>1. /\ UNCHANGED done /\ done[s] < Len(mail[s])
        /\ obs' = [NoObs EXCEPT !.session = s, !.step = "next",
                     !.todo = {q \in Batch(s).questions : s \in Holders(claim[q.req])}]
    BY <1>6 DEF ObserveStart
  <2>2. /\ obs'.session = s /\ obs'.step = "next"
        /\ obs'.todo = {q \in Batch(s).questions : s \in Holders(claim[q.req])}
    BY <2>1 DEF NoObs
  <2>3. done[s] + 1 \in 1..Len(mail[s])
    BY <1>0, <2>1
  <2>4. ASSUME NEW q \in Batch(s).questions
        PROVE  Settled(q)' \/ q \in obs'.todo
    <3>1. q.req \in known[s] /\ (q.late => Late(q.req, now))
      BY <2>3 DEF Asking, Askable, Batch
    <3>2. Settled(q) \/ s \in Holders(claim[q.req])
      BY <3>1 DEF Holding, Settled
    <3> QED
      BY <1>1, <2>2, <2>3, <3>2 DEF Batch
  <2> QED
    BY <1>3, <2>1, <2>2, <2>4 DEF Settling
<1>7. CASE SettleQuestion
  <2>0. UNCHANGED <<done, reason, spoken>> /\ obs.step = "next"
    BY <1>7 DEF SettleQuestion, ledger
  <2>1. PICK p \in obs.todo :
           \/ /\ p.late \/ claim[p.req].said \/ reason[p.req] = "happened"
              /\ \E step \in {"drop", "next"} : obs' = [obs EXCEPT !.todo = @ \ {p}, !.q = p, !.step = step]
           \/ obs' = [obs EXCEPT !.todo = @ \ {p}, !.q = p, !.step = "record"]
    BY <1>7 DEF SettleQuestion
  <2>2. p \in Batch(obs.session).questions
    BY <2>0, <2>1 DEF Observing, Settling
  <2>3. /\ obs'.session = obs.session /\ obs'.todo = obs.todo \ {p} /\ obs'.q = p
        /\ obs'.step \in {"drop", "next", "record"}
        /\ obs'.step # "record" => p.late \/ claim[p.req].said \/ reason[p.req] = "happened"
    BY <1>0, <2>1 DEF ObsRecord
  <2>4. claim[p.req].said => spoken[p.req] # {}
    BY <2>0, <2>2, LateAsked DEF Observing
  <2>5. obs'.step = "record" \/ Settled(p)
    BY <2>3, <2>4 DEF Settled
  <2>6. \A q \in Batch(obs.session).questions :
           Settled(q)' \/ q \in obs'.todo \/ (obs'.step = "record" /\ q = obs'.q)
    BY <1>2, <2>0, <2>2, <2>3, <2>5 DEF Before
  <2> QED
    BY <1>3, <2>0, <2>3, <2>6 DEF Settling
<1>8. CASE RecordSpoken
  <2>1. UNCHANGED done /\ obs.step = "record" /\ Req \in Requests
    BY <1>8, BatchIs DEF RecordSpoken, Settling
  <2>2. /\ obs'.session = obs.session /\ obs'.todo = obs.todo /\ obs'.q = obs.q
        /\ obs'.step \in {"mark", "next"}
    BY <1>0, <1>8 DEF RecordSpoken, To, ObsRecord
  <2>3. spoken'[Req] # {}
    BY <1>8, <2>1 DEF RecordSpoken, Typed
  <2>4. Settled(obs.q)'
    BY <2>2, <2>3 DEF Settled, Req
  <2>5. \A q \in Batch(obs.session).questions : Settled(q)' \/ q \in obs'.todo
    BY <1>2, <2>1, <2>2, <2>4 DEF Before
  <2> QED
    BY <1>3, <2>1, <2>2, <2>5 DEF Settling
<1>9. CASE MarkSpoken \/ DropOpen \/ RecordAnswer
  <2>1. /\ UNCHANGED done /\ obs.step \in {"mark", "drop", "answer"}
        /\ obs'.session = obs.session /\ obs'.todo = obs.todo
        /\ obs'.step \in {"drop", "answer", "next"}
    BY <1>0, <1>9 DEF MarkSpoken, DropOpen, RecordAnswer, To, ObsRecord
  <2>2. \A q \in Batch(obs.session).questions : Settled(q)' \/ q \in obs'.todo
    BY <1>2, <2>1 DEF Before
  <2> QED
    BY <1>3, <2>1, <2>2 DEF Settling
<1>10. CASE TakeReply \/ WriteReply \/ ReleaseUnasked
  <2>1. /\ UNCHANGED done /\ obs'.session = obs.session
        /\ obs.step = "respond" \/ (obs.step = "next" /\ obs.todo = {})
    BY <1>0, <1>10 DEF TakeReply, WriteReply, ReleaseUnasked, To, ObsRecord
  <2>2. \A q \in Batch(obs.session).questions : Settled(q)'
    BY <1>2, <2>1 DEF Before, Settling
  <2> QED
    BY <1>3, <2>1, <2>2
<1>11. CASE ObserveEnd
  <2> DEFINE s == obs.session
  <2>1. /\ obs' = NoObs /\ obs.step = "end" /\ mail' = mail
        /\ done' = [done EXCEPT ![s] = done[s] + 1]
    BY <1>11 DEF ObserveEnd, hosts
  <2>2. s \in Sessions /\ done[s] + 1 \in 1..Len(mail[s])
    BY <2>1, BatchIs
  <2>3. \A q \in mail[s][done[s] + 1].questions : Settled(q)'
    BY <1>2, <2>1 DEF Before, Settling, Batch
  <2>4. ASSUME NEW p \in Sessions, NEW n \in 1..done'[p]
        PROVE  \A q \in mail[p][n].questions : Settled(q)'
    <3>1. CASE p = s /\ n = done[s] + 1
      BY <2>3, <3>1
    <3>2. CASE ~(p = s /\ n = done[s] + 1)
      <4>1. n \in 1..done[p] /\ n \in 1..Len(mail[p])
        BY <1>0, <2>1, <2>2, <3>2 DEF Observing
      <4> QED
        BY <1>1, <4>1 DEF Recognised
    <3> QED
      BY <3>1, <3>2
  <2> QED
    BY <2>1, <2>4 DEF Recognised, NoObs
<1>12. CASE ObserveAgain \/ Crash
  BY <1>5, <1>12 DEF ObserveAgain, Crash
<1>13. CASE HostStep
  BY <1>4, <1>13, HostIsQuiet DEF HostStep
<1>14. CASE TickStep \/ TickDefer \/ TickFail \/ Pass \/ Night \/ HostsGone \/ Seen \/ UNCHANGED vars
            \/ \E e \in Requests : LeaseLapses(e)
  BY <1>4, <1>14 DEF TickStep, TickPublish, Pass, Night, HostsGone, Seen, TickRead, TickAwait,
                     TickSubsume, TickClose, TickOpen, TickDefer, TickFail, LeaseLapses, vars
<1>15. ~RecordFails /\ ~ObserveFails
  BY DEF RecordFails, ObserveFails, Typed
<1> QED
  BY <1>6, <1>7, <1>8, <1>9, <1>10, <1>11, <1>12, <1>13, <1>14, <1>15 DEF Next, ObserveStep


\* A record stays said while a transcript is observed, and no lock holder but
\* the observer is at work.
LEMMA SaidStays ==
    ASSUME Typed, Observing, [Next]_vars, UNCHANGED <<obs, done>>, obs.step # "idle",
           NEW e \in Requests, claim[e].said
    PROVE  claim'[e].said
<1>0. claim \in [Requests -> ClaimRecord] /\ obs # NoObs /\ obs \in ObsRecord
      /\ done \in [Sessions -> Nat]
  BY DEF Typed, NoObs
<1>1. CASE UNCHANGED claim
  BY <1>1
<1>2. ASSUME NEW f \in Requests, LeaseLapses(f)
      PROVE  claim'[e].said
  <2>1. claim' = [claim EXCEPT ![f] = [claim[f] EXCEPT !.holder.live = FALSE]] /\ claim[f].holder.live
    BY <1>2 DEF LeaseLapses
  <2>2. [claim[f] EXCEPT !.holder.live = FALSE].said = claim[f].said
    BY <1>0, <2>1, LapsedIs
  <2> QED
    BY <1>0, <2>1, <2>2
<1>3. ~TickPublish /\ \A s \in Sessions : ~Prompt(s) /\ ~ObserveStart(s)
  BY <1>0 DEF TickPublish, Prompt, ObserveStart
<1>4. ~SettleQuestion
  <2> SUFFICES ASSUME SettleQuestion PROVE FALSE
    OBVIOUS
  <2>1. PICK q \in obs.todo : \E step \in {"drop", "next", "record"} :
           obs' = [obs EXCEPT !.todo = @ \ {q}, !.q = q, !.step = step]
    BY DEF SettleQuestion
  <2>2. obs'.todo = obs.todo \ {q}
    BY <1>0, <2>1 DEF ObsRecord
  <2> QED
    BY <2>1, <2>2
<1>5. ~RecordSpoken /\ ~MarkSpoken /\ ~ReleaseUnasked
  <2>1. RecordSpoken \/ MarkSpoken \/ ReleaseUnasked => obs'.step # obs.step
    BY <1>0 DEF RecordSpoken, MarkSpoken, ReleaseUnasked, To, ObsRecord
  <2> QED
    BY <2>1
<1>6. CASE DropOpen \/ RecordAnswer \/ TakeReply \/ WriteReply \/ ObserveEnd
           \/ RecordFails \/ ObserveFails \/ ObserveAgain
  BY <1>1, <1>6 DEF DropOpen, RecordAnswer, TakeReply, WriteReply, ObserveEnd, RecordFails,
                    ObserveFails, ObserveAgain, outlet
<1>7. CASE HostStep
  BY <1>1, <1>3, <1>7 DEF HostStep, Ask, Reply, EndTurn, outlet
<1>8. CASE Deciding \/ TickDefer \/ TickFail \/ Pass \/ Night \/ HostsGone \/ Seen \/ Crash \/ UNCHANGED vars
  BY <1>1, <1>8 DEF Deciding, Pass, Night, HostsGone, Seen, Crash, TickRead, TickAwait,
                    TickSubsume, TickClose, TickOpen, TickDefer, TickFail, vars, outlet
<1> QED
  BY <1>2, <1>3, <1>4, <1>5, <1>6, <1>7, <1>8 DEF Next, TickStep, ObserveStep, Deciding

LEMMA AnsweredKept ==
    ASSUME Typed, Typed', Asking, Observing, Recorded, Answered, [Next]_vars,
           crashes' + refused' = 0
    PROVE  Answered'
<1>0. /\ \A s \in Sessions : MailKept(s) /\ mail[s] \in Seq(Transcript)
      /\ spoken \in [Requests -> SUBSET SessionCall]
      /\ claim \in [Requests -> ClaimRecord] /\ obs \in ObsRecord
  BY MailGrows DEF Typed
<1>z. crashes' = 0 /\ refused' = 0 /\ crashes \in Nat /\ refused \in Nat
  <2>1. crashes' \in Nat /\ refused' \in Nat /\ crashes \in Nat /\ refused \in Nat
    BY DEF Typed
  <2>2. \A a, b \in Nat : a + b = 0 => a = 0 /\ b = 0
    OBVIOUS
  <2> QED
    BY <2>1, <2>2, Zenon
<1>1. response \subseteq response'
  BY SpokenMoves
<1> SUFFICES ASSUME NEW e \in Requests, NEW c \in spoken'[e],
                    NEW q \in mail'[c.session][c.turn].questions, q.req = e, q.answered
             PROVE  Underway(c, q)' \/ [req |-> e, session |-> c.session, turn |-> c.turn] \in response'
  BY DEF Answered
<1>2. CASE c \notin spoken[e]
  <2>1. /\ obs.step = "record" /\ obs'.step = "mark" /\ spoken' = [spoken EXCEPT ![Req] = {Call}]
        /\ UNCHANGED <<done, mail>> /\ obs'.q = obs.q /\ obs'.session = obs.session
    BY <1>2, SpokenMoves
  <2>2. e = Req /\ c = Call
    BY <1>0, <1>2, <2>1
  <2>3. c.session = obs.session /\ c.turn = done[obs.session] + 1
    BY <2>2 DEF Call
  <2>4. obs.q \in Batch(obs.session).questions /\ q \in Batch(obs.session).questions
    BY <2>1, <2>3 DEF Observing, Settling, Batch
  <2>5. q = obs.q
    BY <2>1, <2>2, <2>4, LateAsked DEF Req
  <2> QED
    BY <2>1, <2>3, <2>5 DEF Underway
<1>3. CASE c \in spoken[e]
  <2>1. /\ c.session \in Sessions /\ c.turn \in 1..Len(mail[c.session])
        /\ q \in mail[c.session][c.turn].questions
    BY <1>0, <1>3 DEF Recorded, SessionCall, MailKept
  <2>2. CASE [req |-> e, session |-> c.session, turn |-> c.turn] \in response
    BY <1>1, <2>2
  <2>3. CASE Underway(c, q)
    <3>1. /\ obs.step \in {"mark", "drop", "answer"} /\ obs.q = q /\ Req = e
          /\ c.session = obs.session /\ c.turn = done[obs.session] + 1
          /\ obs.step = "drop" => claim[e].said
      BY <2>3 DEF Underway, Req
    <3>2. CASE UNCHANGED <<obs, done>>
      <4>1. obs.step = "drop" => claim'[e].said
        BY <3>1, <3>2, SaidStays
      <4> QED
        BY <2>3, <3>1, <3>2, <4>1 DEF Underway
    <3>3. CASE MarkSpoken
      <4>1. /\ obs'.step = "drop" /\ obs'.q = q /\ obs'.session = obs.session /\ UNCHANGED done
        BY <1>0, <3>1, <3>3 DEF MarkSpoken, To, ObsRecord
      <4>2. claim'[e] = Said(claim[e])
        BY <1>0, <3>1, <3>3 DEF MarkSpoken
      <4>3. claim'[e].said
        BY <1>0, <4>2, SaidIs
      <4> QED
        BY <3>1, <4>1, <4>3 DEF Underway
    <3>4. CASE DropOpen
      <4>1. obs.step = "drop" /\ claim[e].said
        BY <3>1, <3>4 DEF DropOpen
      <4>2. /\ obs'.step = "answer" /\ obs'.q = q /\ obs'.session = obs.session /\ UNCHANGED done
        BY <1>0, <3>1, <3>4, <4>1 DEF DropOpen, To, ObsRecord
      <4> QED
        BY <3>1, <4>2 DEF Underway
    <3>5. CASE RecordAnswer
      <4>1. q \in Batch(obs.session).questions /\ obs.step # "idle"
        BY <2>1, <3>1 DEF Batch
      <4>2. obs.session \notin RepliesLater
        BY <4>1, LateAsked
      <4>3. response' = response \cup {Answer(Req)}
        BY <3>1, <3>5, <4>2 DEF RecordAnswer
      <4>4. Answer(Req) = [req |-> e, session |-> c.session, turn |-> c.turn]
        BY <3>1 DEF Answer, Call
      <4> QED
        BY <4>3, <4>4
    <3>6. ~RecordFails /\ ~ObserveFails /\ ~Crash
      BY <1>z DEF RecordFails, ObserveFails, Crash
    <3>7. /\ ~SettleQuestion /\ ~RecordSpoken /\ ~TakeReply /\ ~WriteReply /\ ~ReleaseUnasked
          /\ ~ObserveEnd /\ ~ObserveAgain /\ \A s \in Sessions : ~ObserveStart(s)
      <4>1. /\ ~SettleQuestion /\ ~TakeReply /\ ~ReleaseUnasked
            /\ ~RecordSpoken /\ ~WriteReply /\ ~ObserveEnd /\ ~ObserveAgain
        BY <3>1 DEF SettleQuestion, TakeReply, ReleaseUnasked, RecordSpoken, WriteReply,
                    ObserveEnd, ObserveAgain
      <4>2. obs # NoObs
        BY <3>1 DEF NoObs
      <4> QED
        BY <4>1, <4>2 DEF ObserveStart
    <3>8. CASE HostStep
      BY <3>2, <3>8, HostIsQuiet DEF HostStep
    <3>9. CASE TickStep \/ TickDefer \/ TickFail \/ Pass \/ Night \/ HostsGone \/ Seen \/ UNCHANGED vars
               \/ \E f \in Requests : LeaseLapses(f)
      BY <3>2, <3>9 DEF TickStep, TickPublish, Pass, Night, HostsGone, Seen, TickRead, TickAwait,
                   TickSubsume, TickClose, TickOpen, TickDefer, TickFail, LeaseLapses, vars
    <3> QED
      BY <3>3, <3>4, <3>5, <3>6, <3>7, <3>8, <3>9 DEF Next, ObserveStep
  <2> QED
    BY <1>3, <2>1, <2>2, <2>3 DEF Answered
<1> QED
  BY <1>2, <1>3

----------------------------------------------------------------------------
(* The invariant and what follows from it.                                 *)

\* What went wrong is counted.
LEMMA FaultsCount ==
    ASSUME Typed, [Next]_vars
    PROVE  /\ refused' = 0 => refused = 0
           /\ crashes' + refused' = 0 => crashes + refused = 0
<1>0. crashes \in Nat /\ refused \in Nat
  BY DEF Typed
<1>1. CASE UNCHANGED <<crashes, refused>>
  BY <1>1
<1>2. CASE ObserveStep \/ ObserveAgain
  <2>1. UNCHANGED refused
    BY <1>2 DEF ObserveStep, ObserveStart, SettleQuestion, RecordSpoken, MarkSpoken, DropOpen,
                RecordAnswer, TakeReply, WriteReply, ReleaseUnasked, ObserveEnd, ObserveAgain, faults
  <2> QED
    BY <1>1, <1>2, <2>1, ObserverIsQuiet
<1>3. CASE RecordFails \/ ObserveFails
  BY <1>0, <1>3 DEF RecordFails, ObserveFails
<1>4. CASE Crash
  BY <1>0, <1>4 DEF Crash
<1>5. CASE HostStep
  BY <1>1, <1>5, HostIsQuiet DEF HostStep, faults
<1>6. CASE TickStep \/ TickDefer \/ TickFail
  BY <1>1, <1>6 DEF TickStep, TickPublish, TickRead, TickAwait, TickSubsume, TickClose, TickOpen,
                    TickDefer, TickFail, faults
<1>7. CASE Pass \/ Night \/ HostsGone \/ Seen \/ UNCHANGED vars \/ \E e \in Requests : LeaseLapses(e)
  BY <1>1, <1>7 DEF Pass, Night, HostsGone, Seen, LeaseLapses, vars, faults
<1> QED
  BY <1>2, <1>3, <1>4, <1>5, <1>6, <1>7 DEF Next

LEMMA InitInvariant == Init => IInv
<1> SUFFICES ASSUME Init PROVE IInv
  OBVIOUS
<1>1. Typed
  BY InitTyped
<1>2. Planned /\ Succession /\ OneOpenPerMoment
  BY <1>1 DEF Init, Planned, Succession, Active, OneOpenPerMoment, NoTick, Typed
<1>3. \A s \in Sessions : mail[s] = <<>> /\ Len(mail[s]) = 0 /\ done[s] = 0 /\ known[s] = {}
                          /\ turn[s].questions = {}
  BY DEF Init, NoTurn
<1>4. Asking /\ Holding
  BY <1>3 DEF Asking, Askable, Holding
<1>5. Observing
  <2>1. obs = NoObs /\ obs.step = "idle" /\ \A e \in Requests : ~claim[e].said
    BY DEF Init, NoObs, NoClaim
  <2> QED
    BY <1>3, <2>1 DEF Observing, Settling
<1>6. Recorded /\ Answered
  BY DEF Init, Recorded, Answered
<1>7. Recognised
  <2>1. obs.step = "idle"
    BY DEF Init, NoObs
  <2> QED
    BY <1>3, <2>1 DEF Recognised
<1> QED
  BY <1>1, <1>2, <1>4, <1>5, <1>6, <1>7 DEF IInv

LEMMA NextInvariant == IInv /\ [Next]_vars => IInv'
<1> SUFFICES ASSUME IInv, [Next]_vars PROVE IInv'
  OBVIOUS
<1>1. /\ Typed /\ Planned /\ Succession /\ OneOpenPerMoment /\ Asking /\ Holding /\ Observing
      /\ Recorded
  BY DEF IInv
<1>2. Typed'
  BY <1>1, NextTyped
<1>3. Quiet \/ Deciding
  BY <1>1, QuietSteps
<1>4. Planned' /\ Succession' /\ OneOpenPerMoment'
  BY <1>1, <1>3, PlannedKept, SuccessionKept, ListKept, QuietSteps
<1>5. now <= now'
  <2>1. now \in Nat
    BY <1>1 DEF Typed
  <2>2. Deciding => UNCHANGED now
    BY DEF Deciding, TickRead, TickAwait, TickSubsume, TickClose, TickOpen
  <2> QED
    BY <1>3, <2>1, <2>2 DEF Quiet
<1>6. Asking' /\ Holding' /\ Observing' /\ Recorded'
  BY <1>1, <1>2, <1>3, <1>5, AskingKept, HoldingKept, ObservingKept, RecordedKept
<1>7. (refused' = 0 => refused = 0) /\ (crashes' + refused' = 0 => crashes + refused = 0)
  BY <1>1, FaultsCount
<1>8. refused' = 0 => Recognised'
  BY <1>1, <1>2, <1>6, <1>7, RecognisedKept DEF IInv
<1>9. crashes' + refused' = 0 => Answered'
  BY <1>1, <1>2, <1>7, AnsweredKept DEF IInv
<1> QED
  BY <1>2, <1>4, <1>6, <1>8, <1>9 DEF IInv

\* Whatever the tick, the host sessions and the observer do, in whatever
\* order, with crashes, refused writes and lapsed leases.
THEOREM OutletInvariant == Spec => []IInv
<1> QED
  BY InitInvariant, NextInvariant, PTL DEF Spec

\* "At most one question per expectation", whoever asked and however often a
\* transcript is observed again.
THEOREM OneQuestion == Spec => []SpokenOnce
<1>1. IInv => SpokenOnce
  <2> SUFFICES ASSUME IInv, NEW e \in Requests PROVE Cardinality(spoken[e]) <= 1
    BY DEF SpokenOnce
  <2>1. \A c, d \in spoken[e] : c = d
    BY DEF IInv, Recorded
  <2>2. CASE spoken[e] = {}
    <3>1. Cardinality(spoken[e]) = 0
      BY <2>2, FS_EmptySet
    <3> QED
      BY <3>1
  <2>3. ASSUME NEW c \in spoken[e]
        PROVE  Cardinality(spoken[e]) <= 1
    <3>1. spoken[e] = {c}
      BY <2>1
    <3>2. Cardinality({c}) = 1
      BY FS_Singleton
    <3> QED
      BY <3>1, <3>2
  <2> QED
    BY <2>2, <2>3
<1> QED
  BY <1>1, OutletInvariant, PTL

\* Of the inputs of one moment at most one is on the list and in time, unless
\* the basis is one of two and has lost its voice since it was decided.
THEOREM OneOnTheList == Spec => []OneOpenPerMoment
<1>1. IInv => OneOpenPerMoment
  BY DEF IInv
<1> QED
  BY <1>1, OutletInvariant, PTL

\* A question asked in time is recognised once its transcript is through.
THEOREM Recognition == Spec => []QuestionRecognised
<1>1. IInv => QuestionRecognised
  BY DEF IInv, Recognised, QuestionRecognised, Settled
<1> QED
  BY <1>1, OutletInvariant, PTL

\* The fixed option picked in the question tool is recorded.
THEOREM AnswersRecorded == Spec => []AnswersKept
<1>1. IInv => AnswersKept
  <2> SUFFICES ASSUME IInv, crashes + refused = 0, NEW e \in Requests, NEW c \in spoken[e],
                      c.turn <= done[c.session],
                      NEW q \in mail[c.session][c.turn].questions, q.req = e, q.answered
               PROVE  [req |-> e, session |-> c.session, turn |-> c.turn] \in response
    BY DEF AnswersKept
  <2>1. done[c.session] \in Nat
    BY DEF IInv, Typed, SessionCall
  <2>2. ~Underway(c, q)
    BY <2>1 DEF Underway
  <2> QED
    BY <2>2 DEF IInv, Answered
<1> QED
  BY <1>1, OutletInvariant, PTL
=============================================================================
