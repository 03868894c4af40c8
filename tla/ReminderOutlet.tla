--------------------------- MODULE ReminderOutlet ---------------------------
(***************************************************************************)
(* How a reminder gets to the person and how the service learns of it.     *)
(*   the tick   DeliveryStage.run_once: decides about every expectation    *)
(*              whose window opens or closes, and publishes the requests   *)
(*              hosts may fetch;                                           *)
(*   Sessions   host sessions: a prompt fetches requests under a lease,    *)
(*              the agent may ask the person, the transcript of the turn   *)
(*              comes back when the turn ends;                             *)
(*   observer   OutletObservingConsumer: finds the questions and answers   *)
(*              in a transcript and writes them to the ledger.             *)
(* The outlet's files are guarded by one in-process lock; the ledger is    *)
(* not, and a crash may come between any two writes.  Expectations with    *)
(* the same basis are inputs of one unit: one moment, one behaviour.  A    *)
(* basis has a voice as long as the night's table finds its relation       *)
(* established and no coincidence.                                         *)
(***************************************************************************)
EXTENDS Naturals, FiniteSets, Sequences

CONSTANTS
    Requests,       \* expectations; an expectation is its own request
    BasisOf,        \* the expectation that decides for it
    Wavering,       \* those whose relation may lose its voice, or find it, overnight
    WindowEnd, Deadline,
    MaxTime,
    Sessions,
    RepliesLater,   \* sessions whose answers come as a later user message
    MaxTurns, MaxAttempts, ClaimLimit,
    MaxCrashes,
    MaxFailures,    \* ticks and consumers that fail or defer, hosts that go silent,
                    \* nights that change a voice
    MaxRefused      \* ledger writes that may fail

ASSUME OutletAssumption ==
    /\ BasisOf \in [Requests -> Requests]
    /\ \A e \in Requests : BasisOf[BasisOf[e]] = BasisOf[e]
    /\ Wavering \subseteq Requests
    /\ WindowEnd \in [Requests -> Nat] /\ Deadline \in [Requests -> Nat]
    /\ \A e, f \in Requests : e # f => Deadline[e] # Deadline[f]
    /\ {MaxTime, MaxTurns, MaxAttempts, ClaimLimit, MaxCrashes, MaxFailures,
        MaxRefused} \subseteq Nat
    /\ RepliesLater \subseteq Sessions
    /\ IsFiniteSet(Requests) /\ "none" \notin Sessions

VARIABLES
    reason,     \* ledger: the tick's latest decision about each expectation
    spoken,     \* ledger: the calls recorded as its question
    response,   \* ledger: the recorded fixed answers
    open,       \* outlet/open.json
    claim,      \* outlet/claims/
    asked,      \* outlet/asked/
    mute,       \* expectations without a voice in the night's table
    lost,       \* bases a tick found without a voice that were to be said
    alive,      \* a host fetched recently
    tick,       \* the tick in progress
    obs,        \* the transcript being observed
    turn,       \* each session's current turn
    known,      \* requests put into each session's context
    mail,       \* transcripts of finished turns, oldest first
    done,       \* how many of them the consumer is through with
    now, seen,  \* the clock; what the tick can see done
    crashes, failures, refused

ledger == <<reason, spoken, response>>
outlet == <<open, claim, asked>>
hosts == <<turn, known, mail>>
voices == <<mute, lost>>
faults == <<crashes, failures, refused>>
vars == <<ledger, outlet, voices, alive, tick, obs, hosts, done, now, seen, faults>>

Reasons == {"none", "unit", "pending", "awaiting", "happened",
            "unreachable", "unclaimed", "other"}
NoHolder == [session |-> "none", turn |-> 0, live |-> FALSE]
NoClaim == [exists |-> FALSE, holder |-> NoHolder, attempts |-> 0, history |-> {}, said |-> FALSE]
NoTick == [busy |-> FALSE, at |-> 0, alive |-> FALSE, seen |-> {}, wait |-> {},
           todo |-> {}, joins |-> {}, close |-> {}, opens |-> {}, fresh |-> {}]
NoQuestion == [req |-> "none", late |-> FALSE, answered |-> FALSE]
NoObs == [session |-> "none", step |-> "idle", todo |-> {}, q |-> NoQuestion]
NoTurn(n) == [n |-> n, busy |-> FALSE, questions |-> {}, replies |-> {}]
\* What was begun at the deadline is in time; nothing begins at it any more.
Late(e, t) == t > Deadline[e]
Elapsed(e, t) == t >= Deadline[e]
Moment(e) == {f \in Requests : BasisOf[f] = BasisOf[e]}
Members(b) == {f \in Requests \ {b} : BasisOf[f] = b}

Init ==
    /\ reason = [e \in Requests |-> "none"] /\ spoken = [e \in Requests |-> {}]
    /\ response = {} /\ open = {} /\ asked = {}
    /\ claim = [e \in Requests |-> NoClaim]
    /\ mute \in SUBSET Wavering /\ lost = {}
    /\ alive \in BOOLEAN /\ tick = NoTick /\ obs = NoObs
    /\ turn = [s \in Sessions |-> NoTurn(0)] /\ known = [s \in Sessions |-> {}]
    /\ mail = [s \in Sessions |-> <<>>] /\ done = [s \in Sessions |-> 0]
    /\ now = 0 /\ seen = {} /\ crashes = 0 /\ failures = 0 /\ refused = 0

----------------------------------------------------------------------------
(* The tick: read the ledger, then write one decision after another.        *)

\* Mutant of Unsaid: a basis no host could be reached for counts as decided.
UnsaidUnlessUnreachable(e, t) ==
    /\ spoken[e] = {}
    /\ \/ reason[e] = "unclaimed"
       \/ reason[e] \in {"pending", "awaiting"} /\ Late(e, t)

\* The basis's words were not said and cannot be any more.
Unsaid(e, t) ==
    /\ spoken[e] = {}
    /\ \/ reason[e] \in {"unreachable", "unclaimed"}
       \/ reason[e] \in {"pending", "awaiting"} /\ Late(e, t)

\* Waiting for a host: the latest decision says so and no question is recorded.
Awaiting(e) == reason[e] = "awaiting" /\ spoken[e] = {}

\* Unless it was found done, the words of a basis without a voice count as
\* unsaid at once, even while a host could still fetch and ask them.
UnsaidBasis(b, t) ==
    \/ Unsaid(b, t)
    \/ b \in mute /\ spoken[b] = {} /\ reason[b] \notin {"none", "happened"}

\* Mutant of Heirs: a member that took over already is not looked for.
HeirsAgain(b, t) ==
    {m \in Members(b) : UnsaidBasis(b, t) /\ reason[m] = "unit" /\ ~Elapsed(m, t)}

\* Members free to take over from a basis that was not said, unless one that
\* took over before is still on its way.
Heirs(b, t) ==
    {m \in Members(b) :
        /\ UnsaidBasis(b, t)
        /\ \A n \in Members(b) : reason[n] \in {"none", "unit"} \/ Unsaid(n, t)
        /\ reason[m] = "unit" /\ ~Elapsed(m, t)}

\* Window over and this tick is the one to decide; after the deadline that
\* depends on where the previous tick fell.
Closes(S, e, t) ==
    /\ e \in S => t > WindowEnd[e]
    /\ (t > WindowEnd[e] /\ ~Late(e, t)) => e \in S

\* Every basis with heirs hands over to one of them, if its window is over; to
\* one with a voice, if there is one.
Handover(H, t) ==
    \A b \in Requests :
        LET heirs == Heirs(b, t)
            able == {m \in heirs : m \notin mute \/ heirs \subseteq mute}
        IN
        /\ H \cap Members(b) \subseteq {m \in able : t > WindowEnd[m]}
        /\ Cardinality(H \cap Members(b)) <= 1
        /\ (able # {} /\ \A m \in able : t > WindowEnd[m]) => H \cap able # {}

\* What one tick will decide is fixed by what it reads at its start; which
\* inputs exist by now, and which windows are open, is left to the reading.
TickRead ==
    /\ ~tick.busy
    /\ LET pending == {e \in Requests : reason[e] = "pending"}
           heirs == UNION {Heirs(e, now) : e \in Requests}
           fresh == {e \in Requests : BasisOf[e] = e /\ reason[e] = "none" /\ ~Late(e, now)}
       IN \E C \in SUBSET pending, H \in SUBSET heirs, O \in SUBSET fresh :
          \E J \in SUBSET {m \in Requests : BasisOf[m] # m /\ reason[m] = "none"
                             /\ (BasisOf[m] \in O \/ reason[BasisOf[m]] # "none")} :
            /\ \A e \in pending : Closes(C, e, now)
            /\ Handover(H, now)
            /\ tick' = [busy |-> TRUE, at |-> now, alive |-> alive, seen |-> seen, fresh |-> {},
                        wait |-> {e \in Requests : Awaiting(e)},
                        todo |-> {e \in Requests : Awaiting(e)},
                        joins |-> J, close |-> C \cup H, opens |-> O]
    /\ lost' = lost \cup {b \in mute : BasisOf[b] = b /\ reason[b] \in {"pending", "awaiting"}}
    /\ UNCHANGED <<ledger, outlet, mute, alive, obs, hosts, done, now, seen, faults>>

Decide(e, r) == reason' = [reason EXCEPT ![e] = r]

\* Mutant of OnAwaiting: the deadline is not looked at.
OnAwaitingForever(e) == IF e \in tick.seen THEN "happened" ELSE reason[e]

\* on_awaiting: done, given up at the deadline, or nothing to record yet.
OnAwaiting(e) ==
    IF e \in tick.seen THEN "happened" ELSE IF Late(e, tick.at) THEN "unclaimed" ELSE reason[e]

TickAwait ==
    /\ \E e \in tick.todo :
         /\ Decide(e, OnAwaiting(e))
         /\ tick' = [tick EXCEPT !.todo = @ \ {e}]
    /\ UNCHANGED <<spoken, response, outlet, voices, alive, obs, hosts, done, now, seen, faults>>

\* Inputs of a unit that is being decided, or was decided before, join it.
TickSubsume ==
    /\ tick.joins # {} /\ tick.todo = {}
    /\ reason' = [e \in Requests |-> IF e \in tick.joins THEN "unit" ELSE reason[e]]
    /\ tick' = [tick EXCEPT !.joins = {}]
    /\ UNCHANGED <<spoken, response, outlet, voices, alive, obs, hosts, done, now, seen, faults>>

\* on_closing, after the model was asked.  "other" stands for the reasons
\* that end the matter without a word; a shadow is all there is without a voice.
OnClosing(e) ==
    IF e \in tick.seen THEN {"happened"} ELSE IF e \in mute THEN {"other"}
    ELSE {"other", IF tick.alive THEN "awaiting" ELSE "unreachable"}

TickClose ==
    /\ tick.todo = {} /\ tick.joins = {}
    /\ \E e \in tick.close : \E r \in OnClosing(e) :
         /\ Decide(e, r)
         /\ tick' = [tick EXCEPT !.close = @ \ {e},
                                 !.fresh = IF r = "awaiting" THEN @ \cup {e} ELSE @]
    /\ UNCHANGED <<spoken, response, outlet, voices, alive, obs, hosts, done, now, seen, faults>>

\* An unread stretch was read again just now: decided on the next tick.
TickDefer ==
    /\ tick.todo = {} /\ tick.joins = {} /\ failures < MaxFailures
    /\ \E e \in tick.close \ tick.seen : tick' = [tick EXCEPT !.close = @ \ {e}]
    /\ failures' = failures + 1
    /\ UNCHANGED <<ledger, outlet, voices, alive, obs, hosts, done, now, seen, crashes, refused>>

OnOpening(e) ==
    IF e \in tick.seen THEN {"happened"} ELSE IF e \in mute THEN {"other"}
    ELSE {"other", "pending"}

TickOpen ==
    /\ tick.todo = {} /\ tick.joins = {} /\ tick.close = {}
    /\ \E e \in tick.opens : \E r \in OnOpening(e) :
         /\ Decide(e, r)
         /\ tick' = [tick EXCEPT !.opens = @ \ {e}]
    /\ UNCHANGED <<spoken, response, outlet, voices, alive, obs, hosts, done, now, seen, faults>>

\* sweep: records at their deadline go, expired leases end without counting
\* as a return.
Expired(c) == [c EXCEPT !.holder = NoHolder,
                        !.history = @ \cup {[session |-> c.holder.session, turn |-> c.holder.turn,
                                             ended |-> "expired"]}]

SweptClaim(e, t) ==
    CASE Elapsed(e, t) -> NoClaim
      [] ~Elapsed(e, t) /\ claim[e].holder # NoHolder /\ ~claim[e].holder.live -> Expired(claim[e])
      [] OTHER -> claim[e]
SweptAsked(t) == {a \in asked : ~Elapsed(a.req, t)}

\* The list of what may be fetched, from what this tick read and decided.
Published == {e \in tick.wait \cup tick.fresh : ~Late(e, tick.at) /\ e \notin tick.seen}

TickPublish ==
    /\ tick.busy /\ obs = NoObs
    /\ tick.todo = {} /\ tick.joins = {} /\ tick.close = {} /\ tick.opens = {}
    /\ open' = Published
    /\ claim' = [e \in Requests |-> SweptClaim(e, tick.at)]
    /\ asked' = SweptAsked(tick.at)
    /\ tick' = NoTick
    /\ UNCHANGED <<ledger, voices, alive, obs, hosts, done, now, seen, faults>>

\* A tick that fails leaves what it wrote; the worker runs the next one.
TickFail ==
    /\ tick.busy /\ failures < MaxFailures
    /\ tick' = NoTick /\ failures' = failures + 1
    /\ UNCHANGED <<ledger, outlet, voices, alive, obs, hosts, done, now, seen, crashes, refused>>

----------------------------------------------------------------------------
(* Host sessions.                                                           *)

Mine(c, s) == {h \in c.history : h.session = s /\ h.ended = "expired"}

\* May session s have this record, which no session holds or s itself holds?
Offered(c, s) ==
    /\ ~c.said
    /\ \/ c.holder.session = s
       \/ c.holder = NoHolder /\ (Mine(c, s) # {} \/ c.attempts < MaxAttempts)

\* The record after the fetch: kept, the lease renewed, or a fresh claim.
Given(c, s, n) ==
    CASE c.holder.session = s -> c
      [] c.holder = NoHolder /\ Mine(c, s) # {} ->
           LET m == CHOOSE h \in Mine(c, s) : TRUE IN
           [c EXCEPT !.exists = TRUE, !.history = @ \ {m},
                     !.holder = [session |-> s, turn |-> m.turn, live |-> TRUE]]
      [] OTHER -> [c EXCEPT !.exists = TRUE, !.holder = [session |-> s, turn |-> n, live |-> TRUE]]

\* A prompt starts a turn and fetches the requests due soonest.  Requests
\* claimed anew are put into the session's context.
Prompt(s) ==
    /\ obs = NoObs /\ ~turn[s].busy /\ turn[s].n < MaxTurns
    /\ LET n == turn[s].n + 1
           swept == [e \in Requests |-> SweptClaim(e, now)]
           offer == {e \in open : ~Elapsed(e, now) /\ Offered(swept[e], s)}
       IN \E limit \in 1..ClaimLimit :
            LET given == {e \in offer : Cardinality({f \in offer : Deadline[f] < Deadline[e]}) < limit}
                after == [e \in Requests |-> IF e \in given THEN Given(swept[e], s, n) ELSE swept[e]]
            IN /\ claim' = after
               /\ known' = [known EXCEPT ![s] = @ \cup {e \in given : after[e].holder.turn = n}]
               /\ turn' = [turn EXCEPT ![s] = [NoTurn(n) EXCEPT !.busy = TRUE]]
    /\ asked' = SweptAsked(now)
    /\ alive' = TRUE
    /\ UNCHANGED <<ledger, open, voices, tick, obs, mail, done, now, seen, faults>>

\* The agent asks with the host's question tool.
Ask(s) ==
    /\ turn[s].busy
    /\ \E e \in known[s], fixed \in BOOLEAN :
         /\ \A q \in turn[s].questions : q.req # e
         /\ s \in RepliesLater => ~fixed
         /\ turn' = [turn EXCEPT ![s].questions =
                       @ \cup {[req |-> e, late |-> Late(e, now), answered |-> fixed]}]
    /\ UNCHANGED <<ledger, outlet, voices, alive, tick, obs, known, mail, done, now, seen, faults>>

\* The questions a session has put so far: [request, turn].
Put(s) ==
    {[req |-> q.req, turn |-> turn[s].n] : q \in turn[s].questions}
    \cup UNION {{[req |-> q.req, turn |-> n] : q \in mail[s][n].questions} : n \in 1..Len(mail[s])}

\* The person answers an earlier question with a fixed option, in a message.
Reply(s) ==
    /\ turn[s].busy /\ s \in RepliesLater
    /\ \E c \in Put(s) \ turn[s].replies :
         /\ \A n \in 1..Len(mail[s]) : c \notin mail[s][n].replies
         /\ turn' = [turn EXCEPT ![s].replies = @ \cup {c}]
    /\ UNCHANGED <<ledger, outlet, voices, alive, tick, obs, known, mail, done, now, seen, faults>>

\* The turn ends and its transcript is delivered to the service.
EndTurn(s) ==
    /\ turn[s].busy
    /\ mail' = [mail EXCEPT ![s] = Append(@, [questions |-> turn[s].questions, replies |-> turn[s].replies])]
    /\ turn' = [turn EXCEPT ![s] = NoTurn(turn[s].n)]
    /\ UNCHANGED <<ledger, outlet, voices, alive, tick, obs, known, done, now, seen, faults>>

----------------------------------------------------------------------------
(* Observing a transcript, under the outlet's lock.                         *)

\* Mutant of Holders: only the present holder's question is recognised.
HoldersNow(c) == {c.holder.session} \ {"none"}

Holders(c) == {h.session : h \in c.history} \cup ({c.holder.session} \ {"none"})

Batch(s) == mail[s][done[s] + 1]
Call == [session |-> obs.session, turn |-> done[obs.session] + 1]
Req == obs.q.req
Answer(e) == [req |-> e, session |-> Call.session, turn |-> Call.turn]

\* Any session that ever held the request has its question recognised.
ObserveStart(s) ==
    /\ obs = NoObs /\ done[s] < Len(mail[s])
    /\ obs' = [NoObs EXCEPT !.session = s, !.step = "next",
                 !.todo = {q \in Batch(s).questions : s \in Holders(claim[q.req])}]
    /\ UNCHANGED <<ledger, outlet, voices, alive, tick, hosts, done, now, seen, faults>>

To(step) == obs' = [obs EXCEPT !.step = step]

\* One recognised question: too late, already done, already said, or new.
SettleQuestion ==
    /\ obs.step = "next"
    /\ \E q \in obs.todo :
         LET e == q.req
             at(step) == obs' = [obs EXCEPT !.todo = @ \ {q}, !.q = q, !.step = step]
         IN CASE q.late -> claim' = [claim EXCEPT ![e] = NoClaim] /\ at("drop")
              [] ~q.late /\ claim[e].said -> at("next") /\ UNCHANGED claim
              [] OTHER ->
                   \/ /\ reason[e] = "happened"
                      /\ claim' = [claim EXCEPT ![e] = NoClaim] /\ at("drop")
                   \/ /\ reason[e] = "happened" => spoken[e] # {}
                      /\ at("record") /\ UNCHANGED claim
    /\ UNCHANGED <<ledger, open, asked, voices, alive, tick, hosts, done, now, seen, faults>>

Said(c) == [c EXCEPT !.said = TRUE, !.holder = NoHolder,
              !.history = IF c.holder = NoHolder THEN @
                          ELSE @ \cup {[session |-> c.holder.session, turn |-> c.holder.turn,
                                        ended |-> "spoken"]}]

\* Mutant of RecordSpoken: the ledger is not asked for an earlier question.
RecordSpokenBlindly ==
    /\ obs.step = "record"
    /\ spoken' = [spoken EXCEPT ![Req] = @ \cup {Call}]
    /\ To("mark")
    /\ UNCHANGED <<reason, response, open, claim, asked, voices, alive, tick, hosts,
                   done, now, seen, faults>>

\* The ledger first: at most one question per expectation.
RecordSpoken ==
    /\ obs.step = "record"
    /\ IF spoken[Req] = {}
       THEN /\ spoken' = [spoken EXCEPT ![Req] = {Call}]
            /\ To("mark") /\ UNCHANGED claim
       ELSE /\ claim' = [claim EXCEPT ![Req] = Said(@)]
            /\ To("next") /\ UNCHANGED spoken
    /\ UNCHANGED <<reason, response, open, asked, voices, alive, tick, hosts,
                   done, now, seen, faults>>

\* The ledger refuses a write; the transcript still counts as observed.
RecordFails ==
    /\ obs.step \in {"record", "answer", "respond"} /\ refused < MaxRefused
    /\ obs.step = "record" => spoken[Req] = {}
    /\ obs.step = "answer" => obs.session \notin RepliesLater
    /\ refused' = refused + 1
    /\ obs' = [obs EXCEPT !.step = "next", !.todo = IF obs.step = "respond" THEN {} ELSE @]
    /\ UNCHANGED <<ledger, outlet, voices, alive, tick, hosts, done, now, seen, crashes, failures>>

\* A file of the outlet cannot be written: the consumer notes it and goes on.
ObserveFails ==
    /\ obs.step \notin {"idle", "end"} /\ refused < MaxRefused
    /\ refused' = refused + 1
    /\ To("end")
    /\ UNCHANGED <<ledger, outlet, voices, alive, tick, hosts, done, now, seen, crashes, failures>>

MarkSpoken ==
    /\ obs.step = "mark"
    /\ claim' = [claim EXCEPT ![Req] = Said(@)]
    /\ To("drop")
    /\ UNCHANGED <<ledger, open, asked, voices, alive, tick, hosts, done, now, seen, faults>>

\* The row goes; only a question just recorded has its answer looked at.
DropOpen ==
    /\ obs.step = "drop"
    /\ open' = open \ {Req}
    /\ To(IF claim[Req].said THEN "answer" ELSE "next")
    /\ UNCHANGED <<ledger, claim, asked, voices, alive, tick, hosts, done, now, seen, faults>>

\* Mutant of RecordAnswer: every tool is taken for one that answers later.
RecordAnswerLater ==
    /\ obs.step = "answer"
    /\ asked' = asked \cup {Answer(Req)} /\ UNCHANGED response
    /\ To("next")
    /\ UNCHANGED <<reason, spoken, open, claim, voices, alive, tick, hosts, done, now, seen, faults>>

\* A fixed option in the tool result is the answer; a tool whose answers
\* come later leaves a record to match them with.
RecordAnswer ==
    /\ obs.step = "answer"
    /\ IF obs.session \in RepliesLater
       THEN asked' = asked \cup {Answer(Req)} /\ UNCHANGED response
       ELSE /\ response' = IF obs.q.answered THEN response \cup {Answer(Req)} ELSE response
            /\ UNCHANGED asked
    /\ To("next")
    /\ UNCHANGED <<reason, spoken, open, claim, voices, alive, tick, hosts, done, now, seen, faults>>

Matched == {a \in asked : a.session = obs.session
                            /\ [req |-> a.req, turn |-> a.turn] \in Batch(obs.session).replies}

\* A late answer: its record goes first, then the response is written.
TakeReply ==
    /\ obs.step = "next" /\ obs.todo = {}
    /\ \E a \in Matched :
         /\ asked' = asked \ {a}
         /\ obs' = [obs EXCEPT !.step = "respond", !.q = [NoQuestion EXCEPT !.req = a.req],
                               !.todo = {a.turn}]
    /\ UNCHANGED <<ledger, open, claim, voices, alive, tick, hosts, done, now, seen, faults>>

WriteReply ==
    /\ obs.step = "respond"
    /\ response' = response \cup {[req |-> Req, session |-> obs.session, turn |-> n] : n \in obs.todo}
    /\ obs' = [obs EXCEPT !.step = "next", !.todo = {}]
    /\ UNCHANGED <<reason, spoken, outlet, voices, alive, tick, hosts, done, now, seen, faults>>

\* Held by this session since this turn or before, and not asked: returned.
Released(c) == [c EXCEPT !.holder = NoHolder, !.attempts = @ + 1,
                  !.history = @ \cup {[session |-> c.holder.session, turn |-> c.holder.turn,
                                       ended |-> "released"]}]

ReleaseUnasked ==
    /\ obs.step = "next" /\ obs.todo = {} /\ Matched = {}
    /\ claim' = [e \in Requests |->
                   IF claim[e].holder.session = obs.session /\ claim[e].holder.turn <= Call.turn
                   THEN Released(claim[e]) ELSE claim[e]]
    /\ To("end")
    /\ UNCHANGED <<ledger, open, asked, voices, alive, tick, hosts, done, now, seen, faults>>

\* The lane behind the outlet consumes the transcript.
ObserveEnd ==
    /\ obs.step = "end"
    /\ done' = [done EXCEPT ![obs.session] = @ + 1]
    /\ obs' = NoObs
    /\ UNCHANGED <<ledger, outlet, voices, alive, tick, hosts, now, seen, faults>>

\* The lane fails: the transcript will be observed again.
ObserveAgain ==
    /\ obs.step = "end" /\ failures < MaxFailures
    /\ failures' = failures + 1 /\ obs' = NoObs
    /\ UNCHANGED <<ledger, outlet, voices, alive, tick, hosts, done, now, seen, crashes, refused>>

----------------------------------------------------------------------------
(* Time, what the person does, crashes.                                     *)

Pass ==
    /\ now < MaxTime
    /\ now' = now + 1
    /\ UNCHANGED <<ledger, outlet, voices, alive, tick, obs, hosts, done, seen, faults>>

LeaseLapses(e) ==
    /\ claim[e].holder.live
    /\ claim' = [claim EXCEPT ![e].holder.live = FALSE]
    /\ UNCHANGED <<ledger, open, asked, voices, alive, tick, obs, hosts, done, now, seen, faults>>

\* The night's table finds other relations established, or others coincidences;
\* a tick keeps to the table it began with.
Night ==
    /\ ~tick.busy /\ failures < MaxFailures
    /\ mute' \in (SUBSET Wavering) \ {mute} /\ failures' = failures + 1
    /\ UNCHANGED <<ledger, outlet, lost, alive, tick, obs, hosts, done, now, seen, crashes, refused>>

HostsGone ==
    /\ alive /\ failures < MaxFailures
    /\ alive' = FALSE /\ failures' = failures + 1
    /\ UNCHANGED <<ledger, outlet, voices, tick, obs, hosts, done, now, seen, crashes, refused>>

\* The person did it at t, and the behaviour lane has read that by now.
Seen ==
    /\ seen = {}
    /\ \E t \in 0..now : seen' = {e \in Requests : ~Late(e, t)}
    /\ UNCHANGED <<ledger, outlet, voices, alive, tick, obs, hosts, done, now, faults>>

Crash ==
    /\ crashes < MaxCrashes
    /\ crashes' = crashes + 1
    /\ tick' = NoTick /\ obs' = NoObs
    /\ UNCHANGED <<ledger, outlet, voices, alive, hosts, done, now, seen, failures, refused>>

TickStep == TickRead \/ TickAwait \/ TickSubsume \/ TickClose \/ TickOpen \/ TickPublish
ObserveStep ==
    \/ \E s \in Sessions : ObserveStart(s)
    \/ SettleQuestion \/ RecordSpoken \/ MarkSpoken \/ DropOpen \/ RecordAnswer
    \/ TakeReply \/ WriteReply \/ ReleaseUnasked \/ ObserveEnd
HostStep == \E s \in Sessions : Prompt(s) \/ Ask(s) \/ Reply(s) \/ EndTurn(s)

Next ==
    \/ TickStep \/ ObserveStep \/ HostStep
    \/ TickDefer \/ TickFail \/ RecordFails \/ ObserveFails \/ ObserveAgain
    \/ Pass \/ Night \/ HostsGone \/ Seen \/ Crash
    \/ \E e \in Requests : LeaseLapses(e)

Spec == Init /\ [][Next]_vars

\* The worker keeps ticking and a transcript being observed, which holds the
\* outlet's lock, gets on; the clock need not move.
TickingSpec == Spec /\ WF_vars(TickStep) /\ WF_vars(ObserveStep)

FairSpec == TickingSpec /\ WF_vars(Pass)

----------------------------------------------------------------------------
(* Properties.                                                              *)

Calls == [session : Sessions, turn : 1..MaxTurns]
Answers == [req : Requests, session : Sessions, turn : 1..MaxTurns]

\* Types of the ledger, the outlet's files and the hosts' turns.
TypeOK ==
    /\ reason \in [Requests -> Reasons]
    /\ spoken \in [Requests -> SUBSET Calls]
    /\ response \subseteq Answers /\ asked \subseteq Answers
    /\ {open, seen, mute, lost} \subseteq SUBSET Requests /\ now \in 0..MaxTime
    /\ \A e \in Requests :
         /\ claim[e].holder.session \in Sessions \cup {"none"}
         /\ claim[e].exists = (claim[e] # NoClaim)
         /\ claim[e].history \subseteq [session : Sessions, turn : 1..MaxTurns,
                                       ended : {"expired", "released", "spoken"}]
    /\ known \in [Sessions -> SUBSET Requests]
    /\ \A s \in Sessions : done[s] \in 0..Len(mail[s])

\* "At most one question per expectation": two sessions that both asked,
\* transcripts observed again after a failure, a crash between the ledger
\* and the claim record, all leave one question in the ledger.
SpokenOnce == \A e \in Requests : Cardinality(spoken[e]) <= 1

\* Once the transcript of a question asked in time is through, the ledger
\* has the question of that expectation, whichever session asked and whoever
\* holds the lease by then - unless the person had done it already, or a
\* ledger write failed.
QuestionRecognised ==
    refused = 0 =>
      \A s \in Sessions : \A n \in 1..done[s] : \A q \in mail[s][n].questions :
        ~q.late /\ ~Elapsed(q.req, now) => spoken[q.req] # {} \/ reason[q.req] = "happened"

\* The fixed option picked in the question tool is recorded once the
\* transcript of the recorded question is through, as long as no ledger
\* write failed and no crash came between the question and its answer.
AnswersKept ==
    crashes + refused = 0 =>
      \A e \in Requests : \A c \in spoken[e] :
        c.turn <= done[c.session] =>
          \A q \in mail[c.session][c.turn].questions :
            q.req = e /\ q.answered =>
              [req |-> e, session |-> c.session, turn |-> c.turn] \in response

\* Of the inputs of one unit at most one is on the list and in time: a member
\* takes over only once the words of the basis can no longer be said, or the
\* basis has lost its voice since it was decided.  Only then may basis and heir
\* be listed together; two members never are.
OneOpenPerMoment ==
    \A e, f \in open : e # f /\ BasisOf[e] = BasisOf[f] =>
        Late(e, now) \/ Late(f, now) \/ {e, f} \cap lost # {}

\* A reminder on its way is said, found done, or given up at its deadline, for
\* every deadline the clock passes.
AwaitingEnds ==
    \A e \in Requests : Deadline[e] < MaxTime =>
        (reason[e] = "awaiting" ~> (spoken[e] # {} \/ reason[e] # "awaiting"))

Inherits(m, why) == reason[BasisOf[m]] \in why /\ spoken[BasisOf[m]] = {}
                      /\ reason[m] = "unit" /\ now > WindowEnd[m] /\ ~Elapsed(m, now)
Waits(m) == reason[m] = "unit" /\ ~Elapsed(m, now)
               /\ \A f \in Moment(m) : spoken[f] = {} /\ reason[f] \in {"none", "unit", "unreachable", "unclaimed"}

\* A basis no host could be reached for, or no host fetched, does not take
\* its members down: one whose window is over and deadline ahead is decided,
\* unless another input of the moment is.
UnsaidIsHandedOver ==
    \A m \in Requests : BasisOf[m] # m =>
        (Inherits(m, {"unreachable", "unclaimed"}) ~> ~Waits(m))

=============================================================================
