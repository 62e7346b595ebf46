--------------------------- MODULE ResponderProofs ---------------------------
(***************************************************************************)
(* The responders are workers of RabbitMqWorker, so that what is proved of *)
(* those holds of them; a request they acknowledge as handled has been     *)
(* answered, or nobody waits for its reply; and as long as nothing fails   *)
(* they run a request handler once.  For any requests, workers, clocks     *)
(* within the tolerance, budgets and faults.                               *)
(***************************************************************************)
EXTENDS Responder, RabbitMqWorkerProofs

-----------------------------------------------------------------------------
(* The worker underneath.                                                  *)

\* A dispatch that returns is a handler that returns; every other step of the
\* responder's own leaves the worker alone.
LEMMA WorkerUnderneath ==
    ASSUME [RNext]_allVars
    PROVE  [Next]_vars
<1>1. CASE Under(Delivery)
  BY <1>1, Zenon DEF Under, Next
<1>2. CASE \E m \in Messages : Request(m)
  BY <1>2, Zenon DEF Request, Next
<1>3. CASE InboxLost \/ Tick
  BY <1>3, Zenon DEF InboxLost, Tick
<1>4. ASSUME NEW w \in Workers, NEW c \in Jobs(w), Admit(w, c) \/ Complete(w, c) \/ Reply(w, c)
      PROVE  [Next]_vars
  <2>1. (UNCHANGED vars) \/ \E outcome \in {"ok", "error", "permanent"} : HandlerReturns(w, c, outcome)
    BY <1>4, Zenon DEF Admit, Complete, Reply, ReplyStored, ReplyConfirmed, ReplyFails,
                       ReplyUndeliverable, Returns, Proceeds
  <2> QED
    BY <2>1, Zenon DEF Next, Outcomes
<1>5. CASE UNCHANGED allVars
  BY <1>5, Zenon DEF allVars
<1> QED
  BY <1>1, <1>2, <1>3, <1>4, <1>5, Zenon DEF RNext

\* The responder implements the worker: RepliedHandler is one of the handlers
\* whose outcomes RabbitMqWorker leaves open.
THEOREM ResponderIsAWorker == RSpec => Spec
<1>1. RInit => Init
  BY Zenon DEF RInit
<1>2. [RNext]_allVars => [Next]_vars
  BY WorkerUnderneath, Zenon
<1> QED
  BY <1>1, <1>2, PTL DEF RSpec, Spec

\* What the theorems about the workers say of the responders.
LEMMA WorkerFacts ==
    RSpec => [](WorkerInv /\ PoisonNeverRuns /\ OnlySent /\ CalmInv /\ AtMostOnce)
BY ResponderIsAWorker, WorkerInvariant, OnlyPublishedMoves, CalmWhileNothingFails,
   EarlyAckIsAtMostOnce, PTL

\* Only a handler that returns adds to the handled messages.
LEMMA DeliveryHandlesNothing ==
    ASSUME Delivery
    PROVE  handled' = handled
<1>1. CASE BrokerStep
  BY <1>1, Zenon DEF BrokerStep, Expire, Deliver, AckArrives, ConnectionLost, ConnectionNoticed,
                     ghostVars
<1>2. ASSUME NEW w, NEW c, JobStep(w, c) PROVE handled' = handled
  <2>1. CASE Take(w, c) \/ AcquirePermit(w, c)
    BY <2>1, Zenon DEF Take, AcquirePermit, Dispatch, ghostVars
  <2>2. CASE SettlementStep(w, c)
    BY <2>2, Zenon DEF SettlementStep, RetryCopyStored, DeadLetterStored, Confirmed, PublishLost,
                       Requeue, SettleDelivery, ghostVars
  <2>3. CASE PublishRefused(w, c) \/ Unroutable(w, c)
    BY <2>3, Zenon DEF PublishRefused, Unroutable, ghostVars
  <2> QED
    BY <1>2, <2>1, <2>2, <2>3, Zenon DEF JobStep
<1>3. ASSUME NEW w, WorkerStep(w) PROVE handled' = handled
  BY <1>3, Zenon DEF WorkerStep, Cancel, LeaveLoop, Drained, GraceExpires, Return, Crash, Start,
                     ghostVars
<1> QED
  BY <1>1, <1>2, <1>3, Zenon DEF Delivery

-----------------------------------------------------------------------------
(* Every request that is acknowledged as handled was answered.             *)

\* What Follow makes of a dispatch.
LEMMA Followed ==
    ASSUME Follow, NEW w \in Workers, NEW c \in Copies
    PROVE  /\ stage'[w][c] = IF job'[w][c] = "handling" THEN stage[w][c] ELSE "entered"
           /\ until'[w][c] = IF job'[w][c] = "handling" THEN until[w][c] ELSE Absent
BY Zenon DEF Follow

\* A step underneath the dispatches, or the return of one, keeps what the
\* others know.
LEMMA FollowIsTruthful ==
    ASSUME ReplyInv, Follow, answered \subseteq answered', deadline' = deadline
    PROVE  /\ DispatchIsTruthful'
           /\ stage' \in [Workers -> [Copies -> {"entered", "serving", "replying", "confirming"}]]
           /\ until' \in [Workers -> [Copies -> Nat \cup {Absent}]]
<1>1. /\ stage \in [Workers -> [Copies -> {"entered", "serving", "replying", "confirming"}]]
      /\ until \in [Workers -> [Copies -> Nat \cup {Absent}]]
  BY Zenon DEF ReplyInv, ResponderTypes
<1>2. stage' \in [Workers -> [Copies -> {"entered", "serving", "replying", "confirming"}]]
  BY <1>1 DEF Follow
<1>3. until' \in [Workers -> [Copies -> Nat \cup {Absent}]]
  BY <1>1 DEF Follow
<1>4. ASSUME NEW w \in Workers, NEW c \in Copies
      PROVE  /\ job'[w][c] # "handling" => stage'[w][c] = "entered" /\ until'[w][c] = Absent
             /\ stage'[w][c] = "confirming" => c.msg \in answered'
             /\ until'[w][c] # Absent => deadline'[c.msg] # Absent /\ deadline'[c.msg] <= until'[w][c]
  <2>1. /\ stage[w][c] = "confirming" => c.msg \in answered
        /\ until[w][c] # Absent => deadline[c.msg] # Absent /\ deadline[c.msg] <= until[w][c]
    BY Zenon DEF ReplyInv, DispatchIsTruthful
  <2>2. CASE job'[w][c] = "handling"
    <3>1. stage'[w][c] = stage[w][c] /\ until'[w][c] = until[w][c]
      BY <2>2, Followed, Zenon
    <3> QED
      BY <2>1, <2>2, <3>1, Zenon
  <2>3. CASE job'[w][c] # "handling"
    <3>1. stage'[w][c] = "entered" /\ until'[w][c] = Absent
      BY <2>3, Followed, Zenon
    <3> QED
      BY <3>1
  <2> QED
    BY <2>2, <2>3, Zenon
<1> QED
  BY <1>2, <1>3, <1>4, Zenon DEF DispatchIsTruthful

\* What must be said of a step: the requests it adds to the handled ones were
\* answered or need not be.
LEMMA AnsweredKept ==
    ASSUME TypeOK, ReplyInv, shape' = shape, answered \subseteq answered', now' \in Nat, now' >= now,
           \A m \in handled : deadline'[m] = deadline[m],
           \A m \in handled' :
              m \in handled \/ m \in answered' \/ shape[m] = "unanswerable" \/ ~StillWaiting(m)'
    PROVE  AcknowledgedWasAnswered'
<1> SUFFICES ASSUME NEW m \in handled, m \notin answered', shape[m] # "unanswerable"
             PROVE  ~StillWaiting(m)'
  BY Zenon DEF AcknowledgedWasAnswered
<1>1. ~StillWaiting(m)
  BY Zenon DEF ReplyInv, AcknowledgedWasAnswered
<1>2. deadline[m] \in Nat \cup {Absent} /\ now \in Nat /\ deadline'[m] = deadline[m]
  BY Zenon DEF ReplyInv, ResponderTypes, TypeOK
<1> QED
  BY <1>1, <1>2 DEF StillWaiting
\* Deadline::anchor against a clock that is off by no more than the tolerance:
\* a deadline it calls elapsed has elapsed for the caller too, and the local
\* one it sets is not ahead of the caller's.
LEMMA ReadingIsTruthful ==
    ASSUME ResponderTypes, NEW m \in Messages
    PROVE  /\ ReadDeadline(m).reading = "expired" => ~StillWaiting(m)
           /\ ReadDeadline(m).at \in Nat \cup {Absent}
           /\ ReadDeadline(m).at # Absent =>
                 deadline[m] # Absent /\ deadline[m] <= ReadDeadline(m).at
<1>1. /\ deadline[m] \in Nat \cup {Absent} /\ now \in Nat /\ Tolerance \in Nat /\ Horizon \in Nat
      /\ skew \in Int /\ -Tolerance <= skew /\ skew <= Tolerance
  BY ResponderConstants DEF ResponderTypes
<1>2. CASE deadline[m] = Absent
  <2>1. ReadDeadline(m) = [reading |-> "absent", at |-> Absent]
    BY <1>2, Zenon DEF ReadDeadline
  <2> QED
    BY <2>1
<1>3. CASE deadline[m] # Absent
  <2>1. ReadDeadline(m) = Anchor(deadline[m], now + skew) /\ deadline[m] \in Nat
    BY <1>1, <1>3 DEF ReadDeadline
  <2>2. CASE deadline[m] > (now + skew) + Horizon
    <3>1. ReadDeadline(m) = [reading |-> "invalid", at |-> Absent]
      BY <1>1, <2>1, <2>2 DEF Anchor
    <3> QED
      BY <3>1
  <2>3. CASE deadline[m] <= (now + skew) + Horizon /\ deadline[m] + Tolerance < now + skew
    <3>1. ReadDeadline(m) = [reading |-> "expired", at |-> Absent]
      BY <1>1, <2>1, <2>3 DEF Anchor
    <3>2. ~(now <= deadline[m])
      BY <1>1, <2>1, <2>3
    <3> QED
      BY <1>3, <3>1, <3>2 DEF StillWaiting
  <2>4. CASE deadline[m] <= (now + skew) + Horizon /\ ~(deadline[m] + Tolerance < now + skew)
    <3>1. ReadDeadline(m) = [reading |-> "live", at |-> now + deadline[m] + Tolerance - (now + skew)]
      BY <1>1, <2>1, <2>4 DEF Anchor
    <3>2. /\ now + deadline[m] + Tolerance - (now + skew) \in Nat
          /\ deadline[m] <= now + deadline[m] + Tolerance - (now + skew)
      BY <1>1, <2>1
    <3> QED
      BY <1>3, <3>1, <3>2
  <2> QED
    BY <1>1, <2>1, <2>2, <2>3, <2>4
<1> QED
  BY <1>2, <1>3, Zenon

\* A dispatch that goes on to another await knows no less than before.
LEMMA ProceedIsTruthful ==
    ASSUME ReplyInv, NEW w \in Workers, NEW c \in Copies, job[w][c] = "handling",
           NEW next \in {"entered", "serving", "replying", "confirming"},
           NEW at \in Nat \cup {Absent}, Proceeds(w, c, next, at),
           answered \subseteq answered', next = "confirming" => c.msg \in answered',
           at # Absent => deadline[c.msg] # Absent /\ deadline[c.msg] <= at
    PROVE  /\ DispatchIsTruthful'
           /\ stage' \in [Workers -> [Copies -> {"entered", "serving", "replying", "confirming"}]]
           /\ until' \in [Workers -> [Copies -> Nat \cup {Absent}]]
<1>1. /\ stage \in [Workers -> [Copies -> {"entered", "serving", "replying", "confirming"}]]
      /\ until \in [Workers -> [Copies -> Nat \cup {Absent}]]
  BY Zenon DEF ReplyInv, ResponderTypes
<1>2. /\ stage' = [stage EXCEPT ![w][c] = next] /\ until' = [until EXCEPT ![w][c] = at]
      /\ job' = job /\ deadline' = deadline
  BY Zenon DEF Proceeds, vars, workerVars
<1>3. /\ stage' \in [Workers -> [Copies -> {"entered", "serving", "replying", "confirming"}]]
      /\ stage'[w][c] = next
      /\ \A v \in Workers, d \in Copies : v # w \/ d # c => stage'[v][d] = stage[v][d]
  BY <1>1, <1>2
<1>4. /\ until' \in [Workers -> [Copies -> Nat \cup {Absent}]]
      /\ until'[w][c] = at
      /\ \A v \in Workers, d \in Copies : v # w \/ d # c => until'[v][d] = until[v][d]
  BY <1>1, <1>2
<1>5. ASSUME NEW v \in Workers, NEW d \in Copies
      PROVE  /\ job'[v][d] # "handling" => stage'[v][d] = "entered" /\ until'[v][d] = Absent
             /\ stage'[v][d] = "confirming" => d.msg \in answered'
             /\ until'[v][d] # Absent => deadline'[d.msg] # Absent /\ deadline'[d.msg] <= until'[v][d]
  <2>1. CASE v = w /\ d = c
    BY <1>2, <1>3, <1>4, <2>1, ZenonT(60)
  <2>2. CASE v # w \/ d # c
    <3>1. stage'[v][d] = stage[v][d] /\ until'[v][d] = until[v][d]
      BY <1>3, <1>4, <2>2, Zenon
    <3>2. /\ job[v][d] # "handling" => stage[v][d] = "entered" /\ until[v][d] = Absent
          /\ stage[v][d] = "confirming" => d.msg \in answered
          /\ until[v][d] # Absent => deadline[d.msg] # Absent /\ deadline[d.msg] <= until[v][d]
      BY Zenon DEF ReplyInv, DispatchIsTruthful
    <3> QED
      BY <1>2, <3>1, <3>2, Zenon
  <2> QED
    BY <2>1, <2>2, Zenon
<1> QED
  BY <1>3, <1>4, <1>5, Zenon DEF DispatchIsTruthful

\* A dispatch that returns with success leaves a request that was answered, or
\* need not be; with any other outcome it adds none.
LEMMA ReturnKeepsReplyInv ==
    ASSUME WorkerInv, ReplyInv, NEW w \in Workers, NEW c \in Jobs(w), NEW outcome,
           Returns(w, c, outcome), UNCHANGED <<executions, answered>>, hiccups' \in Nat,
           outcome = "ok" =>
              c.msg \in answered \/ shape[c.msg] = "unanswerable" \/ ~StillWaiting(c.msg)
    PROVE  ReplyInv'
<1>1. /\ Follow /\ UNCHANGED <<shape, timeout, skew, now, deadline, answered, executions>>
      /\ handled' = IF outcome = "ok" THEN handled \cup {c.msg} ELSE handled
  BY Zenon DEF Returns, HandlerReturns, requestVars
<1>2. StillWaiting(c.msg)' <=> StillWaiting(c.msg)
  BY <1>1, Zenon DEF StillWaiting
<1>3. now' \in Nat /\ now' >= now
  BY <1>1 DEF ReplyInv, ResponderTypes
<1>4. AcknowledgedWasAnswered'
  <2>1. \A m \in handled' :
           m \in handled \/ m \in answered' \/ shape[m] = "unanswerable" \/ ~StillWaiting(m)'
    BY <1>1, <1>2, Zenon
  <2> QED
    BY <1>1, <1>3, <2>1, AnsweredKept, Zenon DEF WorkerInv
<1>5. /\ DispatchIsTruthful'
      /\ stage' \in [Workers -> [Copies -> {"entered", "serving", "replying", "confirming"}]]
      /\ until' \in [Workers -> [Copies -> Nat \cup {Absent}]]
  BY <1>1, FollowIsTruthful, Zenon
<1> QED
  BY <1>1, <1>4, <1>5, Zenon DEF ReplyInv, ResponderTypes

\* A dispatch that goes on leaves the handled messages alone.
LEMMA ProceedKeepsReplyInv ==
    ASSUME WorkerInv, ReplyInv, NEW w \in Workers, NEW c \in Copies, job[w][c] = "handling",
           NEW next \in {"entered", "serving", "replying", "confirming"},
           NEW at \in Nat \cup {Absent}, Proceeds(w, c, next, at),
           answered \subseteq answered', next = "confirming" => c.msg \in answered',
           at # Absent => deadline[c.msg] # Absent /\ deadline[c.msg] <= at,
           executions' \in [Messages -> Nat], hiccups' = hiccups
    PROVE  ReplyInv'
<1>1. UNCHANGED <<shape, timeout, skew, now, deadline, handled>>
  BY Zenon DEF Proceeds, vars, ghostVars, requestVars
<1>2. now' \in Nat /\ now' >= now
  BY <1>1 DEF ReplyInv, ResponderTypes
<1>3. AcknowledgedWasAnswered'
  BY <1>1, <1>2, AnsweredKept, Zenon DEF WorkerInv
<1>4. /\ DispatchIsTruthful'
      /\ stage' \in [Workers -> [Copies -> {"entered", "serving", "replying", "confirming"}]]
      /\ until' \in [Workers -> [Copies -> Nat \cup {Absent}]]
  BY ProceedIsTruthful
<1> QED
  BY <1>1, <1>3, <1>4, Zenon DEF ReplyInv, ResponderTypes

\* The steps of a dispatch.
LEMMA DispatchKeepsReplyInv ==
    ASSUME WorkerInv, ReplyInv, NEW w \in Workers, NEW c \in Jobs(w),
           Admit(w, c) \/ Complete(w, c) \/ Reply(w, c)
    PROVE  ReplyInv'
<1>0. /\ c \in Copies /\ c.msg \in Messages /\ ResponderTypes
      /\ executions \in [Messages -> Nat] /\ hiccups \in Nat
      /\ until[w][c] \in Nat \cup {Absent}
      /\ stage[w][c] = "confirming" => c.msg \in answered
      /\ until[w][c] # Absent => deadline[c.msg] # Absent /\ deadline[c.msg] <= until[w][c]
  <2>1. c \in Copies
    BY Zenon DEF Jobs
  <2> QED
    <3>1. c.msg \in Messages /\ ResponderTypes
      BY <2>1, CopyFields, Zenon DEF ReplyInv
    <3>2. executions \in [Messages -> Nat] /\ hiccups \in Nat /\ until[w][c] \in Nat \cup {Absent}
      BY <2>1, <3>1, Zenon DEF ResponderTypes
    <3>3. /\ stage[w][c] = "confirming" => c.msg \in answered
          /\ until[w][c] # Absent => deadline[c.msg] # Absent /\ deadline[c.msg] <= until[w][c]
      BY <2>1, Zenon DEF ReplyInv, DispatchIsTruthful
    <3> QED
      BY <2>1, <3>1, <3>2, <3>3, Zenon
<1>1. job[w][c] = "handling"
  BY Zenon DEF Admit, Complete, Reply, ReplyStored, ReplyConfirmed, ReplyFails, ReplyUndeliverable
<1>2. /\ "replying" # "confirming" /\ "serving" # "confirming"
      /\ "error" # "ok" /\ "permanent" # "ok"
      /\ "replying" \in {"entered", "serving", "replying", "confirming"}
      /\ "serving" \in {"entered", "serving", "replying", "confirming"}
      /\ "confirming" \in {"entered", "serving", "replying", "confirming"}
      /\ Absent \in Nat \cup {Absent}
  OBVIOUS
<1>3. CASE Admit(w, c)
  <2> DEFINE d == ReadDeadline(c.msg)
  <2>1. /\ d.reading = "expired" => ~StillWaiting(c.msg)
        /\ d.at \in Nat \cup {Absent}
        /\ d.at # Absent => deadline[c.msg] # Absent /\ deadline[c.msg] <= d.at
    BY <1>0, ReadingIsTruthful, Zenon
  <2>2. UNCHANGED <<hiccups, answered>>
    BY <1>3, Zenon DEF Admit
  <2>3. CASE Silent(c.msg, d.reading) /\ Returns(w, c, "ok") /\ UNCHANGED executions
    <3>1. shape[c.msg] = "unanswerable" \/ ~StillWaiting(c.msg)
      BY <2>1, <2>3, Zenon DEF Silent
    <3> HIDE DEF d
    <3> QED
      BY <1>0, <2>2, <2>3, <3>1, ReturnKeepsReplyInv, Zenon
  <2>4. CASE Proceeds(w, c, "replying", Absent) /\ UNCHANGED executions
    BY <1>0, <1>1, <1>2, <2>2, <2>4, ProceedKeepsReplyInv, Zenon
  <2>5. CASE Proceeds(w, c, "serving", d.at) /\ executions' = [executions EXCEPT ![c.msg] = @ + 1]
    <3>1. executions' \in [Messages -> Nat]
      BY <1>0, <2>5
    <3> HIDE DEF d
    <3> QED
      BY <1>0, <1>1, <1>2, <2>1, <2>2, <2>5, <3>1, ProceedKeepsReplyInv, Zenon
  <2> QED
    BY <1>3, <2>3, <2>4, <2>5, Zenon DEF Admit
<1>4. CASE Complete(w, c)
  <2>1. UNCHANGED <<hiccups, executions, answered>>
    BY <1>4, Zenon DEF Complete
  <2>2. CASE IsExpired(w, c) /\ Returns(w, c, "ok")
    <3>1. until[w][c] # Absent /\ now > until[w][c]
      BY <2>2, Zenon DEF IsExpired
    <3>2. deadline[c.msg] \in Nat \cup {Absent} /\ now \in Nat
      BY <1>0, Zenon DEF ResponderTypes
    <3>3. ~StillWaiting(c.msg)
      BY <1>0, <3>1, <3>2 DEF StillWaiting
    <3> QED
      BY <1>0, <2>1, <2>2, <3>3, ReturnKeepsReplyInv, Zenon
  <2>3. CASE Proceeds(w, c, "replying", until[w][c])
    BY <1>0, <1>1, <1>2, <2>1, <2>3, ProceedKeepsReplyInv, Zenon
  <2> QED
    BY <1>4, <2>2, <2>3, Zenon DEF Complete
<1>5. CASE ReplyStored(w, c)
  <2>1. /\ answered' = answered \cup {c.msg} /\ UNCHANGED <<hiccups, executions>>
        /\ Proceeds(w, c, "confirming", until[w][c])
    BY <1>5, Zenon DEF ReplyStored
  <2>2. answered \subseteq answered' /\ c.msg \in answered'
    BY <2>1, Zenon
  <2> QED
    BY <1>0, <1>1, <1>2, <2>1, <2>2, ProceedKeepsReplyInv, Zenon
<1>6. CASE ReplyConfirmed(w, c)
  BY <1>0, <1>6, ReturnKeepsReplyInv, Zenon DEF ReplyConfirmed
<1>7. CASE ReplyFails(w, c) \/ ReplyUndeliverable(w, c)
  <2>1. /\ UNCHANGED <<executions, answered>>
        /\ hiccups' = hiccups \/ (hiccups > 0 /\ hiccups' = hiccups - 1)
    BY <1>7, Zenon DEF ReplyFails, ReplyUndeliverable
  <2>2. hiccups' \in Nat
    BY <1>0, <2>1
  <2>3. Returns(w, c, "error") \/ Returns(w, c, "permanent")
    BY <1>7, Zenon DEF ReplyFails, ReplyUndeliverable
  <2> QED
    BY <1>2, <2>1, <2>2, <2>3, ReturnKeepsReplyInv, Zenon
<1> QED
  BY <1>3, <1>4, <1>5, <1>6, <1>7, Zenon DEF Reply

\* A request is stamped before it is published, hence before it is dispatched
\* or handled.
LEMMA RequestKeepsReplyInv ==
    ASSUME WorkerInv, OnlySent, ReplyInv, NEW m \in Messages, Request(m)
    PROVE  ReplyInv'
<1>1. /\ m \notin sent /\ UNCHANGED <<job, handled>>
      /\ UNCHANGED <<shape, timeout, skew, now, stage, until, hiccups, executions, answered>>
      /\ deadline' = [deadline EXCEPT ![m] = WithinHorizon(m)]
  BY Zenon DEF Request, Publish, workerVars, requestVars, dispatchVars
<1>2. deadline \in [Messages -> Nat \cup {Absent}] /\ timeout[m] \in Nat /\ now \in Nat
  BY ResponderConstants, Zenon DEF ReplyInv, ResponderTypes
<1>3. /\ deadline' \in [Messages -> Nat \cup {Absent}]
      /\ \A n \in Messages : n # m => deadline'[n] = deadline[n]
  BY <1>1, <1>2 DEF WithinHorizon
<1>4. now' \in Nat /\ now' >= now
  BY <1>1, <1>2
<1>5. \A n \in handled : deadline'[n] = deadline[n]
  <2>1. handled \subseteq Messages
    BY Zenon DEF WorkerInv, TypeOK
  <2>2. handled \subseteq sent
    BY Zenon DEF OnlySent
  <2> QED
    BY <1>1, <1>3, <2>1, <2>2, Zenon
<1>6. AcknowledgedWasAnswered'
  BY <1>1, <1>4, <1>5, AnsweredKept, Zenon DEF WorkerInv
<1>7. ASSUME NEW w \in Workers, NEW c \in Copies, until[w][c] # Absent
      PROVE  deadline'[c.msg] = deadline[c.msg]
  <2>1. job[w][c] = "handling"
    BY <1>7, Zenon DEF ReplyInv, DispatchIsTruthful
  <2>2. c \in Jobs(w)
    BY <2>1 DEF Jobs
  <2>3. c.msg \in sent
    BY <2>2, Zenon DEF OnlySent
  <2> QED
    BY <1>1, <1>3, <2>3, CopyFields, Zenon
<1>8. DispatchIsTruthful'
  <2> SUFFICES ASSUME NEW w \in Workers, NEW c \in Copies
               PROVE  /\ job'[w][c] # "handling" => stage'[w][c] = "entered" /\ until'[w][c] = Absent
                      /\ stage'[w][c] = "confirming" => c.msg \in answered'
                      /\ until'[w][c] # Absent =>
                            deadline'[c.msg] # Absent /\ deadline'[c.msg] <= until'[w][c]
    BY Zenon DEF DispatchIsTruthful
  <2>1. /\ job[w][c] # "handling" => stage[w][c] = "entered" /\ until[w][c] = Absent
        /\ stage[w][c] = "confirming" => c.msg \in answered
        /\ until[w][c] # Absent => deadline[c.msg] # Absent /\ deadline[c.msg] <= until[w][c]
    BY Zenon DEF ReplyInv, DispatchIsTruthful
  <2> QED
    BY <1>1, <1>7, <2>1, Zenon
<1> QED
  BY <1>1, <1>3, <1>6, <1>8, Zenon DEF ReplyInv, ResponderTypes

\* Every step keeps ReplyInv.
LEMMA NextKeepsReplyInv ==
    ASSUME WorkerInv, OnlySent, ReplyInv, [RNext]_allVars
    PROVE  ReplyInv'
<1>0. now \in Nat
  BY Zenon DEF ReplyInv, ResponderTypes
<1>1. CASE Under(Delivery)
  <2>1. /\ Follow /\ handled' = handled
        /\ UNCHANGED <<shape, timeout, skew, now, deadline, hiccups, executions, answered>>
    BY <1>1, DeliveryHandlesNothing, Zenon DEF Under, requestVars
  <2>2. now' \in Nat /\ now' >= now
    BY <1>0, <2>1
  <2>3. AcknowledgedWasAnswered'
    BY <2>1, <2>2, AnsweredKept, Zenon DEF WorkerInv
  <2>4. /\ DispatchIsTruthful'
        /\ stage' \in [Workers -> [Copies -> {"entered", "serving", "replying", "confirming"}]]
        /\ until' \in [Workers -> [Copies -> Nat \cup {Absent}]]
    BY <2>1, FollowIsTruthful, Zenon
  <2> QED
    BY <2>1, <2>3, <2>4, Zenon DEF ReplyInv, ResponderTypes
<1>2. CASE \E m \in Messages : Request(m)
  BY <1>2, RequestKeepsReplyInv, Zenon
<1>3. CASE InboxLost \/ Tick \/ UNCHANGED allVars
  <2>1. /\ UNCHANGED <<job, handled>>
        /\ UNCHANGED <<shape, timeout, skew, deadline, stage, until, hiccups, executions, answered>>
        /\ now' = now \/ now' = now + 1
    BY <1>3, Zenon DEF InboxLost, Tick, allVars, vars, workerVars, ghostVars, responderVars,
                       requestVars, dispatchVars
  <2>2. now' \in Nat /\ now' >= now
    BY <1>0, <2>1
  <2>3. AcknowledgedWasAnswered'
    BY <2>1, <2>2, AnsweredKept, Zenon DEF WorkerInv
  <2>4. DispatchIsTruthful'
    BY <2>1, Zenon DEF ReplyInv, DispatchIsTruthful
  <2> QED
    BY <2>1, <2>2, <2>3, <2>4, Zenon DEF ReplyInv, ResponderTypes
<1>4. CASE \E w \in Workers : \E c \in Jobs(w) : Admit(w, c) \/ Complete(w, c) \/ Reply(w, c)
  BY <1>4, DispatchKeepsReplyInv, Zenon
<1> QED
  BY <1>1, <1>2, <1>3, <1>4, Zenon DEF RNext

\* The local deadlines and the pending confirms of all dispatches are truthful.
THEOREM DispatchesAreTruthful == RSpec => []ReplyInv
<1>1. RInit => ReplyInv
  <2> SUFFICES ASSUME RInit PROVE ReplyInv
    BY Zenon
  <2>1. ResponderTypes
    BY ResponderConstants DEF RInit, ResponderTypes
  <2>2. DispatchIsTruthful
    BY DEF RInit, DispatchIsTruthful
  <2>3. AcknowledgedWasAnswered
    BY Zenon DEF RInit, Init, AcknowledgedWasAnswered
  <2> QED
    BY <2>1, <2>2, <2>3, Zenon DEF ReplyInv
<1>2. WorkerInv /\ OnlySent /\ ReplyInv /\ [RNext]_allVars => ReplyInv'
  BY NextKeepsReplyInv, Zenon
<1> QED
  BY <1>1, <1>2, WorkerFacts, PTL DEF RSpec

\* A worker acknowledges a request as handled only if its caller was sent a
\* reply, cannot be sent one or has given up: whatever is retried, lost,
\* crashed or restarted, and whichever clock is ahead within the tolerance.
THEOREM NoCallerIsSilenced == RSpec => []AcknowledgedWasAnswered
<1>1. ReplyInv => AcknowledgedWasAnswered
  BY Zenon DEF ReplyInv
<1> QED
  BY <1>1, DispatchesAreTruthful, PTL

-----------------------------------------------------------------------------
(* While nothing fails, a request handler runs once.                       *)

\* Delivery d of v stays as it is, or moves on to neither a run nor a retry.
Calms(v, d) ==
    \/ job'[v][d] = job[v][d]
    \/ /\ job'[v][d] \notin {"handling", "retrying"}
       /\ job'[v][d] # "none" => d.deaths = 0

\* No handler is started and nothing is retried.
CalmMove ==
    /\ wait' = {} /\ \A c \in queue' : c.deaths = 0
    /\ \A v \in Workers, d \in Copies : Calms(v, d)
    /\ runs' = runs

\* A handler is started for delivery c of w.
CalmRun(w, c) ==
    /\ job[w][c] \in {"buffered", "held"} /\ SetJob(w, c, "handling")
    /\ runs' = [runs EXCEPT ![c.msg] = @ + 1] /\ UNCHANGED <<mode, queue, wait>>

\* A step that starts no handler keeps OneDispatch.
LEMMA MoveKeepsOneDispatch ==
    ASSUME OneDispatch, CalmMove, executions' = executions,
           \A v \in Workers, d \in Copies :
              job'[v][d] = "handling" /\ stage'[v][d] = "entered" => stage[v][d] = "entered"
    PROVE  OneDispatch'
<1>0. wait' = {} /\ (\A c \in queue' : c.deaths = 0) /\ runs' = runs
  BY Zenon DEF CalmMove
<1>1. ASSUME NEW v \in Workers, NEW d \in Copies, job'[v][d] = "handling"
      PROVE  job[v][d] = "handling"
  BY <1>1, Zenon DEF CalmMove, Calms
<1>2. ASSUME NEW v \in Workers, NEW d \in Copies
      PROVE  /\ job'[v][d] # "retrying"
             /\ job'[v][d] # "none" => d.deaths = 0
             /\ job'[v][d] = "handling" /\ stage'[v][d] = "entered" => executions'[d.msg] = 0
  <2>1. /\ job[v][d] # "retrying" /\ (job[v][d] # "none" => d.deaths = 0)
        /\ job[v][d] = "handling" /\ stage[v][d] = "entered" => executions[d.msg] = 0
    BY Zenon DEF OneDispatch
  <2>2. Calms(v, d)
    BY Zenon DEF CalmMove
  <2>3. job'[v][d] # "retrying" /\ (job'[v][d] # "none" => d.deaths = 0)
    BY <2>1, <2>2, Zenon DEF Calms
  <2> QED
    BY <1>1, <2>1, <2>3, Zenon
<1>3. \A m \in Messages : runs'[m] <= 1 /\ executions'[m] <= runs'[m]
  BY <1>0, Zenon DEF OneDispatch
<1>4. ASSUME NEW u \in Workers, NEW v \in Workers, NEW c \in Copies, NEW d \in Copies,
             job'[u][c] = "handling", job'[v][d] = "handling", c.msg = d.msg
      PROVE  u = v /\ c = d
  <2>1. job[u][c] = "handling" /\ job[v][d] = "handling"
    BY <1>1, <1>4, Zenon
  <2> QED
    BY <1>4, <2>1, Zenon DEF OneDispatch
<1> QED
  BY <1>0, <1>2, <1>3, <1>4, SMTT(30) DEF OneDispatch

\* A step that starts one keeps it, if it is the first run of its message.
LEMMA RunKeepsOneDispatch ==
    ASSUME WorkerInv, ResponderTypes, OneDispatch, NEW w \in Workers, NEW c \in Copies,
           CalmRun(w, c), runs[c.msg] = 0, executions' = executions,
           \A v \in Workers, d \in Copies :
              job'[v][d] = "handling" /\ stage'[v][d] = "entered" => stage[v][d] = "entered"
    PROVE  OneDispatch'
<1>0. /\ TypeOK /\ c.msg \in Messages /\ runs \in [Messages -> Nat] /\ executions \in [Messages -> Nat]
      /\ "handling" \in Phases /\ "handling" # "retrying"
  BY CopyFields, Zenon DEF WorkerInv, TypeOK, ResponderTypes, Phases
<1>1. /\ job'[w][c] = "handling" /\ job[w][c] # "none" /\ job[w][c] # "handling"
      /\ \A v \in Workers, d \in Copies : v # w \/ d # c => job'[v][d] = job[v][d]
  <2>1. job[w][c] # "none" /\ job[w][c] # "handling"
    BY DEF CalmRun
  <2> QED
    BY <1>0, <2>1, JobSet, ZenonT(60) DEF CalmRun
<1>2. ASSUME NEW v \in Workers, NEW d \in Copies, d.msg = c.msg PROVE job[v][d] # "handling"
  <2>1. job[v][d] = "handling" => d.deaths + 1 <= runs[d.msg]
    BY DEF WorkerInv, DeathsWereRuns
  <2>2. d.deaths \in Nat
    BY CopyFields, WorkerConstants
  <2> QED
    BY <1>2, <2>1, <2>2
<1>3. executions[c.msg] = 0
  <2>1. executions[c.msg] <= runs[c.msg] /\ executions[c.msg] \in Nat
    BY <1>0, Zenon DEF OneDispatch
  <2> QED
    BY <2>1
<1>4. wait' = {} /\ \A d \in queue' : d.deaths = 0
  BY Zenon DEF CalmRun, OneDispatch
<1>5. ASSUME NEW v \in Workers, NEW d \in Copies
      PROVE  /\ job'[v][d] # "retrying"
             /\ job'[v][d] # "none" => d.deaths = 0
             /\ job'[v][d] = "handling" /\ stage'[v][d] = "entered" => executions'[d.msg] = 0
  <2>1. /\ job[v][d] # "retrying" /\ (job[v][d] # "none" => d.deaths = 0)
        /\ job[v][d] = "handling" /\ stage[v][d] = "entered" => executions[d.msg] = 0
    BY Zenon DEF OneDispatch
  <2>2. CASE v = w /\ d = c
    BY <1>0, <1>1, <1>3, <2>1, <2>2, Zenon
  <2>3. CASE v # w \/ d # c
    BY <1>1, <2>1, <2>3, Zenon
  <2> QED
    BY <2>2, <2>3, Zenon
<1>6. ASSUME NEW m \in Messages PROVE runs'[m] <= 1 /\ executions'[m] <= runs'[m]
  <2>1. /\ runs[m] <= 1 /\ executions[m] <= runs[m] /\ runs[m] \in Nat /\ executions[m] \in Nat
    BY <1>0, Zenon DEF OneDispatch
  <2>2. runs'[m] = IF m = c.msg THEN 1 ELSE runs[m]
    BY <1>0 DEF CalmRun
  <2> QED
    BY <1>3, <2>1, <2>2
<1>7. ASSUME NEW u \in Workers, NEW v \in Workers, NEW d \in Copies, NEW e \in Copies,
             job'[u][d] = "handling", job'[v][e] = "handling", d.msg = e.msg
      PROVE  u = v /\ d = e
  <2>1. CASE (u = w /\ d = c) \/ (v = w /\ e = c)
    <3>1. d.msg = c.msg /\ e.msg = c.msg
      BY <1>7, <2>1, Zenon
    <3>2. job[u][d] # "handling" /\ job[v][e] # "handling"
      BY <1>2, <3>1, Zenon
    <3>3. (u = w /\ d = c) /\ (v = w /\ e = c)
      BY <1>1, <1>7, <3>2, Zenon
    <3> QED
      BY <3>3, Zenon
  <2>2. CASE ~(u = w /\ d = c) /\ ~(v = w /\ e = c)
    <3>1. job[u][d] = "handling" /\ job[v][e] = "handling"
      BY <1>1, <1>7, <2>2, Zenon
    <3> QED
      BY <1>7, <3>1, Zenon DEF OneDispatch
  <2> QED
    BY <2>1, <2>2, Zenon
<1> QED
  <2>1. \A v \in Workers, d \in Copies :
           /\ job'[v][d] # "retrying"
           /\ job'[v][d] # "none" => d.deaths = 0
           /\ job'[v][d] = "handling" /\ stage'[v][d] = "entered" => executions'[d.msg] = 0
    BY <1>5, Zenon
  <2>2. \A m \in Messages : runs'[m] <= 1 /\ executions'[m] <= runs'[m]
    BY <1>6, Zenon
  <2>3. \A u, v \in Workers, d, e \in Copies :
           job'[u][d] = "handling" /\ job'[v][e] = "handling" /\ d.msg = e.msg => u = v /\ d = e
    BY <1>7, SMTT(30)
  <2> QED
    BY <1>4, <2>1, <2>2, <2>3, Zenon DEF OneDispatch

\* SetJob on a delivery that has not died, to a phase that is neither.
LEMMA SetJobCalms ==
    ASSUME TypeOK, OneDispatch, NEW w \in Workers, NEW c \in Copies, NEW p, SetJob(w, c, p),
           p \notin {"handling", "retrying"}, c.deaths = 0, runs' = runs,
           wait' = wait, \A d \in queue' : d \in queue \/ d.deaths = 0
    PROVE  CalmMove
<1>1. /\ job'[w][c] = p
      /\ \A v \in Workers, d \in Copies : v # w \/ d # c => job'[v][d] = job[v][d]
  BY Zenon DEF TypeOK, SetJob
<1>2. ASSUME NEW v \in Workers, NEW d \in Copies PROVE Calms(v, d)
  <2>1. CASE v = w /\ d = c
    BY <1>1, <2>1, Zenon DEF Calms
  <2>2. CASE v # w \/ d # c
    BY <1>1, <2>2, Zenon DEF Calms
  <2> QED
    BY <2>1, <2>2, Zenon
<1> QED
  BY <1>2, Zenon DEF CalmMove, OneDispatch

\* Giving deliveries up, and their copies back to the queue.
LEMMA GivingUpCalms ==
    ASSUME OneDispatch, runs' = runs, wait' = wait, \A d \in queue' : d \in queue \/ d.deaths = 0,
           \A v \in Workers, d \in Copies : job'[v][d] \in {job[v][d], "none"}
    PROVE  CalmMove
<1>1. ASSUME NEW v \in Workers, NEW d \in Copies PROVE Calms(v, d)
  <2>1. job'[v][d] = job[v][d] \/ job'[v][d] = "none"
    BY Zenon
  <2>2. "none" \notin {"handling", "retrying"}
    OBVIOUS
  <2> QED
    BY <2>1, <2>2, Zenon DEF Calms
<1> QED
  BY <1>1, Zenon DEF CalmMove, OneDispatch

\* A dispatch by the worker starts a handler or buries, drops or leaves the
\* delivery.
LEMMA DispatchCalms ==
    ASSUME WorkerInv, OneDispatch, NEW w \in Workers, NEW c \in Copies, Dispatch(w, c),
           job[w][c] \in {"buffered", "held"}
    PROVE  CalmMove \/ CalmRun(w, c)
<1>0. UNCHANGED <<mode, queue, wait>> /\ TypeOK /\ c.deaths = 0
  <2>1. job[w][c] # "none"
    OBVIOUS
  <2> QED
    BY <2>1, Zenon DEF Dispatch, WorkerInv, OneDispatch
<1>1. CASE ~Decodes(c) /\ HandlePoison(w, c)
  <2>1. PICK p \in {"burying", "none", "settling"} : SetJob(w, c, p) /\ runs' = runs
    BY <1>1, Zenon DEF HandlePoison
  <2>2. p \notin {"handling", "retrying"}
    BY <2>1
  <2> QED
    BY <1>0, <2>1, <2>2, SetJobCalms, Zenon
<1>2. CASE LeaveForRedelivery(w, c)
  <2>1. SetJob(w, c, "none") /\ runs' = runs /\ "none" \notin {"handling", "retrying"}
    BY <1>2 DEF LeaveForRedelivery
  <2> QED
    BY <1>0, <2>1, SetJobCalms, Zenon
<1>3. CASE RunHandler(w, c)
  BY <1>0, <1>3, Zenon DEF RunHandler, CalmRun
<1> QED
  BY <1>1, <1>2, <1>3, Zenon DEF Dispatch, AckOnReceive

\* So do all the steps of the broker and of the workers that are no fault.
LEMMA DeliveryCalms ==
    ASSUME WorkerInv, Calm, OneDispatch, Delivery, ~Fault
    PROVE  CalmMove \/ \E w \in Workers, c \in Copies : CalmRun(w, c)
<1>0. TypeOK /\ wait = {} /\ job \in [Workers -> [Copies -> Phases]]
  BY Zenon DEF WorkerInv, TypeOK, OneDispatch
<1>1. ASSUME NEW w \in Workers, NEW c \in queue, Deliver(w, c) PROVE CalmMove
  <2>1. c \in Copies /\ c.deaths = 0
    BY <1>0, <1>1, Zenon DEF TypeOK, OneDispatch
  <2>2. SetJob(w, c, "buffered") /\ UNCHANGED <<wait, runs>> /\ queue' = queue \ {c}
    BY <1>1, Zenon DEF Deliver, ghostVars
  <2>3. "buffered" \notin {"handling", "retrying"} /\ \A d \in queue' : d \in queue
    BY <2>2
  <2> QED
    BY <1>0, <2>1, <2>2, <2>3, SetJobCalms, Zenon
<1>2. ASSUME NEW w \in Workers, Cancel(w) \/ Start(w) \/ \E c \in acks[w] : AckArrives(w, c)
      PROVE  CalmMove
  <2>1. UNCHANGED <<queue, wait, job, runs>>
    BY <1>2, Zenon DEF Cancel, Start, AckArrives, brokerVars, workerVars, ghostVars
  <2>2. \A v \in Workers, d \in Copies : job'[v][d] \in {job[v][d], "none"}
    BY <2>1, Zenon
  <2> QED
    BY <2>1, <2>2, GivingUpCalms, Zenon
<1>3. ASSUME NEW w \in Workers, ConnectionLost(w) \/ ConnectionNoticed(w) PROVE FALSE
  <2>1. chan[w] = "cut"
    BY <1>3, Zenon DEF ConnectionLost, ConnectionNoticed
  <2>2. chan[w] # "open" /\ chan[w] # "closed"
    BY <2>1
  <2> QED
    BY <2>2, Zenon DEF Calm, WorkerInv, WorkerShape
<1>4. CASE BrokerStep
  BY <1>0, <1>1, <1>2, <1>3, <1>4, Zenon DEF BrokerStep
<1>5. ASSUME NEW w \in Workers, NEW c \in Jobs(w), JobStep(w, c)
      PROVE  CalmMove \/ CalmRun(w, c)
  <2>0. c \in Copies /\ c.deaths = 0 /\ job[w][c] # "retrying"
    BY Zenon DEF Jobs, OneDispatch
  <2>1. CASE Take(w, c) \/ AcquirePermit(w, c)
    <3>1. job[w][c] \in {"buffered", "held"}
      BY <2>1, Zenon DEF Take, AcquirePermit
    <3>2. CASE Dispatch(w, c)
      BY <2>0, <3>1, <3>2, DispatchCalms, Zenon
    <3>3. CASE ~Dispatch(w, c)
      <4>1. SetJob(w, c, "held") /\ UNCHANGED <<queue, wait, runs>>
        BY <2>1, <3>3, Zenon DEF Take, AcquirePermit, brokerVars, ghostVars
      <4>2. "held" \notin {"handling", "retrying"}
        OBVIOUS
      <4> QED
        BY <1>0, <2>0, <4>1, <4>2, SetJobCalms, Zenon
    <3> QED
      BY <3>2, <3>3, Zenon
  <2>2. CASE RetryCopyStored(w, c)
    BY <2>0, <2>2, Zenon DEF RetryCopyStored
  <2>3. CASE DeadLetterStored(w, c) \/ Confirmed(w, c) \/ PublishLost(w, c) \/ Requeue(w, c)
             \/ SettleDelivery(w, c)
    <3>1. PICK p \in {"confirming", "none", "settling", "requeueing"} :
             SetJob(w, c, p) /\ UNCHANGED <<wait, runs>> /\ (queue' = queue \/ queue' = queue \cup {c})
      BY <2>3, Zenon DEF DeadLetterStored, Confirmed, PublishLost, Requeue, SettleDelivery,
                         AfterFailedPublish, brokerVars, ghostVars
    <3>2. p \notin {"handling", "retrying"}
      BY <3>1
    <3>3. \A d \in queue' : d \in queue \/ d.deaths = 0
      BY <2>0, <3>1, Zenon
    <3> QED
      BY <1>0, <2>0, <3>1, <3>2, <3>3, SetJobCalms, ZenonT(60)
  <2>4. CASE PublishRefused(w, c) \/ Unroutable(w, c)
    BY <2>4, Zenon DEF PublishRefused, Unroutable
  <2> QED
    BY <1>5, <2>1, <2>2, <2>3, <2>4, Zenon DEF JobStep, SettlementStep
<1>6. ASSUME NEW w \in Workers, WorkerStep(w) PROVE CalmMove
  <2>1. CASE LeaveLoop(w)
    <3>1. /\ UNCHANGED <<queue, wait, runs>>
          /\ job' = [job EXCEPT ![w] = [c \in Copies |-> IF @[c] = "held" THEN "none" ELSE @[c]]]
      BY <2>1, Zenon DEF LeaveLoop, brokerVars, ghostVars
    <3>2. \A v \in Workers, d \in Copies : job'[v][d] \in {job[v][d], "none"}
      BY <1>0, <3>1
    <3> QED
      BY <3>1, <3>2, GivingUpCalms, Zenon
  <2>2. CASE Drained(w) \/ GraceExpires(w)
    <3>1. /\ UNCHANGED <<wait, runs>> /\ queue' = queue \cup unacked[w] /\ loop[w] = "draining"
          /\ job' = [job EXCEPT ![w] = [c \in Copies |-> "none"]]
      BY <2>2, Zenon DEF Drained, GraceExpires, Return, NoJobs, ghostVars
    <3>2. chan[w] = "open"
      BY <3>1 DEF Calm
    <3>3. ASSUME NEW d \in unacked[w] PROVE d.deaths = 0
      <4>1. d \in Jobs(w)
        BY <3>2, ZenonT(60) DEF WorkerInv, PrefetchIsWorkedOn
      <4> QED
        BY <4>1, Zenon DEF Jobs, OneDispatch
    <3>4. \A v \in Workers, d \in Copies : job'[v][d] \in {job[v][d], "none"}
      BY <1>0, <3>1
    <3>5. \A d \in queue' : d \in queue \/ d.deaths = 0
      BY <3>1, <3>3, Zenon
    <3> QED
      BY <3>1, <3>4, <3>5, GivingUpCalms, Zenon
  <2>3. CASE Crash(w)
    BY <2>3, Zenon DEF Crash
  <2> QED
    BY <1>2, <1>6, <2>1, <2>2, <2>3, Zenon DEF WorkerStep
<1> QED
  BY <1>4, <1>5, <1>6, ZenonT(60) DEF Delivery, Jobs

\* A dispatch that returns without a failed publication is not retried.
LEMMA ReturnCalms ==
    ASSUME WorkerInv, OneDispatch, NEW w \in Workers, NEW c \in Jobs(w), NEW outcome,
           Returns(w, c, outcome), outcome \in {"ok", "permanent"}
    PROVE  CalmMove
<1>0. c \in Copies /\ c.deaths = 0 /\ TypeOK
  BY Zenon DEF Jobs, OneDispatch, WorkerInv
<1>1. UNCHANGED <<queue, wait, runs>>
  BY Zenon DEF Returns, HandlerReturns, brokerVars
<1>2. PICK p \in {"none", "settling", "burying"} : SetJob(w, c, p)
  <2>1. CASE outcome = "ok"
    BY <2>1, Zenon DEF Returns, HandlerReturns, ManualOutcome
  <2>2. CASE outcome = "permanent"
    <3>1. outcome # "ok"
      BY <2>2
    <3> QED
      BY <2>2, <3>1, Zenon DEF Returns, HandlerReturns, ManualOutcome
  <2> QED
    BY <2>1, <2>2, Zenon
<1>3. p \notin {"handling", "retrying"}
  BY <1>2
<1> QED
  BY <1>0, <1>1, <1>2, <1>3, SetJobCalms, Zenon

\* The guards of a dispatch are passed once, and with them the request handler
\* is called once.
LEMMA ProceedKeepsOneDispatch ==
    ASSUME WorkerInv, ResponderTypes, OneDispatch, NEW w \in Workers, NEW c \in Copies,
           job[w][c] = "handling", NEW next, NEW at, Proceeds(w, c, next, at), next # "entered",
           \/ executions' = executions
           \/ stage[w][c] = "entered" /\ executions' = [executions EXCEPT ![c.msg] = @ + 1]
    PROVE  OneDispatch'
<1>0. /\ UNCHANGED <<queue, wait, job, runs>> /\ stage' = [stage EXCEPT ![w][c] = next]
      /\ c.msg \in Messages /\ executions \in [Messages -> Nat] /\ runs \in [Messages -> Nat]
  BY CopyFields, Zenon DEF Proceeds, vars, brokerVars, workerVars, ghostVars, ResponderTypes,
                           WorkerInv, TypeOK
<1>1. /\ stage'[w][c] = next
      /\ \A v \in Workers, d \in Copies : v # w \/ d # c => stage'[v][d] = stage[v][d]
  <2>1. stage \in [Workers -> [Copies -> {"entered", "serving", "replying", "confirming"}]]
    BY Zenon DEF ResponderTypes
  <2> QED
    BY <1>0, <2>1, Zenon
<1>2. CASE executions' = executions
  <2>1. CalmMove
    BY <1>0, Zenon DEF CalmMove, Calms, OneDispatch
  <2> QED
    BY <1>1, <1>2, <2>1, MoveKeepsOneDispatch, Zenon
<1>3. CASE stage[w][c] = "entered" /\ executions' = [executions EXCEPT ![c.msg] = @ + 1]
  <2>1. executions[c.msg] = 0
    BY <1>3, Zenon DEF OneDispatch
  <2>2. runs[c.msg] >= 1
    <3>1. c.deaths + 1 <= runs[c.msg]
      BY DEF WorkerInv, DeathsWereRuns
    <3>2. c.deaths \in Nat
      BY CopyFields, WorkerConstants
    <3> QED
      BY <1>0, <3>1, <3>2
  <2>3. \A m \in Messages : executions'[m] = IF m = c.msg THEN 1 ELSE executions[m]
    BY <1>0, <1>3, <2>1
  <2>4. ASSUME NEW m \in Messages PROVE runs'[m] <= 1 /\ executions'[m] <= runs'[m]
    <3>1. runs[m] <= 1 /\ executions[m] <= runs[m]
      BY Zenon DEF OneDispatch
    <3> QED
      BY <1>0, <2>2, <2>3, <3>1
  <2>5. ASSUME NEW v \in Workers, NEW d \in Copies, job[v][d] = "handling", stage'[v][d] = "entered"
        PROVE  executions'[d.msg] = 0
    <3>1. v # w \/ d # c
      BY <1>1, <2>5, Zenon
    <3>2. stage[v][d] = "entered" /\ d.msg \in Messages
      BY <1>1, <2>5, <3>1, CopyFields, Zenon
    <3>3. d.msg # c.msg
      BY <2>5, <3>1, ZenonT(60) DEF OneDispatch
    <3>4. executions[d.msg] = 0
      BY <2>5, <3>2, Zenon DEF OneDispatch
    <3> QED
      BY <2>3, <3>2, <3>3, <3>4, Zenon
  <2> QED
    BY <1>0, <2>4, <2>5, SMTT(30) DEF OneDispatch
<1> QED
  BY <1>2, <1>3, Zenon

\* The number of failed replies only goes down, and goes down by ReplyFails.
LEMMA HiccupsCountDown ==
    ASSUME [RNext]_allVars
    PROVE  hiccups' = hiccups \/ (hiccups > 0 /\ hiccups' = hiccups - 1)
<1>1. CASE Under(Delivery)
  BY <1>1, Zenon DEF Under
<1>2. CASE InboxLost \/ Tick \/ (\E m \in Messages : Request(m)) \/ UNCHANGED allVars
  BY <1>2, Zenon DEF InboxLost, Tick, Request, allVars, responderVars
<1>3. CASE \E w \in Workers : \E c \in Jobs(w) : Admit(w, c) \/ Complete(w, c) \/ Reply(w, c)
  BY <1>3, ZenonT(60) DEF Admit, Complete, Reply, ReplyStored, ReplyConfirmed, ReplyFails,
                     ReplyUndeliverable
<1> QED
  BY <1>1, <1>2, <1>3, Zenon DEF RNext

\* A step that is no fault and no failed reply keeps OneDispatch.
LEMMA NextKeepsOneDispatch ==
    ASSUME WorkerInv, Calm, ReplyInv, OneDispatch, [RNext]_allVars, ~Fault, hiccups' = hiccups,
           TypeOK', Calm', AtMostOnce'
    PROVE  OneDispatch'
<1>0. ResponderTypes /\ hiccups \in Nat
  BY Zenon DEF ReplyInv, ResponderTypes
<1>1. ASSUME Follow, NEW v \in Workers, NEW d \in Copies, job'[v][d] = "handling",
             stage'[v][d] = "entered"
      PROVE  stage[v][d] = "entered"
  BY <1>1, Followed, Zenon
<1>2. CASE Under(Delivery)
  <2>1. Delivery /\ Follow /\ executions' = executions
    BY <1>2, Zenon DEF Under
  <2>2. CASE CalmMove
    BY <1>1, <2>1, <2>2, MoveKeepsOneDispatch, Zenon
  <2>3. ASSUME NEW w \in Workers, NEW c \in Copies, CalmRun(w, c) PROVE OneDispatch'
    <3>1. /\ c.msg \in Messages /\ runs \in [Messages -> Nat]
          /\ runs' = [runs EXCEPT ![c.msg] = @ + 1] /\ mode' = mode
          /\ job[w][c] \in {"buffered", "held"}
      BY <2>3, CopyFields, ZenonT(60) DEF CalmRun, WorkerInv, TypeOK
    <3>2. CASE mode = "Manual"
      <4>1. job[w][c] = "buffered"
        BY <3>1, <3>2, ZenonT(60) DEF WorkerInv, WorkerShape
      <4>2. job[w][c] # "none"
        BY <4>1
      <4>3. runs[c.msg] = c.deaths /\ c.deaths = 0
        BY <3>2, <4>1, <4>2, TokenCounts, ZenonT(60) DEF OneDispatch
      <4> QED
        BY <1>0, <1>1, <2>1, <2>3, <4>3, RunKeepsOneDispatch, ZenonT(60)
    <3>3. CASE mode # "Manual"
      <4>1. ~(runs'[c.msg] > 1)
        BY <3>1, <3>3, ZenonT(60) DEF AtMostOnce, Calm
      <4>2. runs[c.msg] = 0
        BY <3>1, <4>1
      <4> QED
        BY <1>0, <1>1, <2>1, <2>3, <4>2, RunKeepsOneDispatch, ZenonT(60)
    <3> QED
      BY <3>2, <3>3, Zenon
  <2> QED
    BY <2>1, <2>2, <2>3, DeliveryCalms, Zenon
<1>3. ASSUME NEW m \in Messages, Request(m) PROVE OneDispatch'
  <2>1. UNCHANGED <<wait, job, runs, executions, stage>>
    BY <1>3, Zenon DEF Request, Publish, workerVars, dispatchVars
  <2>2. \E c \in Copies : c.deaths = 0 /\ queue' = queue \cup {c}
    BY <1>3, Zenon DEF Request, Publish, Fresh
  <2>3. CalmMove
    BY <2>1, <2>2, Zenon DEF CalmMove, Calms, OneDispatch
  <2> QED
    BY <2>1, <2>3, MoveKeepsOneDispatch, Zenon
<1>4. CASE InboxLost \/ Tick \/ UNCHANGED allVars
  <2>1. UNCHANGED <<queue, wait, job, runs, executions, stage>>
    BY <1>4, Zenon DEF InboxLost, Tick, allVars, vars, brokerVars, workerVars, ghostVars,
                       responderVars, dispatchVars
  <2>2. CalmMove
    BY <2>1, Zenon DEF CalmMove, Calms, OneDispatch
  <2> QED
    BY <2>1, <2>2, MoveKeepsOneDispatch, Zenon
<1>5. ASSUME NEW w \in Workers, NEW c \in Jobs(w), Admit(w, c) \/ Complete(w, c) \/ Reply(w, c)
      PROVE  OneDispatch'
  <2>0. c \in Copies /\ "serving" # "entered" /\ "replying" # "entered" /\ "confirming" # "entered"
    BY DEF Jobs
  <2>1. ASSUME NEW outcome \in {"ok", "permanent"}, Returns(w, c, outcome), executions' = executions
        PROVE  OneDispatch'
    <3>1. CalmMove /\ Follow
      BY <2>1, ReturnCalms, Zenon DEF Returns
    <3> QED
      BY <1>1, <2>1, <3>1, MoveKeepsOneDispatch, Zenon
  <2>2. CASE Admit(w, c)
    <3>1. job[w][c] = "handling" /\ stage[w][c] = "entered"
      BY <2>2, Zenon DEF Admit
    <3>2. \/ Returns(w, c, "ok") /\ executions' = executions
          \/ Proceeds(w, c, "replying", Absent) /\ executions' = executions
          \/ /\ \E at : Proceeds(w, c, "serving", at)
             /\ executions' = [executions EXCEPT ![c.msg] = @ + 1]
      BY <2>2, Zenon DEF Admit
    <3> QED
      BY <1>0, <2>0, <2>1, <3>1, <3>2, ProceedKeepsOneDispatch, Zenon
  <2>3. CASE Complete(w, c) \/ ReplyStored(w, c)
    <3>1. /\ job[w][c] = "handling" /\ executions' = executions
          /\ \/ Returns(w, c, "ok")
             \/ \E at : Proceeds(w, c, "replying", at) \/ Proceeds(w, c, "confirming", at)
      BY <2>3, Zenon DEF Complete, ReplyStored
    <3> QED
      BY <1>0, <2>0, <2>1, <3>1, ProceedKeepsOneDispatch, Zenon
  <2>4. CASE ReplyConfirmed(w, c) \/ ReplyUndeliverable(w, c)
    BY <2>1, <2>4, Zenon DEF ReplyConfirmed, ReplyUndeliverable
  <2>5. CASE ReplyFails(w, c)
    <3>1. hiccups' = hiccups - 1
      BY <2>5, Zenon DEF ReplyFails
    <3> QED
      BY <1>0, <3>1
  <2> QED
    BY <1>5, <2>2, <2>3, <2>4, <2>5, ZenonT(60) DEF Reply
<1> QED
  BY <1>2, <1>3, <1>4, <1>5, Zenon DEF RNext

\* Every step keeps RerunInv, on top of what is known of the workers.
LEMMA NextKeepsRerunInv ==
    ASSUME WorkerInv, CalmInv, ReplyInv, RerunInv, [RNext]_allVars, TypeOK', CalmInv', AtMostOnce'
    PROVE  RerunInv'
<1>0. /\ hiccups \in Nat /\ MaxHiccups \in Nat /\ hiccups <= MaxHiccups
      /\ faults \in Nat /\ MaxFaults \in Nat /\ faults <= MaxFaults
  BY WorkerConstants, ResponderConstants, ZenonT(60)
     DEF ReplyInv, ResponderTypes, RerunInv, WorkerInv, TypeOK, CalmInv
<1>1. hiccups' <= MaxHiccups /\ (hiccups' = MaxHiccups => hiccups' = hiccups)
  BY <1>0, HiccupsCountDown
<1>2. faults' = MaxFaults => faults' = faults /\ ~Fault
  <2>1. faults' = faults \/ Fault
    BY WorkerUnderneath, FaultsCountDown, Zenon
  <2> QED
    BY <1>0, <2>1 DEF Fault
<1>3. ASSUME faults' = MaxFaults, hiccups' = MaxHiccups PROVE OneDispatch'
  <2>1. Calm /\ OneDispatch /\ Calm' /\ ~Fault /\ hiccups' = hiccups
    BY <1>1, <1>2, <1>3, Zenon DEF CalmInv, RerunInv
  <2> QED
    BY <2>1, NextKeepsOneDispatch, Zenon
<1> QED
  BY <1>1, <1>3, Zenon DEF RerunInv

\* As long as nothing fails, a request is dispatched once and not retried.
THEOREM OneDispatchWhileNothingFails == RSpec => []RerunInv
<1>1. RInit => RerunInv
  <2> SUFFICES ASSUME RInit PROVE RerunInv
    BY Zenon
  <2>1. OneDispatch
    BY DEF RInit, Init, OneDispatch
  <2>2. MaxHiccups <= MaxHiccups
    BY ResponderConstants
  <2>3. hiccups = MaxHiccups
    BY Zenon DEF RInit
  <2> QED
    BY <2>1, <2>2, <2>3, ZenonT(60) DEF RerunInv
<1>2. WorkerInv /\ CalmInv /\ ReplyInv /\ RerunInv /\ [RNext]_allVars
      /\ TypeOK' /\ CalmInv' /\ AtMostOnce' => RerunInv'
  BY NextKeepsRerunInv, Zenon
<1>3. WorkerInv => TypeOK
  BY Zenon DEF WorkerInv
<1> QED
  BY <1>1, <1>2, <1>3, WorkerFacts, DispatchesAreTruthful, PTL DEF RSpec

\* A request handler runs twice for a request only after a crash, a lost
\* connection or a failed publication: RepliedHandler turns neither the
\* failure of the handler nor an inbox that is gone into a retry, and the
\* worker underneath retries nothing else.
THEOREM RerunsAreFaults == RSpec => []RerunOnlyAfterFault
<1>1. ReplyInv /\ WorkerInv /\ CalmInv /\ RerunInv => RerunOnlyAfterFault
  <2> SUFFICES ASSUME ReplyInv, WorkerInv, CalmInv, RerunInv, NEW m \in Messages, executions[m] > 1,
                      ~(faults < MaxFaults), ~(hiccups < MaxHiccups)
               PROVE  FALSE
    BY Zenon DEF RerunOnlyAfterFault
  <2>1. /\ hiccups \in Nat /\ MaxHiccups \in Nat /\ hiccups <= MaxHiccups
        /\ faults \in Nat /\ MaxFaults \in Nat /\ faults <= MaxFaults
        /\ executions[m] \in Nat /\ runs[m] \in Nat
    BY WorkerConstants, ResponderConstants, ZenonT(60)
       DEF ReplyInv, ResponderTypes, RerunInv, WorkerInv, TypeOK, CalmInv
  <2>2. faults = MaxFaults /\ hiccups = MaxHiccups
    BY <2>1
  <2>3. runs[m] <= 1 /\ executions[m] <= runs[m]
    BY <2>2, Zenon DEF RerunInv, OneDispatch
  <2> QED
    BY <2>1, <2>3
<1> QED
  BY <1>1, WorkerFacts, DispatchesAreTruthful, OneDispatchWhileNothingFails, PTL

=============================================================================
