------------------------------ MODULE Responder ------------------------------
(***************************************************************************)
(* The responder side of request/reply: RepliedHandler (hexeract-bus,      *)
(* replied_handler.rs) as the handler of the workers of RabbitMqWorker,    *)
(* with the deadlines of deadline.rs and rpc_protocol.rs.                  *)
(*                                                                         *)
(* A message is a request.  What its headers and payload are worth is      *)
(* chosen once; its deadline is stamped when it is published, by the clock *)
(* of the caller, which is the one that now counts.  The clock of the      *)
(* responders is off by skew, within the tolerance.                        *)
(***************************************************************************)
EXTENDS RabbitMqWorker

CONSTANTS
    Timeouts,      \* timeouts of the callers
    Horizon,       \* MAX_DEADLINE_HORIZON
    Tolerance,     \* CLOCK_SKEW_TOLERANCE
    Skews,         \* how far the clocks of two machines may be apart
    MaxTime,       \* bound: how far time goes
    MaxHiccups     \* bound: failed publications of a reply

ASSUME ResponderConstants ==
    /\ Timeouts \subseteq Nat /\ Horizon \in Nat /\ Tolerance \in Nat
    /\ Skews \subseteq (-Tolerance)..Tolerance
    /\ MaxTime \in Nat /\ MaxHiccups \in Nat

VARIABLES
    shape,       \* shape[m]: what is wrong with request m, never changed
    timeout,     \* timeout[m]: how long its caller waits, never changed
    skew,        \* what the responders' wall clock adds to now, never changed
    now,
    deadline,    \* deadline[m]: the header of m, Absent for none
    stage,       \* stage[w][c]: how far dispatch is with a delivery
    until,       \* until[w][c]: its LocalDeadline, Absent for none
    inbox,       \* the reply inbox of the callers exists
    hiccups,     \* budget left
    executions,  \* ghost, executions[m]: runs of the request handler
    answered     \* ghost: requests whose caller was sent a reply

requestVars == <<shape, timeout, skew>>
dispatchVars == <<stage, until>>
responderVars == <<requestVars, now, deadline, dispatchVars, inbox, hiccups, executions, answered>>
allVars == <<vars, responderVars>>

Absent == -1
Shapes == {"good", "unanswerable", "unsupported", "undecodable"}

RInit ==
    /\ Init
    /\ shape \in [Messages -> Shapes] /\ timeout \in [Messages -> Timeouts]
    /\ \A m \in Poison : shape[m] = "good" /\ timeout[m] = Horizon   \* never read
    /\ skew \in Skews
    /\ now = 0 /\ deadline = [m \in Messages |-> Absent]
    /\ stage = [w \in Workers |-> [c \in Copies |-> "entered"]]
    /\ until = [w \in Workers |-> [c \in Copies |-> Absent]]
    /\ inbox = TRUE /\ hiccups = MaxHiccups
    /\ executions = [m \in Messages |-> 0] /\ answered = {}

-----------------------------------------------------------------------------
(* Deadlines.                                                              *)

\* Deadline::within_horizon: no deadline is announced beyond the horizon.
WithinHorizon(m) == IF timeout[m] <= Horizon THEN now + timeout[m] ELSE Absent

\* Mutant: the tolerance is not applied.
AnchorWithoutTolerance(d, wall) ==
    CASE d > wall + Horizon -> [reading |-> "invalid", at |-> Absent]
      [] d <= wall + Horizon /\ d < wall -> [reading |-> "expired", at |-> Absent]
      [] OTHER -> [reading |-> "live", at |-> now + d - wall]

\* Deadline::anchor: the wall clock is read once; what remains is counted on
\* the monotonic clock from then on.
Anchor(d, wall) ==
    CASE d > wall + Horizon -> [reading |-> "invalid", at |-> Absent]
      [] d <= wall + Horizon /\ d + Tolerance < wall -> [reading |-> "expired", at |-> Absent]
      [] OTHER -> [reading |-> "live", at |-> now + d + Tolerance - wall]

\* read_deadline
ReadDeadline(m) ==
    IF deadline[m] = Absent THEN [reading |-> "absent", at |-> Absent]
    ELSE Anchor(deadline[m], now + skew)

\* LocalDeadline::is_expired
IsExpired(w, c) == until[w][c] # Absent /\ now > until[w][c]

-----------------------------------------------------------------------------
(* dispatch of RepliedHandler                                              *)

\* A delivery that is no longer handled has no dispatch.
Follow ==
    LET kept(w, c) == job'[w][c] = "handling"
    IN  /\ stage' = [w \in Workers |-> [c \in Copies |->
                         IF kept(w, c) THEN stage[w][c] ELSE "entered"]]
        /\ until' = [w \in Workers |-> [c \in Copies |->
                         IF kept(w, c) THEN until[w][c] ELSE Absent]]

\* The dispatch returns to the worker.
Returns(w, c, outcome) ==
    /\ HandlerReturns(w, c, outcome) /\ Follow
    /\ UNCHANGED <<requestVars, now, deadline, inbox>>

\* It goes on to another await.
Proceeds(w, c, next, at) ==
    /\ stage' = [stage EXCEPT ![w][c] = next] /\ until' = [until EXCEPT ![w][c] = at]
    /\ UNCHANGED <<vars, requestVars, now, deadline, inbox>>

\* Guards 1, 2 (no usable reply_to or request id) and the elapsed case of
\* guard 4: dropped in silence.
Silent(m, reading) ==
    \/ shape[m] = "unanswerable"
    \/ shape[m] # "unsupported" /\ reading = "expired"

\* Guards 3, 5 and the unusable case of guard 4: answered with an error.
Rejected(m, reading) == shape[m] \in {"unsupported", "undecodable"} \/ reading = "invalid"

\* The five guards, then the request handler is called.
Admit(w, c) ==
    LET m == c.msg  d == ReadDeadline(m)
    IN  /\ job[w][c] = "handling" /\ stage[w][c] = "entered"
        /\ \/ Silent(m, d.reading) /\ Returns(w, c, "ok") /\ UNCHANGED executions
           \/ /\ ~Silent(m, d.reading) /\ Rejected(m, d.reading)
              /\ Proceeds(w, c, "replying", Absent) /\ UNCHANGED executions
           \/ /\ ~Silent(m, d.reading) /\ ~Rejected(m, d.reading)
              /\ Proceeds(w, c, "serving", d.at)
              /\ executions' = [executions EXCEPT ![m] = @ + 1]
        /\ UNCHANGED <<hiccups, answered>>

\* Mutant: the failure of the handler is returned to the worker.
CompletePropagates(w, c) ==
    /\ job[w][c] = "handling" /\ stage[w][c] = "serving"
    /\ Proceeds(w, c, "replying", Absent) \/ Returns(w, c, "error")
    /\ UNCHANGED <<hiccups, executions, answered>>

\* The request handler returns.  Its failure is a reply as well; a reply past
\* the deadline is suppressed.
Complete(w, c) ==
    /\ job[w][c] = "handling" /\ stage[w][c] = "serving"
    /\ \/ IsExpired(w, c) /\ Returns(w, c, "ok")
       \/ ~IsExpired(w, c) /\ Proceeds(w, c, "replying", until[w][c])
    /\ UNCHANGED <<hiccups, executions, answered>>

\* deliver_reply: the broker stores the reply, and confirms it.
ReplyStored(w, c) ==
    /\ job[w][c] = "handling" /\ stage[w][c] = "replying" /\ inbox
    /\ answered' = answered \cup {c.msg}
    /\ Proceeds(w, c, "confirming", until[w][c])
    /\ UNCHANGED <<hiccups, executions>>

ReplyConfirmed(w, c) ==
    /\ job[w][c] = "handling" /\ stage[w][c] = "confirming"
    /\ Returns(w, c, "ok") /\ UNCHANGED <<hiccups, executions, answered>>

\* Mutant: a transport failure is swallowed.
ReplyFailsSilently(w, c) ==
    /\ job[w][c] = "handling" /\ stage[w][c] \in {"replying", "confirming"}
    /\ hiccups > 0 /\ hiccups' = hiccups - 1
    /\ Returns(w, c, "ok") /\ UNCHANGED <<executions, answered>>

\* The publication or its confirm fails: the request is retried.
ReplyFails(w, c) ==
    /\ job[w][c] = "handling" /\ stage[w][c] \in {"replying", "confirming"}
    /\ hiccups > 0 /\ hiccups' = hiccups - 1
    /\ Returns(w, c, "error") /\ UNCHANGED <<executions, answered>>

\* ReplyUndeliverable: the inbox is gone for good, and no retry can help.
ReplyUndeliverable(w, c) ==
    /\ job[w][c] = "handling" /\ stage[w][c] = "replying" /\ ~inbox
    /\ Returns(w, c, "permanent") /\ UNCHANGED <<hiccups, executions, answered>>

-----------------------------------------------------------------------------
(* The callers, time, and the worker underneath.                           *)

\* The request client stamps the deadline and publishes.
Request(m) ==
    /\ Publish(m)
    /\ deadline' = [deadline EXCEPT ![m] = WithinHorizon(m)]
    /\ UNCHANGED <<requestVars, now, dispatchVars, inbox, hiccups, executions, answered>>

\* The connection of the callers ends, and with it their exclusive inbox.
InboxLost ==
    /\ inbox /\ inbox' = FALSE
    /\ UNCHANGED <<vars, requestVars, now, deadline, dispatchVars, hiccups, executions, answered>>

\* Time starts with the first request.
Tick ==
    /\ sent # {} /\ now < MaxTime /\ now' = now + 1
    /\ UNCHANGED <<vars, requestVars, deadline, dispatchVars, inbox, hiccups, executions, answered>>

Under(step) ==
    /\ step /\ Follow
    /\ UNCHANGED <<requestVars, now, deadline, inbox, hiccups, executions, answered>>

Reply(w, c) ==
    ReplyStored(w, c) \/ ReplyConfirmed(w, c) \/ ReplyFails(w, c) \/ ReplyUndeliverable(w, c)

RNext ==
    \/ Under(Delivery)
    \/ \E m \in Messages : Request(m)
    \/ InboxLost \/ Tick
    \/ \E w \in Workers : \E c \in Jobs(w) : Admit(w, c) \/ Complete(w, c) \/ Reply(w, c)

RSpec == RInit /\ [][RNext]_allVars

\* What the broker, the worker tasks and the supervisor keep doing.  The
\* guards and the reply make progress; a request handler need not return.
RFairSpec ==
    /\ RSpec
    /\ WF_allVars(\E c \in wait : Under(Expire(c)))
    /\ WF_allVars(\E w \in Workers : \E c \in queue : Under(Deliver(w, c)))
    /\ \A w \in Workers :
          /\ WF_allVars(\E c \in Jobs(w) : Under(Take(w, c) \/ AcquirePermit(w, c)))
          /\ WF_allVars(\E c \in Jobs(w) : Under(SettlementStep(w, c)))
          /\ WF_allVars(\E c \in Jobs(w) : Admit(w, c) \/ Reply(w, c))
          /\ WF_allVars(Under((\E c \in acks[w] : AckArrives(w, c)) \/ ConnectionNoticed(w)))
          /\ WF_allVars(Under(LeaveLoop(w)))
          /\ WF_allVars(Under(Drained(w) \/ GraceExpires(w) \/ Start(w)))

-----------------------------------------------------------------------------
(* Properties.                                                             *)

\* The caller of m has not given up.
StillWaiting(m) == deadline[m] = Absent \/ now <= deadline[m]

\* A worker acknowledges a request as handled only if its caller has been
\* sent a reply, cannot be sent one, or has given up: no retry, lost reply or
\* clock within the tolerance silences a caller that still waits.
AcknowledgedWasAnswered ==
    \A m \in handled :
        m \in answered \/ shape[m] = "unanswerable" \/ ~StillWaiting(m)

\* A request handler runs twice for a request only after a crash, a lost
\* connection or a failed publication: neither its own failure nor an inbox
\* that is gone makes the worker retry the request.
RerunOnlyAfterFault ==
    \A m \in Messages :
        executions[m] > 1 => faults < MaxFaults \/ hiccups < MaxHiccups

-----------------------------------------------------------------------------
(* The inductive invariants.                                               *)

ResponderTypes ==
    /\ shape \in [Messages -> Shapes] /\ timeout \in [Messages -> Timeouts] /\ skew \in Skews
    /\ now \in Nat /\ deadline \in [Messages -> Nat \cup {Absent}]
    /\ stage \in [Workers -> [Copies -> {"entered", "serving", "replying", "confirming"}]]
    /\ until \in [Workers -> [Copies -> Nat \cup {Absent}]]
    /\ hiccups \in Nat /\ executions \in [Messages -> Nat]

\* What a dispatch knows: a confirm is awaited for a reply that was sent, and
\* the local deadline is never ahead of the one the caller announced.
DispatchIsTruthful ==
    \A w \in Workers, c \in Copies :
        /\ job[w][c] # "handling" => stage[w][c] = "entered" /\ until[w][c] = Absent
        /\ stage[w][c] = "confirming" => c.msg \in answered
        /\ until[w][c] # Absent => deadline[c.msg] # Absent /\ deadline[c.msg] <= until[w][c]

ReplyInv == ResponderTypes /\ DispatchIsTruthful /\ AcknowledgedWasAnswered

\* As long as nothing fails, no request is retried, one delivery of it is
\* dispatched, and that one calls its request handler once.
OneDispatch ==
    /\ wait = {} /\ \A c \in queue : c.deaths = 0
    /\ \A w \in Workers, c \in Copies :
          /\ job[w][c] # "retrying"
          /\ job[w][c] # "none" => c.deaths = 0
          /\ job[w][c] = "handling" /\ stage[w][c] = "entered" => executions[c.msg] = 0
    /\ \A m \in Messages : runs[m] <= 1 /\ executions[m] <= runs[m]
    /\ \A u, w \in Workers, c, d \in Copies :
          job[u][c] = "handling" /\ job[w][d] = "handling" /\ c.msg = d.msg => u = w /\ c = d

RerunInv ==
    /\ hiccups <= MaxHiccups
    /\ faults = MaxFaults /\ hiccups = MaxHiccups => OneDispatch
=============================================================================
