---------------------------- MODULE RequestReply ----------------------------
(***************************************************************************)
(* Request-reply over the bus: the calls of one RequestClient, the         *)
(* RequestRegistry that routes replies to them, the supervisor that keeps  *)
(* the client's exclusive reply inbox alive, and RequestClient::close      *)
(* (hexeract-bus, hexeract-bus-rabbitmq).                                  *)
(*                                                                         *)
(* A step is what happens under one lock or between two awaits.  The       *)
(* reply inbox of each connection has a number; RabbitMQ deletes it with   *)
(* the connection.  A deadline may pass at any time, and a caller may drop *)
(* its call at any time.                                                   *)
(***************************************************************************)
EXTENDS Integers, FiniteSets, Sequences, SequencesExt

CONSTANTS
    Calls,        \* the calls made on the client and its clones
    Closers,      \* the tasks that call RequestClient::close
    MaxInFlight,  \* RequestRegistry::max_in_flight
    MaxInboxes,   \* bound: the inboxes the broker ever lets the client declare
    MaxAnswers    \* bound: the replies sent to one request (redelivery answers twice)

ASSUME RequestConstants ==
    /\ IsFiniteSet(Calls) /\ IsFiniteSet(Closers)
    /\ MaxInFlight \in Nat /\ MaxAnswers \in Nat
    /\ MaxInboxes \in Nat \ {0}

VARIABLES
    pc,        \* pc[c]: where call c is in request_attempt
    result,    \* result[c]: what it returned
    replyTo,   \* replyTo[c]: the inbox it stamped on its request, 0 before
    sent,      \* sent[c]: the broker accepted the request
    answers,   \* answers[c]: replies the responders have sent to it
    wire,      \* replies in an inbox: pairs of a call and whether it is acceptable
    slots,     \* RegistryState::slots
    mail,      \* mail[c]: the oneshot channel of c's slot
    retired,   \* RetiredSlots, oldest first
    closed,    \* RegistryState::closed
    closing,   \* PublicationState::closing
    permits,   \* the calls that hold a PublicationPermit (in_flight counts them)
    drained,   \* the watch channel PublicationLifecycle::drained
    cancel,    \* the cancellation token the client shares with its supervisor
    inbox,     \* ReplyInboxState: the number of a Ready inbox, 0 when Reconnecting
    latest,    \* the inbox the supervisor opened last
    live,      \* whether the connection of that inbox is up
    sup,       \* where the supervisor is
    closer,    \* closer[k]: where k is in close()
    awaits     \* awaits[k]: begin_close handed k a receiver to wait on

callVars == <<pc, result, replyTo>>
brokerVars == <<sent, answers, wire>>
registryVars == <<slots, mail, retired, closed>>
lifecycleVars == <<closing, permits, drained>>
inboxVars == <<inbox, latest, live, sup>>
closeVars == <<closer, awaits>>
vars == <<callVars, brokerVars, registryVars, lifecycleVars, cancel, inboxVars, closeVars>>

\* A call that holds a PendingReply, hence a slot until something retires it.
Active == {"registered", "addressed", "publishing", "waiting"}
Results == {"none", "Reply", "Timeout", "AtCapacity", "Closed", "PublicationUnknown",
            "Encode", "Transport", "Cancelled"}

TypeOK ==
    /\ pc \in [Calls -> Active \cup {"idle", "done"}]
    /\ result \in [Calls -> Results]
    /\ replyTo \in [Calls -> Nat]
    /\ sent \in [Calls -> BOOLEAN]
    /\ answers \in [Calls -> Nat]
    /\ wire \subseteq Calls \X BOOLEAN
    /\ slots \subseteq Calls /\ Cardinality(slots) <= MaxInFlight
    /\ mail \in [Calls -> {"none", "open", "reply", "dropped"}]
    /\ closed \in BOOLEAN /\ closing \in BOOLEAN
    /\ permits \subseteq Calls /\ drained \in BOOLEAN
    /\ cancel \in BOOLEAN
    /\ inbox \in Nat /\ latest \in Nat \ {0} /\ live \in BOOLEAN
    /\ sup \in {"running", "lost", "marked", "reconnecting", "done"}
    /\ closer \in [Closers -> {"idle", "begun", "draining", "joining", "returned"}]
    /\ awaits \in [Closers -> BOOLEAN]

\* connect_request_client_with_config returns once the first inbox is Ready.
Init ==
    /\ pc = [c \in Calls |-> "idle"]
    /\ result = [c \in Calls |-> "none"]
    /\ replyTo = [c \in Calls |-> 0]
    /\ sent = [c \in Calls |-> FALSE]
    /\ answers = [c \in Calls |-> 0]
    /\ wire = {}
    /\ slots = {} /\ retired = <<>> /\ closed = FALSE
    /\ mail = [c \in Calls |-> "none"]
    /\ closing = FALSE /\ permits = {} /\ drained = TRUE
    /\ cancel = FALSE
    /\ inbox = 1 /\ latest = 1 /\ live = TRUE /\ sup = "running"
    /\ closer = [k \in Closers |-> "idle"]
    /\ awaits = [k \in Closers |-> FALSE]

-----------------------------------------------------------------------------
(* The registry *)

\* Mutant: the memory is one entry too short.
RecordShort(memory, c, why) ==
    Append(IF Len(memory) >= MaxInFlight - 1 THEN Tail(memory) ELSE memory,
           [id |-> c, why |-> why])

\* RetiredSlots::record: a memory of the last `capacity` retirements.
Record(memory, c, why) ==
    LET entry == [id |-> c, why |-> why]
        known == {i \in DOMAIN memory : memory[i].id = c}
    IN  IF MaxInFlight = 0 THEN memory
        ELSE IF known # {}
        THEN [i \in DOMAIN memory |-> IF i \in known THEN entry ELSE memory[i]]
        ELSE Append(IF Len(memory) >= MaxInFlight THEN Tail(memory) ELSE memory, entry)

\* Mutant: a dropped call leaves its slot behind.
DropLeaksSlot(c) == UNCHANGED <<slots, retired>>

\* RequestRegistry::remove, run when a PendingReply is dropped.
DropPending(c) ==
    /\ slots' = slots \ {c}
    /\ retired' = IF c \in slots THEN Record(retired, c, "Abandoned") ELSE retired

\* The retirements of abandon_every_slot, one after the other.
AbandonInTurn(memory, order) ==
    LET after[i \in 0..Len(order)] ==
            IF i = 0 THEN memory ELSE Record(after[i - 1], order[i], "Abandoned")
    IN  after[Len(order)]

\* RegistryState::abandon_every_slot: the slots leave in the order of a hash map,
\* and their senders are dropped.
AbandonEverySlot ==
    /\ \E order \in SetToSeqs(slots) : retired' = AbandonInTurn(retired, order)
    /\ slots' = {}
    /\ mail' = [c \in Calls |-> IF c \in slots THEN "dropped" ELSE mail[c]]

-----------------------------------------------------------------------------
(* One call: request_attempt *)

\* The call returns, or its future is dropped: its PublicationPermit goes, then its
\* PendingReply.
Finish(c, r) ==
    /\ pc' = [pc EXCEPT ![c] = "done"]
    /\ result' = [result EXCEPT ![c] = r]
    /\ permits' = permits \ {c}
    /\ drained' = (drained \/ permits = {c})
    /\ DropPending(c)
    /\ UNCHANGED <<replyTo, mail, closed, closing, cancel, inboxVars, closeVars>>

\* register refuses a call on a closed or full registry.
Register(c) ==
    /\ pc[c] = "idle"
    /\ IF closed \/ Cardinality(slots) >= MaxInFlight
       THEN /\ pc' = [pc EXCEPT ![c] = "done"]
            /\ result' = [result EXCEPT ![c] = IF closed THEN "Closed" ELSE "AtCapacity"]
            /\ UNCHANGED <<slots, mail>>
       ELSE /\ pc' = [pc EXCEPT ![c] = "registered"]
            /\ slots' = slots \cup {c}
            /\ mail' = [mail EXCEPT ![c] = "open"]
            /\ UNCHANGED result
    /\ UNCHANGED <<replyTo, brokerVars, retired, closed, lifecycleVars, cancel,
                   inboxVars, closeVars>>

\* The inbox state is read after the registration, never before.
ReadInbox(c) ==
    /\ pc[c] = "registered"
    /\ IF inbox = 0
       THEN Finish(c, "Transport")
       ELSE /\ pc' = [pc EXCEPT ![c] = "addressed"]
            /\ replyTo' = [replyTo EXCEPT ![c] = inbox]
            /\ UNCHANGED <<result, registryVars, lifecycleVars, cancel, inboxVars, closeVars>>
    /\ UNCHANGED brokerVars

\* BusEnvelope::with_reply_to cannot serialise the request.
EncodeFails(c) ==
    /\ pc[c] = "addressed"
    /\ Finish(c, "Encode")
    /\ UNCHANGED brokerVars

\* PublicationLifecycle::admit.
Admit(c) ==
    /\ pc[c] = "addressed"
    /\ IF closing
       THEN Finish(c, "Closed")
       ELSE /\ pc' = [pc EXCEPT ![c] = "publishing"]
            /\ permits' = permits \cup {c}
            /\ drained' = (drained /\ permits # {})
            /\ UNCHANGED <<result, replyTo, registryVars, closing, cancel, inboxVars, closeVars>>
    /\ UNCHANGED brokerVars

\* publish_envelope returned Ok: the permit is dropped and the call waits.
Published(c) ==
    /\ pc[c] = "publishing" /\ sent[c]
    /\ pc' = [pc EXCEPT ![c] = "waiting"]
    /\ permits' = permits \ {c}
    /\ drained' = (drained \/ permits = {c})
    /\ UNCHANGED <<result, replyTo, brokerVars, registryVars, closing, cancel,
                   inboxVars, closeVars>>

\* publish_envelope returned Err, whether or not the broker has the request.
PublishFails(c) ==
    /\ pc[c] = "publishing"
    /\ Finish(c, "Transport")
    /\ UNCHANGED brokerVars

\* Mutant: only the wait for the reply has a deadline.
TimesOutWaiting(c) ==
    /\ pc[c] = "waiting"
    /\ Finish(c, "Timeout")
    /\ UNCHANGED brokerVars

\* The one deadline covers the publication and the wait.  A reply may slip in between
\* the last look at the channel and the return.
TimesOut(c) ==
    /\ pc[c] \in {"publishing", "waiting"}
    /\ Finish(c, "Timeout")
    /\ UNCHANGED brokerVars

Receive(c) ==
    /\ pc[c] = "waiting" /\ mail[c] = "reply"
    /\ Finish(c, "Reply")
    /\ UNCHANGED brokerVars

\* Mutant: a call that close() woke reports that nothing was published.
ChannelClosedAsClosed(c) ==
    /\ pc[c] = "waiting" /\ mail[c] = "dropped"
    /\ Finish(c, IF closing \/ closed THEN "Closed" ELSE "Transport")
    /\ UNCHANGED brokerVars

\* The registry dropped the sender: by close(), or because the inbox was lost.
ChannelClosed(c) ==
    /\ pc[c] = "waiting" /\ mail[c] = "dropped"
    /\ Finish(c, IF closing \/ closed THEN "PublicationUnknown" ELSE "Transport")
    /\ UNCHANGED brokerVars

\* The application drops the future of the call.
Cancelled(c) ==
    /\ pc[c] \in Active
    /\ Finish(c, "Cancelled")
    /\ UNCHANGED brokerVars

-----------------------------------------------------------------------------
(* The broker, the responders and the delivery of replies *)

\* The broker takes the request of a publication that has yet to return.
BrokerAccepts(c) ==
    /\ pc[c] = "publishing" /\ ~sent[c]
    /\ sent' = [sent EXCEPT ![c] = TRUE]
    /\ UNCHANGED <<callVars, answers, wire, registryVars, lifecycleVars, cancel,
                   inboxVars, closeVars>>

\* A responder sends a reply, acceptable or not; one to a deleted inbox is unroutable.
Respond(c) ==
    /\ sent[c] /\ answers[c] < MaxAnswers
    /\ answers' = [answers EXCEPT ![c] = @ + 1]
    /\ \E ok \in BOOLEAN :
          wire' = IF live /\ replyTo[c] = latest THEN wire \cup {<<c, ok>>} ELSE wire
    /\ UNCHANGED <<callVars, sent, registryVars, lifecycleVars, cancel, inboxVars, closeVars>>

\* Mutant: the first delivery wins, acceptable or not.
ResolveAny(c, ok) ==
    IF c \in slots
    THEN /\ slots' = slots \ {c}
         /\ retired' = Record(retired, c, "Resolved")
         /\ mail' = [mail EXCEPT ![c] = IF ok THEN "reply" ELSE "dropped"]
    ELSE UNCHANGED <<slots, retired, mail>>

\* RequestRegistry::resolve.  A reply that accepts() refuses leaves its slot pending; one
\* without a slot is only counted (duplicate, late or orphaned, by what `retired` holds).
Resolve(c, ok) ==
    IF c \in slots /\ ok
    THEN /\ slots' = slots \ {c}
         /\ retired' = Record(retired, c, "Resolved")
         /\ mail' = [mail EXCEPT ![c] = "reply"]
    ELSE UNCHANGED <<slots, retired, mail>>

\* The consumer of the inbox takes a reply.
Deliver ==
    /\ sup = "running" /\ live
    /\ \E m \in wire : Resolve(m[1], m[2]) /\ wire' = wire \ {m}
    /\ UNCHANGED <<callVars, sent, answers, closed, lifecycleVars, cancel, inboxVars, closeVars>>

-----------------------------------------------------------------------------
(* The supervisor of the reply inbox: supervise_reply_inbox *)

\* The connection drops, and its exclusive inbox with it.
ConnectionLost ==
    /\ live
    /\ live' = FALSE /\ wire' = {}
    /\ UNCHANGED <<callVars, sent, answers, registryVars, lifecycleVars, cancel,
                   inbox, latest, sup, closeVars>>

\* The task ends and its connection closes.
SupervisorStops ==
    /\ sup' = "done" /\ live' = FALSE /\ wire' = {}
    /\ UNCHANGED <<inbox, latest>>

\* Mutant: a running consumer does not watch the token.
RunEndsOnLoss ==
    /\ sup = "running" /\ ~live
    /\ IF cancel
       THEN SupervisorStops
       ELSE sup' = "lost" /\ UNCHANGED <<wire, inbox, latest, live>>
    /\ UNCHANGED <<callVars, sent, answers, registryVars, lifecycleVars, cancel, closeVars>>

\* run_reply_inbox returns Ok when the token fires, Err when its stream ends.
RunEnds ==
    /\ sup = "running" /\ (cancel \/ ~live)
    /\ IF cancel
       THEN SupervisorStops
       ELSE sup' = "lost" /\ UNCHANGED <<wire, inbox, latest, live>>
    /\ UNCHANGED <<callVars, sent, answers, registryVars, lifecycleVars, cancel, closeVars>>

\* Mutant: the state still names the lost inbox.
MarkForgotten ==
    /\ sup = "lost"
    /\ sup' = "marked"
    /\ UNCHANGED <<callVars, brokerVars, registryVars, lifecycleVars, cancel,
                   inbox, latest, live, closeVars>>

\* mark_reconnecting_then_drain, first half.
MarkReconnecting ==
    /\ sup = "lost"
    /\ sup' = "marked" /\ inbox' = 0
    /\ UNCHANGED <<callVars, brokerVars, registryVars, lifecycleVars, cancel,
                   latest, live, closeVars>>

\* mark_reconnecting_then_drain, second half: RequestRegistry::drain.
Drain ==
    /\ sup = "marked"
    /\ sup' = "reconnecting"
    /\ AbandonEverySlot
    /\ UNCHANGED <<callVars, brokerVars, closed, lifecycleVars, cancel,
                   inbox, latest, live, closeVars>>

\* reconnect_reply_inbox declares a fresh inbox and publishes its name.  An attempt that
\* fails changes nothing and is made again.
Reconnected ==
    /\ sup = "reconnecting" /\ latest < MaxInboxes
    /\ sup' = "running" /\ live' = TRUE
    /\ latest' = latest + 1 /\ inbox' = latest'
    /\ UNCHANGED <<callVars, brokerVars, registryVars, lifecycleVars, cancel, closeVars>>

\* retry_reply_inbox_after_failures gives up when the token fires.
ReconnectCancelled ==
    /\ sup = "reconnecting" /\ cancel
    /\ SupervisorStops
    /\ UNCHANGED <<callVars, sent, answers, registryVars, lifecycleVars, cancel, closeVars>>

\* The application cancels the token it shares with the client.
CancelToken ==
    /\ ~cancel /\ cancel' = TRUE
    /\ UNCHANGED <<callVars, brokerVars, registryVars, lifecycleVars, inboxVars, closeVars>>

-----------------------------------------------------------------------------
(* RequestClient::close *)

BeginClose(k) ==
    /\ closer[k] = "idle"
    /\ closer' = [closer EXCEPT ![k] = "begun"]
    /\ closing' = TRUE
    /\ awaits' = [awaits EXCEPT ![k] = permits # {}]
    /\ UNCHANGED <<callVars, brokerVars, registryVars, permits, drained, cancel, inboxVars>>

\* RequestRegistry::close.
CloseRegistry(k) ==
    /\ closer[k] = "begun"
    /\ closer' = [closer EXCEPT ![k] = "draining"]
    /\ closed' = TRUE
    /\ AbandonEverySlot
    /\ UNCHANGED <<callVars, brokerVars, lifecycleVars, cancel, inboxVars, awaits>>

\* Mutant: the token is cancelled without waiting for the publications.
DrainSkipped(k) ==
    /\ closer[k] = "draining"
    /\ closer' = [closer EXCEPT ![k] = "joining"]
    /\ cancel' = TRUE
    /\ UNCHANGED <<callVars, brokerVars, registryVars, lifecycleVars, inboxVars, awaits>>

\* wait_for_drain returns, and the token is cancelled.
Drained(k) ==
    /\ closer[k] = "draining" /\ (awaits[k] => drained)
    /\ closer' = [closer EXCEPT ![k] = "joining"]
    /\ cancel' = TRUE
    /\ UNCHANGED <<callVars, brokerVars, registryVars, lifecycleVars, inboxVars, awaits>>

\* Mutant: a closer that finds the join handle taken does not wait.
CloseReturnsEarly(k) ==
    /\ closer[k] = "joining"
    /\ closer' = [closer EXCEPT ![k] = "returned"]
    /\ UNCHANGED <<callVars, brokerVars, registryVars, lifecycleVars, cancel, inboxVars, awaits>>

\* The first closer joins the supervisor's task, the others wait for its `finished`
\* signal; both come when the task has ended.
CloseReturns(k) ==
    /\ closer[k] = "joining" /\ sup = "done"
    /\ closer' = [closer EXCEPT ![k] = "returned"]
    /\ UNCHANGED <<callVars, brokerVars, registryVars, lifecycleVars, cancel, inboxVars, awaits>>

-----------------------------------------------------------------------------
CallNext(c) ==
    \/ Register(c) \/ ReadInbox(c) \/ EncodeFails(c) \/ Admit(c)
    \/ BrokerAccepts(c) \/ Published(c) \/ PublishFails(c)
    \/ Respond(c) \/ Receive(c) \/ ChannelClosed(c) \/ TimesOut(c) \/ Cancelled(c)

InboxNext ==
    \/ Deliver \/ ConnectionLost \/ RunEnds \/ MarkReconnecting \/ Drain
    \/ Reconnected \/ ReconnectCancelled \/ CancelToken

CloseNext(k) == BeginClose(k) \/ CloseRegistry(k) \/ Drained(k) \/ CloseReturns(k)

Next == (\E c \in Calls : CallNext(c)) \/ InboxNext \/ (\E k \in Closers : CloseNext(k))

Spec == Init /\ [][Next]_vars

\* Tasks are polled, and deadlines pass.  Nothing obliges the broker to take a request,
\* to confirm it or to come back, nor a responder to answer.  One thing is asked of it:
\* run_reply_inbox starts with basic_consume, which is not raced against the token, so
\* that RunEnds is taken means that it is answered or fails with its connection.
FairSpec ==
    /\ Spec
    /\ \A c \in Calls : WF_vars(ReadInbox(c)) /\ WF_vars(Admit(c)) /\ WF_vars(TimesOut(c))
    /\ WF_vars(RunEnds) /\ WF_vars(MarkReconnecting) /\ WF_vars(Drain)
    /\ WF_vars(ReconnectCancelled)
    /\ \A k \in Closers : /\ WF_vars(CloseRegistry(k)) /\ WF_vars(Drained(k))
                          /\ WF_vars(CloseReturns(k))

-----------------------------------------------------------------------------
(* Properties *)

\* No slot leaks and no caller sleeps on: a call has a slot exactly while it runs and its
\* channel is open, so a caller without a slot has been answered or woken
\* (PendingReply's Drop; the senders that drain and close drop).
SlotsMatchCalls ==
    \A c \in Calls : c \in slots <=> pc[c] \in Active /\ mail[c] = "open"

\* From the moment the supervisor has dealt with a lost connection, no pending slot
\* waits for a reply at an inbox that is gone: register before reading the inbox, mark
\* before draining (ReplyInboxState).
NoWaitOnALostInbox ==
    \A c \in slots : replyTo[c] # 0 => replyTo[c] = latest /\ sup # "reconnecting"

\* A call refused as closed, over capacity or unencodable was never published, so the
\* caller may safely repeat it; one that close() interrupts after its publication says
\* PublicationUnknown instead (RequestError).
RefusalsAreUnsent ==
    \A c \in Calls : result[c] \in {"Closed", "AtCapacity", "Encode"} => ~sent[c]

\* close() cancels the shared token only when no admitted publication is still
\* travelling, and none is admitted from then on (PublicationLifecycle).
TokenOutlivesPublications ==
    (\E k \in Closers : closer[k] \in {"joining", "returned"}) => permits = {}

\* When any close() returns, whichever of several concurrent ones, the registry is
\* closed and empty and the reply consumer has finished.
CloseIsComplete ==
    (\E k \in Closers : closer[k] = "returned") => closed /\ slots = {} /\ sup = "done"

\* What a call has done by the phase it is in: addressed from its second step on, a
\* permit exactly while it publishes, nothing sent before, no result before the end.
CallPhases ==
    \A c \in Calls :
        /\ pc[c] \in {"idle", "registered"} => replyTo[c] = 0
        /\ c \in permits <=> pc[c] = "publishing"
        /\ pc[c] \in {"idle", "registered", "addressed"} => ~sent[c]
        /\ pc[c] # "done" => result[c] = "none"

\* The inbox on offer is the latest, or none from the mark until the next one is Ready.
InboxPhases ==
    /\ inbox \in {0, latest}
    /\ sup \in {"running", "lost"} => inbox = latest
    /\ sup \in {"marked", "reconnecting"} => inbox = 0

\* How far the furthest close() has got.  A closer that was given no receiver saw no
\* publication in flight, and none has been admitted since.
ClosePhases ==
    /\ drained <=> permits = {}
    /\ closed => slots = {}
    /\ \A k \in Closers :
          /\ closer[k] # "idle" => closing
          /\ closer[k] # "idle" /\ ~awaits[k] => permits = {}
          /\ closer[k] \in {"draining", "joining", "returned"} => closed
          /\ closer[k] = "returned" => sup = "done"

\* The inductive invariant: it holds the five properties above in every interleaving of
\* calls, losses of the connection and closers.
RequestInv ==
    /\ TypeOK /\ CallPhases /\ InboxPhases /\ ClosePhases
    /\ SlotsMatchCalls /\ NoWaitOnALostInbox /\ RefusalsAreUnsent /\ TokenOutlivesPublications

\* The memory of retired slots says Resolved exactly of the calls whose channel holds a
\* reply, so a second reply counts as a duplicate and one to an abandoned call as late,
\* never the other way round; and it is bounded.
RetirementIsTruthful ==
    /\ Len(retired) <= MaxInFlight
    /\ \A i \in DOMAIN retired :
          retired[i].why = "Resolved" <=> mail[retired[i].id] = "reply"

\* What the memory holds: retirements of calls that were made and have lost their slot,
\* which no call gets back.
RetiredInv ==
    /\ retired \in Seq([id : Calls, why : {"Resolved", "Abandoned"}])
    /\ \A i \in DOMAIN retired : retired[i].id \notin slots /\ pc[retired[i].id] # "idle"
    /\ RetirementIsTruthful

\* A drain empties a whole registry at once and the memory still holds every call it
\* abandoned: a reply that comes after it is late, not orphaned.
DrainIsRemembered ==
    [][slots' = {} => \A c \in slots : \E i \in DOMAIN retired' : retired'[i].id = c]_vars

\* Every call returns: its deadline bounds the publication as well as the wait.
CallsReturn ==
    \A c \in Calls : pc[c] \in Active ~> pc[c] = "done"

\* Every close() returns, whatever the supervisor and the calls were doing.
CloseTerminates ==
    \A k \in Closers : closer[k] = "begun" ~> closer[k] = "returned"
=============================================================================
