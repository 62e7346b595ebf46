------------------------------ MODULE Transport ------------------------------
(***************************************************************************)
(* The publisher side of hexeract-bus-rabbitmq: the bounded establishment  *)
(* of an auto-recovering connection (connection.rs), the channel pool      *)
(* (pool.rs), and publish_envelope with its single retry across a recovery *)
(* (transport.rs); with lost connections, closed channels, confirms that   *)
(* never come and callers that give up.                                    *)
(*                                                                         *)
(* Every publisher publishes one message.  It holds a permit of the pool   *)
(* while it holds a pooled channel, and a clone of the channel longer.     *)
(***************************************************************************)
EXTENDS Integers, Sequences, FiniteSets

CONSTANTS
    Publishers,   \* concurrent calls of publish_envelope
    MaxSize,      \* ChannelPool::max_size, normalised to at least 1
    Attempts,     \* RabbitMqConnectionConfig::retry_attempts, at least 1
    MaxFaults     \* bound: lost connections and channels, failed openings

ASSUME TransportConstants ==
    /\ IsFiniteSet(Publishers)
    /\ MaxSize \in Nat \ {0} /\ Attempts \in Nat \ {0} /\ MaxFaults \in Nat

VARIABLES
    dial,       \* what the constructor is doing, "open" once it succeeded
    attempt,    \* the connect attempt of the present phase
    conn,       \* the session: "up", "down" while lapin recovers, "gone"
    confirms,   \* ChannelPool::confirms, FALSE for fire_and_forget, never changed
    closed,     \* channels closed by the broker
    idle,       \* ChannelPool::idle
    permits,    \* publishers that hold a permit of ChannelPool::live
    pc,         \* pc[p]: where publisher p is
    after,      \* after[p]: where it goes once its slot is released
    chan,       \* chan[p]: the channel it has a handle of, 0 for none
    frame,      \* frame[p]: what became of its last basic_publish
    recovered,  \* publishers that are on their second attempt
    result,     \* result[p]: what publish_envelope returned
    stored,     \* ghost, stored[p]: copies the broker has stored
    faults      \* budget left

connVars == <<confirms, dial, attempt, conn, closed>>
poolVars == <<idle, permits>>
callVars == <<pc, after, chan, frame, recovered, result>>
vars == <<connVars, poolVars, callVars, stored, faults>>

Attached == {"publishing", "returning"}      \* owns a channel of the pool
Owning == Attached \cup {"opening"}
Holding == Owning \cup {"looking", "releasing"}
Places == Holding \cup {"idle", "parked", "awaiting", "recovering", "done"}

Channels == 1..(MaxSize + Cardinality(Publishers))
Connected(ch) == conn = "up" /\ ch \notin closed
InUse == {idle[i] : i \in DOMAIN idle} \cup {chan[p] : p \in Publishers}

Init ==
    /\ confirms \in BOOLEAN
    /\ dial = "probe" /\ attempt = 1 /\ conn = "none" /\ closed = {}
    /\ idle = <<>> /\ permits = {}
    /\ pc = [p \in Publishers |-> "idle"] /\ after = [p \in Publishers |-> "done"]
    /\ chan = [p \in Publishers |-> 0] /\ frame = [p \in Publishers |-> "none"]
    /\ recovered = {} /\ result = [p \in Publishers |-> "none"]
    /\ stored = [p \in Publishers |-> 0] /\ faults = MaxFaults

Fault == faults > 0 /\ faults' = faults - 1

-----------------------------------------------------------------------------
(* RabbitMqTransport::new_with_config                                      *)

Dialing == dial \in {"probe", "session"}

\* connect_once succeeds.  The probe is dropped and the session is dialled; with
\* the session the exchange is declared, if the config names one.
ConnectSucceeds ==
    /\ Dialing
    /\ \/ dial = "probe" /\ dial' = "session" /\ UNCHANGED conn
       \/ dial = "session" /\ dial' \in {"declaring", "open"} /\ conn' = "up"
    /\ attempt' = 1
    /\ UNCHANGED <<confirms, closed, poolVars, callVars, stored, faults>>

\* connect_once fails: a permanent failure, or the last attempt, ends the
\* phase; otherwise the next attempt follows its delay.
ConnectFails(transient) ==
    /\ Dialing
    /\ IF transient /\ attempt < Attempts
       THEN attempt' = attempt + 1 /\ UNCHANGED dial
       ELSE dial' = "failed" /\ UNCHANGED attempt
    /\ UNCHANGED <<confirms, conn, closed, poolVars, callVars, stored, faults>>

\* The bound of the phase expires, also on a broker that never answers.  It
\* covers the two connects and not the declaration that follows them.
BoundExpires ==
    /\ Dialing
    /\ dial' = "failed"
    /\ UNCHANGED <<confirms, attempt, conn, closed, poolVars, callVars, stored, faults>>

\* declare_exchange: the broker opens a channel and declares the exchange on it,
\* or one of them fails and the session is dropped.  Nothing bounds the wait.
DeclareReturns ==
    /\ dial = "declaring"
    /\ \/ conn = "up" /\ dial' = "open" /\ UNCHANGED conn
       \/ dial' = "failed" /\ conn' = "gone"
    /\ UNCHANGED <<confirms, attempt, closed, poolVars, callVars, stored, faults>>

-----------------------------------------------------------------------------
(* ChannelPool::acquire                                                    *)

\* publish_envelope signs and builds the properties once, before the loop.
Begin(p) ==
    /\ dial = "open" /\ pc[p] = "idle"
    /\ \/ pc' = [pc EXCEPT ![p] = "parked"] /\ UNCHANGED result
       \/ pc' = [pc EXCEPT ![p] = "done"] /\ result' = [result EXCEPT ![p] = "invalid"]
    /\ UNCHANGED <<connVars, poolVars, after, chan, frame, recovered, stored, faults>>

TakePermit(p) ==
    /\ pc[p] = "parked" /\ Cardinality(permits) < MaxSize
    /\ permits' = permits \cup {p}
    /\ pc' = [pc EXCEPT ![p] = "looking"]
    /\ UNCHANGED <<connVars, idle, after, chan, frame, recovered, result, stored, faults>>

\* Idle channels are popped until one is connected.
PopIdle(p) ==
    /\ pc[p] = "looking"
    /\ \/ \E i \in DOMAIN idle :
             /\ Connected(idle[i]) /\ \A j \in 1..(i - 1) : ~Connected(idle[j])
             /\ idle' = SubSeq(idle, i + 1, Len(idle))
             /\ chan' = [chan EXCEPT ![p] = idle[i]]
             /\ pc' = [pc EXCEPT ![p] = "publishing"]
       \/ /\ \A i \in DOMAIN idle : ~Connected(idle[i])
          /\ idle' = <<>>
          /\ pc' = [pc EXCEPT ![p] = "opening"] /\ UNCHANGED chan
    /\ UNCHANGED <<connVars, permits, after, frame, recovered, result, stored, faults>>

\* create_channel and confirm_select.
OpenChannel(p) ==
    /\ pc[p] = "opening" /\ conn = "up"
    /\ \E ch \in Channels \ InUse :
          /\ 1..(ch - 1) \subseteq InUse
          /\ chan' = [chan EXCEPT ![p] = ch]
          /\ closed' = closed \ {ch}
    /\ pc' = [pc EXCEPT ![p] = "publishing"]
    /\ UNCHANGED <<confirms, dial, attempt, conn, poolVars, after, frame, recovered, result,
                   stored, faults>>

\* Either fails: the permit is dropped with the error.
OpenFails(p) ==
    /\ pc[p] = "opening"
    /\ IF conn = "up" THEN Fault ELSE UNCHANGED faults
    /\ pc' = [pc EXCEPT ![p] = "releasing"] /\ after' = [after EXCEPT ![p] = "done"]
    /\ result' = [result EXCEPT ![p] = "error"]
    /\ UNCHANGED <<connVars, poolVars, chan, frame, recovered, stored>>

-----------------------------------------------------------------------------
(* publish_then_release and publish_with_recovery                          *)

\* Mutant: every failed attempt is retried.
RetriesForever(p) == "recovering"

\* Where a failed attempt goes: to the recovery of the channel, once.
AfterFailure(p) == IF p \in recovered THEN "done" ELSE "recovering"
Failed(p) == result' = IF p \in recovered THEN [result EXCEPT ![p] = "error"] ELSE result

\* basic_publish; its error and its success both release the slot.
BasicPublish(p) ==
    /\ pc[p] = "publishing"
    /\ pc' = [pc EXCEPT ![p] = "returning"]
    /\ IF Connected(chan[p])
       THEN /\ frame' = [frame EXCEPT ![p] = "wire"]
            /\ after' = [after EXCEPT ![p] = "awaiting"] /\ UNCHANGED result
       ELSE /\ after' = [after EXCEPT ![p] = AfterFailure(p)]
            /\ Failed(p) /\ UNCHANGED frame
    /\ UNCHANGED <<connVars, poolVars, chan, recovered, stored, faults>>

\* Mutant: the permit is released before the channel is back.
PermitFirst(p) ==
    /\ pc[p] = "returning"
    /\ \/ p \in permits /\ permits' = permits \ {p} /\ UNCHANGED <<idle, pc>>
       \/ /\ p \notin permits /\ pc' = [pc EXCEPT ![p] = "releasing"]
          /\ idle' = Append(idle, chan[p]) /\ UNCHANGED permits
    /\ UNCHANGED <<connVars, after, chan, frame, recovered, result, stored, faults>>

\* Mutant: the slot is kept until the broker has answered.
ReturnAfterConfirm(p) ==
    /\ pc[p] = "returning" /\ frame[p] # "wire"
    /\ idle' = IF Connected(chan[p]) THEN Append(idle, chan[p]) ELSE idle
    /\ pc' = [pc EXCEPT ![p] = "releasing"]
    /\ UNCHANGED <<connVars, permits, after, chan, frame, recovered, result, stored, faults>>

\* Drop for PooledChannel: the channel goes back to the cache.
ReturnChannel(p) ==
    /\ pc[p] = "returning"
    /\ idle' = IF Connected(chan[p]) /\ Len(idle) < MaxSize
               THEN Append(idle, chan[p]) ELSE idle
    /\ pc' = [pc EXCEPT ![p] = "releasing"]
    /\ UNCHANGED <<connVars, permits, after, chan, frame, recovered, result, stored, faults>>

\* The fields of the dropped slot follow: the permit is released.
ReleasePermit(p) ==
    /\ pc[p] = "releasing"
    /\ permits' = permits \ {p}
    /\ pc' = [pc EXCEPT ![p] = after[p]]
    /\ UNCHANGED <<connVars, idle, after, chan, frame, recovered, result, stored, faults>>

\* confirm.await and confirmation_to_result; without confirms it is immediate.
ConfirmArrives(p) ==
    /\ pc[p] = "awaiting"
    /\ \/ /\ frame[p] = "acked" \/ ~confirms
          /\ pc' = [pc EXCEPT ![p] = "done"] /\ result' = [result EXCEPT ![p] = "ok"]
       \/ /\ frame[p] = "refused" /\ confirms
          /\ pc' = [pc EXCEPT ![p] = "done"] /\ result' = [result EXCEPT ![p] = "error"]
       \/ /\ frame[p] = "lost" /\ confirms
          /\ pc' = [pc EXCEPT ![p] = AfterFailure(p)] /\ Failed(p)
    /\ UNCHANGED <<connVars, poolVars, after, chan, frame, recovered, stored, faults>>

\* wait_for_recovery: the loop runs once more, or the error is final.
Recover(p) ==
    /\ pc[p] = "recovering"
    /\ chan' = [chan EXCEPT ![p] = 0]
    /\ \/ /\ conn = "up" /\ recovered' = recovered \cup {p}
          /\ pc' = [pc EXCEPT ![p] = "parked"] /\ UNCHANGED result
       \/ /\ pc' = [pc EXCEPT ![p] = "done"] /\ result' = [result EXCEPT ![p] = "error"]
          /\ UNCHANGED recovered
    /\ UNCHANGED <<connVars, poolVars, after, frame, stored, faults>>

\* The caller drops the future at one of its awaits, basic_publish included,
\* whose frame may be out by then; the guards release what they hold.
GiveUp(p) ==
    /\ pc[p] \in {"parked", "opening", "publishing", "awaiting", "recovering"}
    /\ result' = [result EXCEPT ![p] = "cancelled"]
    /\ after' = [after EXCEPT ![p] = "done"]
    /\ pc' = [pc EXCEPT ![p] = CASE @ = "opening" -> "releasing"
                                 [] @ = "publishing" -> "returning"
                                 [] OTHER -> "done"]
    /\ \/ UNCHANGED frame
       \/ pc[p] = "publishing" /\ Connected(chan[p]) /\ frame' = [frame EXCEPT ![p] = "wire"]
    /\ UNCHANGED <<connVars, poolVars, chan, recovered, stored, faults>>

-----------------------------------------------------------------------------
(* The broker and the connection.                                          *)

BrokerStores(p) ==
    /\ frame[p] = "wire" /\ Connected(chan[p])
    /\ stored' = [stored EXCEPT ![p] = @ + 1]
    /\ frame' = [frame EXCEPT ![p] = "acked"]
    /\ UNCHANGED <<connVars, poolVars, pc, after, chan, recovered, result, faults>>

\* It nacks, or returns an unroutable mandatory message.
BrokerRefuses(p) ==
    /\ frame[p] = "wire" /\ Connected(chan[p])
    /\ frame' = [frame EXCEPT ![p] = "refused"]
    /\ UNCHANGED <<connVars, poolVars, pc, after, chan, recovered, result, stored, faults>>

\* Frames under way are lost, and so may be confirms the client has not read.
LoseFrames(users) ==
    \E unread \in SUBSET {p \in users : frame[p] \in {"acked", "refused"}} :
        frame' = [p \in Publishers |-> IF p \in unread \/ (p \in users /\ frame[p] = "wire")
                                       THEN "lost" ELSE frame[p]]

ConnectionDrops ==
    /\ conn = "up" /\ Fault
    /\ conn' = "down"
    /\ LoseFrames(Publishers)
    /\ UNCHANGED <<confirms, dial, attempt, closed, poolVars, pc, after, chan, recovered,
                   result, stored>>

\* lapin reconnects and recovers its channels, or abandons the session.
ConnectionRecovers ==
    /\ conn = "down" /\ conn' \in {"up", "gone"}
    /\ UNCHANGED <<confirms, dial, attempt, closed, poolVars, callVars, stored, faults>>

ChannelCloses(ch) ==
    /\ conn = "up" /\ ch \notin closed /\ Fault
    /\ closed' = closed \cup {ch}
    /\ LoseFrames({p \in Publishers : chan[p] = ch})
    /\ UNCHANGED <<confirms, dial, attempt, conn, poolVars, pc, after, chan, recovered,
                   result, stored>>

-----------------------------------------------------------------------------
Construct ==
    \/ ConnectSucceeds \/ BoundExpires \/ DeclareReturns
    \/ \E t \in BOOLEAN : ConnectFails(t)

Acquire(p) == TakePermit(p) \/ PopIdle(p) \/ OpenChannel(p) \/ OpenFails(p)

Attempt(p) ==
    \/ BasicPublish(p) \/ ReturnChannel(p) \/ ReleasePermit(p)
    \/ ConfirmArrives(p) \/ Recover(p)

Environment ==
    \/ ConnectionDrops \/ ConnectionRecovers
    \/ \E ch \in InUse \ {0} : ChannelCloses(ch)
    \/ \E p \in Publishers : BrokerStores(p) \/ BrokerRefuses(p)

Next ==
    \/ Construct \/ Environment
    \/ \E p \in Publishers : Begin(p) \/ Acquire(p) \/ Attempt(p) \/ GiveUp(p)

Spec == Init /\ [][Next]_vars

\* The steps of a slot that wait for nothing outside the process.
InProcess(p) == TakePermit(p) \/ PopIdle(p) \/ ReturnChannel(p) \/ ReleasePermit(p)

\* Tasks run.  Nothing obliges the broker to answer a connect, a declaration or
\* channel.open, to take a frame or to confirm a message, lapin to recover the
\* session, or a caller to give up.
FairSpec == Spec /\ \A p \in Publishers : WF_vars(InProcess(p))

-----------------------------------------------------------------------------
(* Properties.                                                             *)

\* Every variable keeps its type.
TypeOK ==
    /\ dial \in {"probe", "session", "declaring", "open", "failed"} /\ attempt \in 1..Attempts
    /\ confirms \in BOOLEAN /\ conn \in {"none", "up", "down", "gone"}
    /\ closed \subseteq Channels /\ idle \in Seq(Channels)
    /\ permits \subseteq Publishers
    /\ pc \in [Publishers -> Places]
    /\ after \in [Publishers -> {"awaiting", "recovering", "done"}]
    /\ chan \in [Publishers -> Channels \cup {0}]
    /\ frame \in [Publishers -> {"none", "wire", "acked", "refused", "lost"}]
    /\ recovered \subseteq Publishers
    /\ result \in [Publishers -> {"none", "ok", "error", "cancelled", "invalid"}]
    /\ stored \in [Publishers -> Nat] /\ faults \in Nat

Owners == {p \in Publishers : pc[p] \in Owning}

\* max_size is a hard cap on the channels of the pool: the cached ones, the
\* ones handed out and the ones being opened never exceed it together,
\* although the cache and the semaphore are updated one after the other.  So
\* Drop for PooledChannel always finds room for a connected channel.
LiveWithinCap == Len(idle) + Cardinality(Owners) <= MaxSize

\* publish_envelope tells the truth: with confirms Ok means that the broker
\* has stored the message, and only the retry after a recovery, which may
\* follow a confirm that was lost, can store it twice.
StoredAsReported ==
    \A p \in Publishers :
        /\ confirms /\ result[p] = "ok" => stored[p] >= 1
        /\ stored[p] <= (IF p \in recovered THEN 2 ELSE 1)

\* The permits are those of the publishers between acquire and the end of the
\* slot, which bounds the channels that are opened on an empty cache.
PoolInv ==
    /\ permits = {p \in Publishers : pc[p] \in Holding}
    /\ Cardinality(permits) <= MaxSize
    /\ \A p \in Publishers : pc[p] \in Attached => chan[p] # 0
    /\ LiveWithinCap

Unsent == {"idle", "parked", "looking", "opening", "publishing"}

\* How many copies there may be while a publisher is on its way.
CopiesSoFar ==
    \A p \in Publishers :
        /\ stored[p] <= (IF p \in recovered THEN 2 ELSE 1)
        /\ pc[p] \in Unsent \/ frame[p] = "wire"
              => stored[p] <= (IF p \in recovered THEN 1 ELSE 0)
        /\ frame[p] = "wire" => pc[p] \notin Unsent \cup {"recovering"}
        /\ frame[p] = "acked" => stored[p] >= 1
        /\ pc[p] = "recovering" => p \notin recovered
        /\ pc[p] \in {"returning", "releasing"} /\ after[p] = "recovering"
              => p \notin recovered /\ frame[p] # "wire"
        /\ result[p] = "ok" => pc[p] = "done"

\* The inductive invariant behind LiveWithinCap and StoredAsReported.
TransportInv == TypeOK /\ PoolInv /\ CopiesSoFar /\ StoredAsReported

\* Opening a channel and handing basic_publish to the socket are done under a
\* permit and without a bound: it is the broker that ends them.
BrokerTakesRequests ==
    \A p \in Publishers : []<>(pc[p] \notin {"opening", "publishing"})

\* No slot waits for a confirm: as long as the broker opens channels and takes
\* frames, a caller parked in acquire gets its turn even if no confirm ever
\* arrives and no session is ever recovered, because publish_then_release gives
\* the slot back before either is awaited.
NoSlotWaitsForAConfirm ==
    BrokerTakesRequests => \A p \in Publishers : []<>(pc[p] # "parked")
=============================================================================
