-------------------------- MODULE RequestReplyProofs --------------------------
(***************************************************************************)
(* RequestInv is an invariant of RequestReply for any calls, closers,      *)
(* capacity and number of lost connections, and the properties that follow *)
(* from it.  On top of it, RetiredInv: the memory of retired slots is      *)
(* truthful, and a drain of a full registry, however long, loses none of   *)
(* the calls it abandons.                                                  *)
(***************************************************************************)
EXTENDS RequestReply, FiniteSetTheorems, WellFoundedInduction, TLAPS

-----------------------------------------------------------------------------
(* The capacity of the registry.                                           *)

\* The registry holds finitely many slots.
LEMMA SlotsAreFinite ==
    ASSUME TypeOK
    PROVE  IsFiniteSet(slots) /\ Cardinality(slots) \in Nat
<1>1. slots \subseteq Calls
  BY Zenon DEF TypeOK
<1>2. IsFiniteSet(Calls)
  BY RequestConstants, Zenon
<1>3. IsFiniteSet(slots)
  BY <1>1, <1>2, FS_Subset, Zenon
<1> QED
  BY <1>3, FS_CardinalityType, Zenon

\* Slots that leave the registry make room.
LEMMA FewerSlots ==
    ASSUME TypeOK, slots' \subseteq slots
    PROVE  slots' \subseteq Calls /\ Cardinality(slots') <= MaxInFlight
<1>1. IsFiniteSet(slots)
  BY SlotsAreFinite, Zenon
<1>2. IsFiniteSet(slots') /\ Cardinality(slots') <= Cardinality(slots)
  BY <1>1, FS_Subset, Zenon
<1>3. Cardinality(slots) \in Nat
  BY SlotsAreFinite, Zenon
<1>4. Cardinality(slots') \in Nat
  BY <1>2, FS_CardinalityType, Zenon
<1>5. slots' \subseteq Calls
  BY Zenon DEF TypeOK
<1>6. Cardinality(slots) <= MaxInFlight /\ MaxInFlight \in Nat
  BY RequestConstants, Zenon DEF TypeOK
<1> QED
  BY <1>2, <1>3, <1>4, <1>5, <1>6

\* register adds a slot only below the bound.
LEMMA OneMoreSlot ==
    ASSUME TypeOK, NEW c \in Calls, Cardinality(slots) < MaxInFlight, slots' = slots \cup {c}
    PROVE  slots' \subseteq Calls /\ Cardinality(slots') <= MaxInFlight
<1>1. IsFiniteSet(slots)
  BY SlotsAreFinite, Zenon
<1>2. Cardinality(slots) \in Nat
  BY SlotsAreFinite, Zenon
<1>3. slots' \subseteq Calls
  BY Zenon DEF TypeOK
<1>4. MaxInFlight \in Nat
  BY RequestConstants, Zenon
<1>5. CASE c \in slots
  <2>1. slots' = slots
    BY <1>5, Zenon
  <2> QED
    BY <2>1, <1>2, <1>3, <1>4
<1>6. CASE c \notin slots
  <2>1. Cardinality(slots \cup {c}) = Cardinality(slots) + 1
    BY <1>1, <1>6, FS_AddElement, Zenon
  <2> QED
    BY <2>1, <1>2, <1>3, <1>4
<1> QED
  BY <1>5, <1>6, Zenon

-----------------------------------------------------------------------------
(* Steps of a call.                                                        *)

\* A call that ends, however it ends, releases what it holds.
LEMMA FinishKeeps ==
    ASSUME RequestInv, NEW c \in Calls, NEW r \in Results \ {"none"},
           pc[c] \in Active, Finish(c, r), UNCHANGED brokerVars,
           r \in {"Closed", "AtCapacity", "Encode"} => ~sent[c]
    PROVE  RequestInv'
<1>1. TypeOK'
  <2>1. slots' \subseteq Calls /\ Cardinality(slots') <= MaxInFlight
    BY FewerSlots, Zenon DEF RequestInv, Finish, DropPending
  <2>2. drained' \in BOOLEAN /\ closed' \in BOOLEAN /\ closing' \in BOOLEAN /\ cancel' \in BOOLEAN
    BY Zenon DEF RequestInv, TypeOK, Finish
  <2>3. pc' \in [Calls -> Active \cup {"idle", "done"}] /\ result' \in [Calls -> Results]
    BY Zenon DEF RequestInv, TypeOK, Finish
  <2>4. permits' \subseteq Calls
    BY Zenon DEF RequestInv, TypeOK, Finish
  <2> QED
    BY <2>1, <2>2, <2>3, <2>4, ZenonT(60)
    DEF RequestInv, TypeOK, Finish, brokerVars, inboxVars, closeVars
<1>2. CallPhases'
  <2>1. /\ pc' = [pc EXCEPT ![c] = "done"] /\ result' = [result EXCEPT ![c] = r]
        /\ permits' = permits \ {c} /\ replyTo' = replyTo /\ sent' = sent
    BY Zenon DEF Finish, brokerVars
  <2> QED
    BY <2>1, Zenon DEF RequestInv, TypeOK, CallPhases
<1>3. InboxPhases'
  BY Zenon DEF RequestInv, InboxPhases, Finish, inboxVars
<1>4. ClosePhases'
  <2>1. drained' <=> permits' = {}
    BY Zenon DEF RequestInv, ClosePhases, Finish
  <2>2. permits' \subseteq permits /\ slots' \subseteq slots /\ sup' = sup
        /\ UNCHANGED <<closed, closing, closer, awaits>>
    BY Zenon DEF Finish, DropPending, inboxVars, closeVars
  <2> QED
    BY <2>1, <2>2, Zenon DEF RequestInv, ClosePhases
<1>5. SlotsMatchCalls'
  BY Zenon DEF RequestInv, TypeOK, SlotsMatchCalls, Finish, DropPending, Active
<1>6. NoWaitOnALostInbox'
  BY Zenon DEF RequestInv, NoWaitOnALostInbox, Finish, DropPending, inboxVars
<1>7. RefusalsAreUnsent'
  BY Zenon DEF RequestInv, TypeOK, RefusalsAreUnsent, Finish, brokerVars
<1>8. TokenOutlivesPublications'
  BY Zenon DEF RequestInv, TypeOK, TokenOutlivesPublications, Finish, closeVars
<1> QED
  BY <1>1, <1>2, <1>3, <1>4, <1>5, <1>6, <1>7, <1>8, ZenonT(60) DEF RequestInv

\* register either refuses the call or gives it a slot and an open channel.
LEMMA RegisterKeeps ==
    ASSUME RequestInv, NEW c \in Calls, Register(c)
    PROVE  RequestInv'
<1>1. CASE closed \/ Cardinality(slots) >= MaxInFlight
  <2>1. /\ pc' = [pc EXCEPT ![c] = "done"] /\ slots' = slots /\ mail' = mail
        /\ result' = [result EXCEPT ![c] = IF closed THEN "Closed" ELSE "AtCapacity"]
        /\ pc[c] = "idle"
        /\ UNCHANGED <<replyTo, brokerVars, retired, closed, lifecycleVars, cancel,
                       inboxVars, closeVars>>
    BY <1>1, Zenon DEF Register
  <2>2. TypeOK'
    BY <2>1, Zenon
    DEF RequestInv, TypeOK, Results, brokerVars, lifecycleVars, inboxVars, closeVars
  <2>3. CallPhases' /\ RefusalsAreUnsent'
    BY <2>1, ZenonT(60) DEF RequestInv, TypeOK, CallPhases, RefusalsAreUnsent, brokerVars, lifecycleVars
  <2>4. SlotsMatchCalls'
    BY <2>1, Zenon DEF RequestInv, TypeOK, SlotsMatchCalls, Active
  <2> QED
    BY <2>1, <2>2, <2>3, <2>4, Zenon
    DEF RequestInv, InboxPhases, ClosePhases, NoWaitOnALostInbox, TokenOutlivesPublications,
        lifecycleVars, inboxVars, closeVars
<1>2. CASE ~closed /\ ~(Cardinality(slots) >= MaxInFlight)
  <2>1. /\ pc' = [pc EXCEPT ![c] = "registered"] /\ result' = result
        /\ slots' = slots \cup {c} /\ mail' = [mail EXCEPT ![c] = "open"]
        /\ pc[c] = "idle"
        /\ UNCHANGED <<replyTo, brokerVars, retired, closed, lifecycleVars, cancel,
                       inboxVars, closeVars>>
    BY <1>2, Zenon DEF Register
  <2>2. slots' \subseteq Calls /\ Cardinality(slots') <= MaxInFlight
    <3>1. IsFiniteSet(slots)
      BY RequestConstants, FS_Subset, Zenon DEF RequestInv, TypeOK
    <3>2. Cardinality(slots) < MaxInFlight
      BY <1>2, <3>1, FS_CardinalityType, RequestConstants
    <3> QED
      BY <2>1, <3>2, OneMoreSlot, Zenon DEF RequestInv
  <2>3. TypeOK'
    BY <2>1, <2>2, Zenon
    DEF RequestInv, TypeOK, Active, brokerVars, lifecycleVars, inboxVars, closeVars
  <2>4. CallPhases' /\ RefusalsAreUnsent'
    BY <2>1, Zenon DEF RequestInv, TypeOK, CallPhases, RefusalsAreUnsent, brokerVars, lifecycleVars
  <2>5. SlotsMatchCalls'
    BY <2>1, Zenon DEF RequestInv, TypeOK, SlotsMatchCalls, Active
  <2>6. NoWaitOnALostInbox'
    BY <2>1, Zenon DEF RequestInv, NoWaitOnALostInbox, CallPhases, inboxVars
  <2> QED
    BY <1>2, <2>1, <2>3, <2>4, <2>5, <2>6, ZenonT(60)
    DEF RequestInv, InboxPhases, ClosePhases, TokenOutlivesPublications,
        lifecycleVars, inboxVars, closeVars
<1> QED
  BY <1>1, <1>2, Zenon

\* The inbox a call reads is the latest one, and the supervisor has yet to give it up.
LEMMA ReadInboxKeeps ==
    ASSUME RequestInv, NEW c \in Calls, ReadInbox(c)
    PROVE  RequestInv'
<1>1. CASE inbox = 0
  BY <1>1, FinishKeeps, Zenon DEF ReadInbox, Active, Results
<1>2. CASE inbox # 0
  <2>1. /\ pc' = [pc EXCEPT ![c] = "addressed"] /\ replyTo' = [replyTo EXCEPT ![c] = inbox]
        /\ pc[c] = "registered"
        /\ UNCHANGED <<result, brokerVars, registryVars, lifecycleVars, cancel,
                       inboxVars, closeVars>>
    BY <1>2, Zenon DEF ReadInbox
  <2>2. TypeOK'
    BY <2>1, Zenon
    DEF RequestInv, TypeOK, Active, brokerVars, registryVars, lifecycleVars, inboxVars, closeVars
  <2>3. CallPhases' /\ RefusalsAreUnsent'
    BY <2>1 DEF RequestInv, TypeOK, CallPhases, RefusalsAreUnsent, brokerVars, lifecycleVars
  <2>4. SlotsMatchCalls'
    BY <2>1, Zenon DEF RequestInv, TypeOK, SlotsMatchCalls, Active, registryVars
  <2>5. NoWaitOnALostInbox'
    BY <1>2, <2>1, Zenon
    DEF RequestInv, TypeOK, NoWaitOnALostInbox, InboxPhases, inboxVars, registryVars
  <2> QED
    BY <2>1, <2>2, <2>3, <2>4, <2>5, ZenonT(60)
    DEF RequestInv, InboxPhases, ClosePhases, TokenOutlivesPublications,
        registryVars, lifecycleVars, inboxVars, closeVars
<1> QED
  BY <1>1, <1>2, Zenon

\* No publication is admitted once a closer has begun.
LEMMA AdmitKeeps ==
    ASSUME RequestInv, NEW c \in Calls, Admit(c)
    PROVE  RequestInv'
<1>1. CASE closing
  <2>1. ~sent[c] /\ pc[c] = "addressed"
    BY Zenon DEF RequestInv, CallPhases, Admit
  <2> QED
    BY <1>1, <2>1, FinishKeeps, Zenon DEF Admit, Active, Results
<1>2. CASE ~closing
  <2>1. /\ pc' = [pc EXCEPT ![c] = "publishing"] /\ permits' = permits \cup {c}
        /\ drained' = (drained /\ permits # {})
        /\ pc[c] = "addressed" /\ closing' = closing
        /\ UNCHANGED <<result, replyTo, brokerVars, registryVars, cancel, inboxVars, closeVars>>
    BY <1>2, Zenon DEF Admit
  <2>2. TypeOK'
    BY <2>1, Zenon
    DEF RequestInv, TypeOK, Active, brokerVars, registryVars, inboxVars, closeVars
  <2>3. CallPhases' /\ RefusalsAreUnsent'
    BY <2>1, Zenon DEF RequestInv, TypeOK, CallPhases, RefusalsAreUnsent, brokerVars
  <2>4. SlotsMatchCalls'
    BY <2>1, Zenon DEF RequestInv, TypeOK, SlotsMatchCalls, Active, registryVars
  <2>5. \A k \in Closers : closer[k] = "idle"
    BY <1>2, Zenon DEF RequestInv, ClosePhases
  <2>6. drained' <=> permits' = {}
    BY <2>1, Zenon DEF RequestInv, ClosePhases
  <2>7. ClosePhases' /\ TokenOutlivesPublications'
    BY <2>1, <2>5, <2>6, Zenon
    DEF RequestInv, ClosePhases, TokenOutlivesPublications, registryVars, inboxVars, closeVars
  <2> QED
    BY <2>1, <2>2, <2>3, <2>4, <2>7, ZenonT(60)
    DEF RequestInv, InboxPhases, NoWaitOnALostInbox, registryVars, inboxVars
<1> QED
  BY <1>1, <1>2, Zenon

\* A publication that returns gives its permit back.
LEMMA PublishedKeeps ==
    ASSUME RequestInv, NEW c \in Calls, Published(c)
    PROVE  RequestInv'
<1>1. /\ pc' = [pc EXCEPT ![c] = "waiting"] /\ permits' = permits \ {c}
      /\ drained' = (drained \/ permits = {c})
      /\ pc[c] = "publishing" /\ closing' = closing
      /\ UNCHANGED <<result, replyTo, brokerVars, registryVars, cancel, inboxVars, closeVars>>
  BY Zenon DEF Published
<1>2. TypeOK'
  BY <1>1, Zenon
  DEF RequestInv, TypeOK, Active, brokerVars, registryVars, inboxVars, closeVars
<1>3. CallPhases' /\ RefusalsAreUnsent'
  BY <1>1, Zenon DEF RequestInv, TypeOK, CallPhases, RefusalsAreUnsent, brokerVars
<1>4. SlotsMatchCalls'
  BY <1>1, Zenon DEF RequestInv, TypeOK, SlotsMatchCalls, Active, registryVars
<1>5. drained' <=> permits' = {}
  BY <1>1, Zenon DEF RequestInv, ClosePhases, CallPhases
<1>6. ClosePhases' /\ TokenOutlivesPublications'
  BY <1>1, <1>5, Zenon
  DEF RequestInv, ClosePhases, TokenOutlivesPublications, registryVars, inboxVars, closeVars
<1> QED
  BY <1>1, <1>2, <1>3, <1>4, <1>6, ZenonT(60)
  DEF RequestInv, InboxPhases, NoWaitOnALostInbox, registryVars, inboxVars

\* The broker and the responders touch no state of the client.
LEMMA BrokerKeeps ==
    ASSUME RequestInv, NEW c \in Calls, BrokerAccepts(c) \/ Respond(c)
    PROVE  RequestInv'
<1>1. UNCHANGED <<callVars, registryVars, lifecycleVars, cancel, inboxVars, closeVars>>
  BY Zenon DEF BrokerAccepts, Respond
<1>2. \A d \in Calls : sent'[d] # sent[d] => pc[d] = "publishing"
  BY Zenon DEF RequestInv, TypeOK, BrokerAccepts, Respond
<1>3. /\ sent' \in [Calls -> BOOLEAN] /\ answers' \in [Calls -> Nat]
      /\ wire' \subseteq Calls \X BOOLEAN
  <2>1. CASE BrokerAccepts(c)
    BY <2>1, Zenon DEF RequestInv, TypeOK, BrokerAccepts
  <2>2. CASE Respond(c)
    <3>1. answers' \in [Calls -> Nat]
      BY <2>2 DEF RequestInv, TypeOK, Respond
    <3>2. PICK ok \in BOOLEAN :
              wire' = IF live /\ replyTo[c] = latest THEN wire \cup {<<c, ok>>} ELSE wire
      BY <2>2, Zenon DEF Respond
    <3>3. wire' \subseteq Calls \X BOOLEAN
      BY <3>2 DEF RequestInv, TypeOK
    <3> QED
      BY <2>2, <3>1, <3>3, Zenon DEF RequestInv, TypeOK, Respond
  <2> QED
    BY <2>1, <2>2, Zenon
<1>4. TypeOK'
  BY <1>1, <1>3, Zenon
  DEF RequestInv, TypeOK, callVars, registryVars, lifecycleVars, inboxVars, closeVars
<1>5. CallPhases' /\ RefusalsAreUnsent'
  BY <1>1, <1>2, Zenon DEF RequestInv, TypeOK, CallPhases, RefusalsAreUnsent, callVars, lifecycleVars
<1> QED
  BY <1>1, <1>4, <1>5, Zenon
  DEF RequestInv, InboxPhases, ClosePhases, SlotsMatchCalls, NoWaitOnALostInbox,
      TokenOutlivesPublications, callVars, registryVars, lifecycleVars, inboxVars, closeVars

\* Every step of a call.
LEMMA CallKeeps ==
    ASSUME RequestInv, NEW c \in Calls, CallNext(c)
    PROVE  RequestInv'
<1>1. CASE EncodeFails(c)
  <2>1. ~sent[c]
    BY <1>1, Zenon DEF RequestInv, CallPhases, EncodeFails
  <2> QED
    BY <1>1, <2>1, FinishKeeps, Zenon DEF EncodeFails, Active, Results
<1>2. CASE PublishFails(c) \/ TimesOut(c) \/ Receive(c) \/ ChannelClosed(c) \/ Cancelled(c)
  <2>1. PICK r \in {"Transport", "Timeout", "Reply", "PublicationUnknown", "Cancelled"} :
            pc[c] \in Active /\ Finish(c, r) /\ UNCHANGED brokerVars
    BY <1>2, Zenon DEF PublishFails, TimesOut, Receive, ChannelClosed, Cancelled, Active
  <2>2. r \in Results \ {"none"} /\ r \notin {"Closed", "AtCapacity", "Encode"}
    BY <2>1, Zenon DEF Results
  <2> QED
    BY <2>1, <2>2, FinishKeeps, Zenon
<1> QED
  BY <1>1, <1>2, RegisterKeeps, ReadInboxKeeps, AdmitKeeps, PublishedKeeps, BrokerKeeps, ZenonT(60)
  DEF CallNext

-----------------------------------------------------------------------------
(* Steps of the supervisor and of the closers.                             *)

\* A reply takes its slot away and answers its caller, or changes nothing.
LEMMA DeliverKeeps ==
    ASSUME RequestInv, Deliver
    PROVE  RequestInv'
<1>1. PICK m \in wire : Resolve(m[1], m[2]) /\ wire' = wire \ {m}
  BY Zenon DEF Deliver
<1>2. m[1] \in Calls
  BY Zenon DEF RequestInv, TypeOK
<1>3. UNCHANGED <<callVars, sent, answers, closed, lifecycleVars, cancel, inboxVars, closeVars>>
  BY Zenon DEF Deliver
<1>4. \/ slots' = slots /\ mail' = mail
      \/ slots' = slots \ {m[1]} /\ mail' = [mail EXCEPT ![m[1]] = "reply"]
  BY <1>1, Zenon DEF Resolve
<1>5. TypeOK'
  <2>1. slots' \subseteq Calls /\ Cardinality(slots') <= MaxInFlight
    BY <1>4, FewerSlots, Zenon DEF RequestInv
  <2>2. mail' \in [Calls -> {"none", "open", "reply", "dropped"}]
    BY <1>2, <1>4, Zenon DEF RequestInv, TypeOK
  <2>3. wire' \subseteq Calls \X BOOLEAN
    BY <1>1, Zenon DEF RequestInv, TypeOK
  <2> QED
    BY <1>3, <2>1, <2>2, <2>3, ZenonT(60)
    DEF RequestInv, TypeOK, callVars, lifecycleVars, inboxVars, closeVars
<1>6. CallPhases' /\ RefusalsAreUnsent' /\ InboxPhases' /\ TokenOutlivesPublications'
  BY <1>3, Zenon
  DEF RequestInv, CallPhases, RefusalsAreUnsent, InboxPhases, TokenOutlivesPublications,
      callVars, lifecycleVars, inboxVars, closeVars
<1>7. SlotsMatchCalls'
  BY <1>2, <1>3, <1>4 DEF RequestInv, TypeOK, SlotsMatchCalls, callVars
<1>8. slots' \subseteq slots
  BY <1>4, Zenon
<1>9. ClosePhases' /\ NoWaitOnALostInbox'
  BY <1>3, <1>8, ZenonT(60)
  DEF RequestInv, ClosePhases, NoWaitOnALostInbox, callVars, lifecycleVars, inboxVars, closeVars
<1> QED
  BY <1>5, <1>6, <1>7, <1>9, ZenonT(60) DEF RequestInv

\* Emptying the registry wakes every caller that had a slot.
LEMMA AbandonKeeps ==
    ASSUME RequestInv, AbandonEverySlot, UNCHANGED callVars
    PROVE  /\ slots' = {} /\ Cardinality(slots') <= MaxInFlight
           /\ mail' \in [Calls -> {"none", "open", "reply", "dropped"}]
           /\ SlotsMatchCalls' /\ NoWaitOnALostInbox'
<1>1. slots' = {} /\ mail' = [c \in Calls |-> IF c \in slots THEN "dropped" ELSE mail[c]]
  BY Zenon DEF AbandonEverySlot
<1>2. mail' \in [Calls -> {"none", "open", "reply", "dropped"}]
  BY <1>1, Zenon DEF RequestInv, TypeOK
<1>3. SlotsMatchCalls'
  BY <1>1, Zenon DEF RequestInv, TypeOK, SlotsMatchCalls, callVars
<1> QED
  BY <1>1, <1>2, <1>3, FewerSlots, ZenonT(60) DEF RequestInv, NoWaitOnALostInbox

\* The steps of the supervisor that leave the registry and the calls alone.
LEMMA SupervisorKeeps ==
    ASSUME RequestInv,
           \/ ConnectionLost \/ RunEnds \/ MarkReconnecting
           \/ Reconnected \/ ReconnectCancelled \/ CancelToken
    PROVE  RequestInv'
<1>1. UNCHANGED <<callVars, sent, answers, registryVars, lifecycleVars, closeVars>>
  BY Zenon
  DEF ConnectionLost, RunEnds, MarkReconnecting, Reconnected, ReconnectCancelled, CancelToken,
      SupervisorStops, brokerVars
<1>2. /\ wire' \subseteq Calls \X BOOLEAN /\ cancel' \in BOOLEAN /\ live' \in BOOLEAN
      /\ sup' \in {"running", "lost", "marked", "reconnecting", "done"}
  BY Zenon
  DEF RequestInv, TypeOK, ConnectionLost, RunEnds, MarkReconnecting, Reconnected,
      ReconnectCancelled, CancelToken, SupervisorStops, brokerVars, inboxVars
<1>3. sup = "done" => sup' = "done"
  BY Zenon
  DEF ConnectionLost, RunEnds, MarkReconnecting, Reconnected, ReconnectCancelled, CancelToken,
      SupervisorStops, inboxVars
<1>4. CASE Reconnected
  <2>1. /\ sup = "reconnecting" /\ sup' = "running"
        /\ latest' = latest + 1 /\ inbox' = latest'
    BY <1>4, Zenon DEF Reconnected
  <2>2. inbox' \in Nat /\ latest' \in Nat \ {0}
    BY <2>1 DEF RequestInv, TypeOK
  <2>3. InboxPhases'
    BY <2>1, Zenon DEF InboxPhases
  <2>4. NoWaitOnALostInbox'
    BY <1>1, <2>1, Zenon DEF RequestInv, NoWaitOnALostInbox, callVars, registryVars
  <2>5. TypeOK'
    BY <1>1, <1>2, <2>2, ZenonT(60)
    DEF RequestInv, TypeOK, callVars, registryVars, lifecycleVars, closeVars
  <2> QED
    BY <1>1, <1>3, <2>3, <2>4, <2>5, ZenonT(60)
    DEF RequestInv, CallPhases, ClosePhases, SlotsMatchCalls, RefusalsAreUnsent,
        TokenOutlivesPublications, callVars, registryVars, lifecycleVars, closeVars
<1>5. CASE ~Reconnected
  <2>1. latest' = latest /\ inbox' \in {0, inbox}
    BY <1>5, Zenon
    DEF ConnectionLost, RunEnds, MarkReconnecting, ReconnectCancelled, CancelToken,
        SupervisorStops, inboxVars
  <2>2. inbox' \in Nat /\ latest' \in Nat \ {0}
    BY <2>1 DEF RequestInv, TypeOK
  <2>3. /\ sup' \in {"marked", "reconnecting"} => inbox' = 0
        /\ sup' \in {"running", "lost"} => inbox' = inbox /\ sup \in {"running", "lost"}
        /\ sup' = "reconnecting" => sup = "reconnecting"
    BY <1>5, Zenon
    DEF RequestInv, InboxPhases, ConnectionLost, RunEnds, MarkReconnecting, ReconnectCancelled,
        CancelToken, SupervisorStops, inboxVars
  <2>4. InboxPhases'
    BY <2>1, <2>3, Zenon DEF RequestInv, InboxPhases
  <2>5. NoWaitOnALostInbox'
    BY <1>1, <2>1, <2>3, ZenonT(60) DEF RequestInv, NoWaitOnALostInbox, callVars, registryVars
  <2>6. TypeOK'
    BY <1>1, <1>2, <2>2, Zenon
    DEF RequestInv, TypeOK, callVars, registryVars, lifecycleVars, closeVars
  <2> QED
    BY <1>1, <1>3, <2>4, <2>5, <2>6, Zenon
    DEF RequestInv, CallPhases, ClosePhases, SlotsMatchCalls, RefusalsAreUnsent,
        TokenOutlivesPublications, callVars, registryVars, lifecycleVars, closeVars
<1> QED
  BY <1>4, <1>5, Zenon

\* The drain comes after the mark: nobody can still read the lost inbox.
LEMMA DrainKeeps ==
    ASSUME RequestInv, Drain
    PROVE  RequestInv'
<1>1. /\ sup = "marked" /\ sup' = "reconnecting" /\ AbandonEverySlot
      /\ UNCHANGED <<callVars, brokerVars, closed, lifecycleVars, cancel, inbox, latest, live,
                     closeVars>>
  BY Zenon DEF Drain
<1>2. /\ slots' = {} /\ Cardinality(slots') <= MaxInFlight
      /\ mail' \in [Calls -> {"none", "open", "reply", "dropped"}]
      /\ SlotsMatchCalls' /\ NoWaitOnALostInbox'
  BY <1>1, AbandonKeeps, Zenon
<1>3. TypeOK'
  BY <1>1, <1>2, Zenon
  DEF RequestInv, TypeOK, callVars, brokerVars, lifecycleVars, closeVars
<1>4. ClosePhases'
  BY <1>1, <1>2, Zenon DEF RequestInv, ClosePhases, lifecycleVars, closeVars
<1>5. InboxPhases'
  BY <1>1, Zenon DEF RequestInv, InboxPhases
<1> QED
  BY <1>1, <1>2, <1>3, <1>4, <1>5, ZenonT(60)
  DEF RequestInv, CallPhases, RefusalsAreUnsent, TokenOutlivesPublications,
      callVars, brokerVars, lifecycleVars, closeVars

\* CloseRegistry empties the registry for good.
LEMMA CloseRegistryKeeps ==
    ASSUME RequestInv, NEW k \in Closers, CloseRegistry(k)
    PROVE  RequestInv'
<1>1. /\ closer[k] = "begun" /\ closer' = [closer EXCEPT ![k] = "draining"] /\ closed' = TRUE
      /\ AbandonEverySlot
      /\ UNCHANGED <<callVars, brokerVars, lifecycleVars, cancel, inboxVars, awaits>>
  BY Zenon DEF CloseRegistry
<1>2. /\ slots' = {} /\ Cardinality(slots') <= MaxInFlight
      /\ mail' \in [Calls -> {"none", "open", "reply", "dropped"}]
      /\ SlotsMatchCalls' /\ NoWaitOnALostInbox'
  BY <1>1, AbandonKeeps, Zenon
<1>3. TypeOK'
  BY <1>1, <1>2, Zenon
  DEF RequestInv, TypeOK, callVars, brokerVars, lifecycleVars, inboxVars
<1>4. ClosePhases' /\ TokenOutlivesPublications'
  BY <1>1, <1>2, Zenon
  DEF RequestInv, TypeOK, ClosePhases, TokenOutlivesPublications, lifecycleVars, inboxVars
<1> QED
  BY <1>1, <1>2, <1>3, <1>4, ZenonT(60)
  DEF RequestInv, CallPhases, InboxPhases, RefusalsAreUnsent,
      callVars, brokerVars, lifecycleVars, inboxVars

\* The other steps of close().
LEMMA CloserKeeps ==
    ASSUME RequestInv, NEW k \in Closers, BeginClose(k) \/ Drained(k) \/ CloseReturns(k)
    PROVE  RequestInv'
<1>1. UNCHANGED <<callVars, brokerVars, registryVars, permits, drained, inboxVars>>
  BY Zenon DEF BeginClose, Drained, CloseReturns, lifecycleVars
<1>2. TypeOK'
  <2>1. /\ closer' \in [Closers -> {"idle", "begun", "draining", "joining", "returned"}]
        /\ awaits' \in [Closers -> BOOLEAN] /\ closing' \in BOOLEAN /\ cancel' \in BOOLEAN
    BY Zenon DEF RequestInv, TypeOK, BeginClose, Drained, CloseReturns, lifecycleVars
  <2> QED
    BY <1>1, <2>1, Zenon DEF RequestInv, TypeOK, callVars, brokerVars, registryVars, inboxVars
<1>3. ClosePhases' /\ TokenOutlivesPublications'
  <2>1. CASE BeginClose(k)
    <3>1. /\ closer' = [closer EXCEPT ![k] = "begun"] /\ closing' = TRUE
          /\ awaits' = [awaits EXCEPT ![k] = permits # {}]
      BY <2>1, Zenon DEF BeginClose
    <3> QED
      BY <1>1, <3>1, Zenon
      DEF RequestInv, TypeOK, ClosePhases, TokenOutlivesPublications, registryVars, inboxVars
  <2>2. CASE Drained(k)
    <3>1. /\ closer[k] = "draining" /\ closer' = [closer EXCEPT ![k] = "joining"]
          /\ closing' = closing /\ awaits' = awaits
      BY <2>2, Zenon DEF Drained, lifecycleVars
    <3>2. permits = {}
      BY <2>2, <3>1, Zenon DEF RequestInv, ClosePhases, Drained
    <3> QED
      BY <1>1, <3>1, <3>2, Zenon
      DEF RequestInv, TypeOK, ClosePhases, TokenOutlivesPublications, registryVars, inboxVars
  <2>3. CASE CloseReturns(k)
    <3>1. /\ closer[k] = "joining" /\ closer' = [closer EXCEPT ![k] = "returned"]
          /\ sup = "done" /\ closing' = closing /\ awaits' = awaits
      BY <2>3, Zenon DEF CloseReturns, lifecycleVars
    <3> QED
      BY <1>1, <3>1, ZenonT(60)
      DEF RequestInv, TypeOK, ClosePhases, TokenOutlivesPublications, registryVars, inboxVars
  <2> QED
    BY <2>1, <2>2, <2>3, Zenon
<1> QED
  BY <1>1, <1>2, <1>3, Zenon
  DEF RequestInv, CallPhases, InboxPhases, SlotsMatchCalls, NoWaitOnALostInbox,
      RefusalsAreUnsent, callVars, brokerVars, registryVars, inboxVars

-----------------------------------------------------------------------------
(* The theorems.                                                           *)

\* A client that has just connected satisfies the invariant.
LEMMA InitHolds == Init => RequestInv
<1> SUFFICES ASSUME Init PROVE RequestInv
  BY Zenon
<1>1. TypeOK
  <2>1. Cardinality(slots) <= MaxInFlight
    BY RequestConstants, FS_EmptySet DEF Init
  <2>2. replyTo \in [Calls -> Nat] /\ answers \in [Calls -> Nat]
        /\ inbox \in Nat /\ latest \in Nat \ {0}
    BY DEF Init
  <2> QED
    BY <2>1, <2>2, Zenon DEF Init, TypeOK, Results
<1> QED
  BY <1>1, Zenon
  DEF Init, RequestInv, CallPhases, InboxPhases, ClosePhases, SlotsMatchCalls,
      NoWaitOnALostInbox, RefusalsAreUnsent, TokenOutlivesPublications, Active

\* Whatever calls, replies, lost connections and closers do, and in whatever order, the
\* registry, the calls, the inbox on offer and the shutdown agree as RequestInv says.
THEOREM RequestInvariant == Spec => []RequestInv
<1>1. RequestInv /\ [Next]_vars => RequestInv'
  <2> SUFFICES ASSUME RequestInv, [Next]_vars PROVE RequestInv'
    BY Zenon
  <2>1. CASE UNCHANGED vars
    BY <2>1, ZenonT(60)
    DEF RequestInv, TypeOK, CallPhases, InboxPhases, ClosePhases, SlotsMatchCalls,
        NoWaitOnALostInbox, RefusalsAreUnsent, TokenOutlivesPublications, vars, callVars,
        brokerVars, registryVars, lifecycleVars, inboxVars, closeVars
  <2>2. CASE \E c \in Calls : CallNext(c)
    BY <2>2, CallKeeps, Zenon
  <2>3. CASE InboxNext
    BY <2>3, DeliverKeeps, DrainKeeps, SupervisorKeeps, Zenon DEF InboxNext
  <2>4. CASE \E k \in Closers : CloseNext(k)
    BY <2>4, CloseRegistryKeeps, CloserKeeps, ZenonT(60) DEF CloseNext
  <2> QED
    BY <2>1, <2>2, <2>3, <2>4, Zenon DEF Next
<1> QED
  BY <1>1, InitHolds, PTL DEF Spec

\* No slot leaks, whatever ends a call, and no caller is left without slot and signal.
THEOREM NoSlotLeaks == Spec => []SlotsMatchCalls
BY RequestInvariant, PTL DEF RequestInv

\* Register-then-read and mark-then-drain close the reconnect race.
THEOREM ReconnectRaceIsClosed == Spec => []NoWaitOnALostInbox
BY RequestInvariant, PTL DEF RequestInv

\* A call refused as Closed, AtCapacity or Encode never reached the broker.
THEOREM RefusalsAreSafe == Spec => []RefusalsAreUnsent
BY RequestInvariant, PTL DEF RequestInv

\* close() never cancels the shared token under a publication it admitted.
THEOREM ShutdownWaits == Spec => []TokenOutlivesPublications
BY RequestInvariant, PTL DEF RequestInv

\* A close() that has returned left nothing running and nothing pending.
THEOREM ShutdownIsComplete == Spec => []CloseIsComplete
<1>1. RequestInv => CloseIsComplete
  BY Zenon DEF RequestInv, ClosePhases, CloseIsComplete
<1> QED
  BY <1>1, RequestInvariant, PTL

-----------------------------------------------------------------------------
(* The memory of retired slots.                                            *)

\* What RetiredSlots can hold.
Memories == Seq([id : Calls, why : {"Resolved", "Abandoned"}])

\* The memory r is m with a newest entry for c.  The others keep their order, and the
\* oldest leaves only when the memory was full.
Remembers(r, m, c, why) ==
    /\ r \in Memories /\ Len(r) \in 1..MaxInFlight
    /\ Len(r) = IF Len(m) = MaxInFlight THEN Len(m) ELSE Len(m) + 1
    /\ r[Len(r)] = [id |-> c, why |-> why]
    /\ \A e \in 1..(Len(r) - 1) :
          /\ e + Len(m) + 1 - Len(r) \in DOMAIN m
          /\ r[e] = m[e + Len(m) + 1 - Len(r)]

\* A call the memory does not know becomes its newest entry.
LEMMA RecordFresh ==
    ASSUME NEW m \in Memories, Len(m) <= MaxInFlight, MaxInFlight # 0,
           NEW c \in Calls, NEW why \in {"Resolved", "Abandoned"},
           \A e \in DOMAIN m : m[e].id # c,
           NEW r, r = Record(m, c, why)
    PROVE  Remembers(r, m, c, why)
<1> DEFINE entry == [id |-> c, why |-> why]
           E == [id : Calls, why : {"Resolved", "Abandoned"}]
           rest == IF Len(m) >= MaxInFlight THEN Tail(m) ELSE m
<1>1. r = Append(rest, entry)
  BY Zenon DEF Record
<1>2. entry \in E
  BY Zenon
<1>3. m \in Seq(E) /\ Len(m) \in Nat /\ MaxInFlight \in Nat
  BY RequestConstants DEF Memories
<1> HIDE DEF E, entry
<1>4. CASE Len(m) >= MaxInFlight
  <2>1. Len(m) = MaxInFlight /\ rest = Tail(m) /\ m # <<>>
    BY <1>3, <1>4
  <2>2. rest \in Seq(E) /\ Len(rest) = Len(m) - 1 /\ \A e \in 1..Len(rest) : rest[e] = m[e + 1]
    BY <1>3, <2>1
  <2> HIDE DEF rest
  <2>3. r \in Seq(E) /\ Len(r) = Len(m) /\ r[Len(r)] = entry
        /\ \A e \in 1..(Len(r) - 1) : r[e] = rest[e]
    BY <1>1, <1>2, <1>3, <2>2, SMTT(30)
  <2>4. \A e \in 1..(Len(r) - 1) :
            e + Len(m) + 1 - Len(r) \in DOMAIN m /\ r[e] = m[e + Len(m) + 1 - Len(r)]
    <3> SUFFICES ASSUME NEW e \in 1..(Len(r) - 1)
                 PROVE  e + Len(m) + 1 - Len(r) \in DOMAIN m
                        /\ r[e] = m[e + Len(m) + 1 - Len(r)]
      BY Zenon
    <3>1. Len(m) \in Nat /\ Len(r) = Len(m) /\ Len(rest) = Len(m) - 1
      BY <1>3, <2>2, <2>3, ZenonT(60)
    <3>2. e + Len(m) + 1 - Len(r) = e + 1 /\ e + 1 \in 1..Len(m) /\ e \in 1..Len(rest)
      BY <3>1
    <3>3. DOMAIN m = 1..Len(m)
      BY <1>3
    <3>4. r[e] = rest[e] /\ rest[e] = m[e + 1]
      BY <2>2, <2>3, <3>2, Zenon
    <3> QED
      BY <3>2, <3>3, <3>4, ZenonT(60)
  <2> QED
    BY <1>3, <2>1, <2>3, <2>4, SMTT(30) DEF Memories, E, entry, Remembers
<1>5. CASE ~(Len(m) >= MaxInFlight)
  <2>1. rest = m
    BY <1>5, Zenon
  <2>2. r \in Seq(E) /\ Len(r) = Len(m) + 1 /\ r[Len(r)] = entry
        /\ \A e \in 1..(Len(r) - 1) : r[e] = m[e]
    BY <1>1, <1>2, <1>3, <2>1, SMTT(30)
  <2>3. \A e \in 1..(Len(r) - 1) :
            e + Len(m) + 1 - Len(r) \in DOMAIN m /\ r[e] = m[e + Len(m) + 1 - Len(r)]
    BY <1>3, <2>2, SMTT(30)
  <2> QED
    BY <1>3, <1>5, <2>2, <2>3, SMTT(30) DEF Memories, E, entry, Remembers
<1> QED
  BY <1>4, <1>5, Zenon

\* A set of natural numbers with a member has a least one.
LEMMA Least ==
    ASSUME NEW T \in SUBSET Nat, T # {}
    PROVE  \E n \in T : \A m \in T : n <= m
<1> DEFINE R == {ss \in Nat \X Nat : ss[1] < ss[2]}
<1>0. OpToRel(<, Nat) = R
  BY Zenon DEF OpToRel
<1>1. IsWellFoundedOn(R, Nat)
  BY <1>0, NatLessThanWellFounded, Zenon
<1>2. PICK n \in T : \A m \in T : ~(<<m, n>> \in R)
  <2> HIDE DEF R
  <2> QED
    BY <1>1, WFMin, Zenon
<1>3. \A m \in T : ~(m < n)
  BY <1>2, Zenon
<1> QED
  BY <1>3

\* The memory after each of the retirements of abandon_every_slot.
IsInTurn(g, k, memory, order) ==
    g = [i \in 0..k |-> IF i = 0 THEN memory ELSE Record(g[i - 1], order[i], "Abandoned")]

\* The memories of any number of retirements in turn exist, so that the recursive function
\* of AbandonInTurn is what its definition says.
LEMMA InTurnExists ==
    ASSUME NEW memory, NEW order, NEW k \in Nat
    PROVE  \E g : IsInTurn(g, k, memory, order)
<1> DEFINE T == {n \in Nat : ~\E g : IsInTurn(g, n, memory, order)}
<1> SUFFICES ASSUME T # {} PROVE FALSE
  BY Zenon
<1>1. PICK n \in T : \A m \in T : n <= m
  <2> HIDE DEF T
  <2>1. T \in SUBSET Nat
    BY Zenon DEF T
  <2> QED
    BY <2>1, Least, Zenon
<1>2. n \in Nat /\ ~\E g : IsInTurn(g, n, memory, order)
  BY <1>1, ZenonT(60)
<1>3. CASE n = 0
  <2> DEFINE h == [i \in 0..0 |-> memory]
  <2>1. h = [i \in 0..0 |-> IF i = 0 THEN memory ELSE Record(h[i - 1], order[i], "Abandoned")]
    OBVIOUS
  <2> HIDE DEF h
  <2>2. IsInTurn(h, n, memory, order)
    BY <1>3, <2>1, Zenon DEF IsInTurn
  <2> QED
    BY <1>2, <2>2, Zenon
<1>4. CASE n # 0
  <2>1. n - 1 \in Nat /\ ~(n <= n - 1)
    BY <1>2, <1>4
  <2>2. n - 1 \notin T
    BY <1>1, <2>1, Zenon
  <2>3. PICK g : IsInTurn(g, n - 1, memory, order)
    BY <2>1, <2>2, Zenon
  <2>4. \A i \in 0..(n - 1) :
            g[i] = IF i = 0 THEN memory ELSE Record(g[i - 1], order[i], "Abandoned")
    BY <2>3, Zenon DEF IsInTurn
  <2> DEFINE h == [i \in 0..n |-> IF i = n THEN Record(g[n - 1], order[n], "Abandoned") ELSE g[i]]
  <2>5. \A i \in 0..n :
            (IF i = n THEN Record(g[n - 1], order[n], "Abandoned") ELSE g[i])
            = IF i = 0 THEN memory ELSE Record(h[i - 1], order[i], "Abandoned")
    <3> SUFFICES ASSUME NEW i \in 0..n
                 PROVE  (IF i = n THEN Record(g[n - 1], order[n], "Abandoned") ELSE g[i])
                        = IF i = 0 THEN memory ELSE Record(h[i - 1], order[i], "Abandoned")
      BY Zenon
    <3>1. i # 0 => h[i - 1] = g[i - 1]
      BY <1>2
    <3> HIDE DEF h
    <3>2. CASE i = n
      BY <1>4, <3>1, <3>2, Zenon
    <3>3. CASE i # n
      <4>1. i \in 0..(n - 1)
        BY <1>2, <3>3
      <4> QED
        BY <2>4, <3>1, <3>3, <4>1, ZenonT(60)
    <3> QED
      BY <3>2, <3>3, Zenon
  <2>6. h = [i \in 0..n |-> IF i = 0 THEN memory ELSE Record(h[i - 1], order[i], "Abandoned")]
    BY <2>5, ZenonT(60)
  <2> HIDE DEF h
  <2> QED
    BY <1>2, <2>6, ZenonT(60) DEF IsInTurn
<1> QED
  BY <1>3, <1>4, Zenon

\* What a retirement carries from one place in the turn to the next holds at its end.
LEMMA InTurn ==
    ASSUME NEW memory, NEW order, Len(order) \in Nat, NEW S,
           memory \in S[0],
           \A i \in 1..Len(order) : \A m \in S[i - 1] :
               Record(m, order[i], "Abandoned") \in S[i]
    PROVE  AbandonInTurn(memory, order) \in S[Len(order)]
<1> DEFINE after[i \in 0..Len(order)] ==
               IF i = 0 THEN memory ELSE Record(after[i - 1], order[i], "Abandoned")
<1>1. after = [i \in 0..Len(order) |->
                   IF i = 0 THEN memory ELSE Record(after[i - 1], order[i], "Abandoned")]
  <2>1. \E g : g = [i \in 0..Len(order) |->
                        IF i = 0 THEN memory ELSE Record(g[i - 1], order[i], "Abandoned")]
    <3>1. \E g : IsInTurn(g, Len(order), memory, order)
      BY InTurnExists, Zenon
    <3> QED
      BY <3>1, Zenon DEF IsInTurn
  <2> QED
    BY <2>1, Zenon DEF after
<1>2. AbandonInTurn(memory, order) = after[Len(order)]
  BY Zenon DEF AbandonInTurn
<1> HIDE DEF after
<1> DEFINE T == {n \in 0..Len(order) : after[n] \notin S[n]}
<1>3. T = {}
  <2> SUFFICES ASSUME T # {} PROVE FALSE
    BY Zenon
  <2>1. PICK n \in T : \A m \in T : n <= m
    <3>1. T \in SUBSET Nat
      OBVIOUS
    <3> HIDE DEF T
    <3> QED
      BY <3>1, Least, Zenon
  <2>2. n \in 0..Len(order) /\ after[n] \notin S[n]
    BY <2>1, Zenon
  <2>3. n # 0
    BY <1>1, <2>2, ZenonT(60)
  <2>4. n - 1 \in 0..Len(order) /\ n \in 1..Len(order) /\ ~(n <= n - 1)
    BY <2>2, <2>3
  <2>5. after[n - 1] \in S[n - 1]
    BY <2>1, <2>4, ZenonT(60)
  <2>6. after[n] = Record(after[n - 1], order[n], "Abandoned")
    BY <1>1, <2>2, <2>3, ZenonT(60)
  <2> QED
    BY <2>2, <2>4, <2>5, <2>6, ZenonT(60)
<1>4. Len(order) \in 0..Len(order)
  OBVIOUS
<1> QED
  BY <1>2, <1>3, <1>4, ZenonT(60)

-----------------------------------------------------------------------------
(* A drain.                                                                *)

\* The memory once the first i calls of order have been abandoned after `old`: nothing but
\* them was added, and they are its newest entries.
Turn(old, order, i) ==
    {m \in Memories :
        /\ Len(m) \in i..MaxInFlight
        /\ \A e \in DOMAIN m :
              \/ \E f \in DOMAIN old : m[e] = old[f]
              \/ \E j \in 1..i : m[e] = [id |-> order[j], why |-> "Abandoned"]
        /\ \A j \in 1..i : m[Len(m) - i + j].id = order[j]}

\* One more call is abandoned: it is new to the memory, and forgets none of those before.
LEMMA TurnMoves ==
    ASSUME NEW old \in Memories, NEW order \in Seq(Calls), Len(order) <= MaxInFlight,
           \A j \in 1..Len(order), k \in 1..Len(order) : j # k => order[j] # order[k],
           \A f \in DOMAIN old : \A j \in 1..Len(order) : old[f].id # order[j],
           NEW i \in 1..Len(order), NEW m \in Turn(old, order, i - 1)
    PROVE  Record(m, order[i], "Abandoned") \in Turn(old, order, i)
<1>1. Len(order) \in Nat /\ MaxInFlight \in Nat /\ MaxInFlight # 0 /\ order[i] \in Calls
  BY RequestConstants
<1>2. /\ m \in Memories /\ Len(m) \in (i - 1)..MaxInFlight
      /\ \A e \in DOMAIN m :
            \/ \E f \in DOMAIN old : m[e] = old[f]
            \/ \E j \in 1..(i - 1) : m[e] = [id |-> order[j], why |-> "Abandoned"]
      /\ \A j \in 1..(i - 1) : m[Len(m) - (i - 1) + j].id = order[j]
  BY Zenon DEF Turn
<1>3. Len(m) \in Nat /\ Len(m) <= MaxInFlight
  BY <1>1, <1>2
<1>4. \A e \in DOMAIN m : m[e].id # order[i]
  <2> SUFFICES ASSUME NEW e \in DOMAIN m PROVE m[e].id # order[i]
    BY Zenon
  <2>1. CASE \E f \in DOMAIN old : m[e] = old[f]
    BY <2>1, Zenon
  <2>2. CASE \E j \in 1..(i - 1) : m[e] = [id |-> order[j], why |-> "Abandoned"]
    <3>1. PICK j \in 1..(i - 1) : m[e] = [id |-> order[j], why |-> "Abandoned"]
      BY <2>2, Zenon
    <3>2. j \in 1..Len(order) /\ j # i
      BY <1>1
    <3>3. m[e].id = order[j]
      BY <3>1
    <3> QED
      BY <3>2, <3>3, ZenonT(60)
  <2> QED
    BY <1>2, <2>1, <2>2, ZenonT(60)
<1>5. PICK r : r = Record(m, order[i], "Abandoned")
  BY Zenon
<1>6. /\ r \in Memories /\ Len(r) \in 1..MaxInFlight
      /\ Len(r) = IF Len(m) = MaxInFlight THEN Len(m) ELSE Len(m) + 1
      /\ r[Len(r)] = [id |-> order[i], why |-> "Abandoned"]
      /\ \A e \in 1..(Len(r) - 1) :
            /\ e + Len(m) + 1 - Len(r) \in DOMAIN m
            /\ r[e] = m[e + Len(m) + 1 - Len(r)]
  <2>1. "Abandoned" \in {"Resolved", "Abandoned"}
    BY Zenon
  <2>2. m \in Memories
    BY <1>2, Zenon
  <2>3. Remembers(r, m, order[i], "Abandoned")
    BY <1>1, <1>3, <1>4, <1>5, <2>1, <2>2, RecordFresh, ZenonT(60)
  <2> QED
    BY <2>3, Zenon DEF Remembers
<1>7. DOMAIN r = 1..Len(r)
  BY <1>6 DEF Memories
<1>8. Len(r) \in i..MaxInFlight
  BY <1>1, <1>2, <1>6
<1>9. ASSUME NEW e \in DOMAIN r
      PROVE  \/ \E f \in DOMAIN old : r[e] = old[f]
             \/ \E j \in 1..i : r[e] = [id |-> order[j], why |-> "Abandoned"]
  <2>1. CASE e = Len(r)
    <3>1. i \in 1..i
      OBVIOUS
    <3> QED
      BY <1>6, <2>1, <3>1, ZenonT(60)
  <2>2. CASE e # Len(r)
    <3>1. e \in 1..(Len(r) - 1)
      BY <1>6, <1>7, <2>2
    <3>2. PICK p \in DOMAIN m : r[e] = m[p]
      BY <1>6, <3>1, ZenonT(60)
    <3>3. \A j \in 1..(i - 1) : j \in 1..i
      BY <1>1
    <3>4. CASE \E f \in DOMAIN old : m[p] = old[f]
      BY <3>2, <3>4, Zenon
    <3>5. CASE \E j \in 1..(i - 1) : m[p] = [id |-> order[j], why |-> "Abandoned"]
      <4>1. PICK j \in 1..(i - 1) : m[p] = [id |-> order[j], why |-> "Abandoned"]
        BY <3>5, Zenon
      <4> QED
        BY <3>2, <3>3, <4>1, ZenonT(60)
    <3> QED
      BY <1>2, <3>4, <3>5, ZenonT(60)
  <2> QED
    BY <2>1, <2>2, Zenon
<1>10. ASSUME NEW j \in 1..i
       PROVE  r[Len(r) - i + j].id = order[j]
  <2>1. CASE j = i
    <3>1. Len(r) - i + j = Len(r)
      BY <1>6, <2>1
    <3>2. r[Len(r)].id = order[i]
      BY <1>6
    <3> QED
      BY <2>1, <3>1, <3>2, ZenonT(60)
  <2>2. CASE j # i
    <3>1. /\ j \in 1..(i - 1) /\ Len(r) - i + j \in 1..(Len(r) - 1)
          /\ (Len(r) - i + j) + Len(m) + 1 - Len(r) = Len(m) - (i - 1) + j
      BY <1>3, <1>8, <2>2
    <3> QED
      BY <1>2, <1>6, <3>1, ZenonT(60)
  <2> QED
    BY <2>1, <2>2, ZenonT(60)
<1> QED
  BY <1>5, <1>6, <1>8, <1>9, <1>10, ZenonT(60) DEF Turn

\* What drain and close leave in the memory: retirements it held already and those of the
\* abandoned slots, every one of which it remembers.
LEMMA AbandonRemembers ==
    ASSUME RequestInv, RetiredInv, AbandonEverySlot
    PROVE  /\ retired' \in Memories /\ Len(retired') <= MaxInFlight
           /\ \A e \in DOMAIN retired' :
                 \/ \E f \in DOMAIN retired : retired'[e] = retired[f]
                 \/ retired'[e].id \in slots /\ retired'[e].why = "Abandoned"
           /\ \A c \in slots : \E e \in DOMAIN retired' : retired'[e].id = c
<1>1. PICK order \in SetToSeqs(slots) : retired' = AbandonInTurn(retired, order)
  BY Zenon DEF AbandonEverySlot
<1> DEFINE D == 1..Cardinality(slots)
<1>2. /\ order \in [D -> slots]
      /\ \A j \in D, k \in D : j # k => order[j] # order[k]
  BY Zenon DEF SetToSeqs
<1>3. IsFiniteSet(slots) /\ Cardinality(slots) \in Nat
  BY SlotsAreFinite, Zenon DEF RequestInv
<1>4. slots \subseteq Calls /\ Cardinality(slots) <= MaxInFlight
  BY Zenon DEF RequestInv, TypeOK
<1>5. order \in Seq(Calls) /\ Len(order) = Cardinality(slots)
  BY <1>2, <1>3, <1>4
<1>6. \A c \in slots : \E j \in D : order[j] = c
  <2>1. IsFiniteSet(D) /\ Cardinality(D) = Cardinality(slots)
    BY <1>3, FS_Interval
  <2> HIDE DEF D
  <2>2. order \in Injection(D, slots)
    BY <1>2, Zenon DEF Injection, IsInjective
  <2>3. order \in Surjection(D, slots)
    BY <1>3, <2>1, <2>2, FS_Injection, ZenonT(60)
  <2> QED
    BY <2>3, Zenon DEF Surjection
<1>7. D = 1..Len(order)
  BY <1>5, Zenon
<1> HIDE DEF D
<1>8. \A f \in DOMAIN retired : \A j \in 1..Len(order) : retired[f].id # order[j]
  BY <1>2, <1>7, ZenonT(60) DEF RetiredInv
<1>9. retired \in Memories /\ Len(retired) <= MaxInFlight
  BY Zenon DEF RetiredInv, RetirementIsTruthful, Memories
<1> DEFINE S == [i \in 0..Len(order) |-> Turn(retired, order, i)]
<1>10. S[0] = Turn(retired, order, 0) /\ S[Len(order)] = Turn(retired, order, Len(order))
  BY <1>3, <1>5
<1>11. retired \in S[0]
  <2>1. Len(retired) \in 0..MaxInFlight
    BY <1>9, RequestConstants DEF Memories
  <2>2. \A j \in 1..0 : FALSE
    OBVIOUS
  <2>3. retired \in Turn(retired, order, 0)
    BY <1>9, <2>1, <2>2, ZenonT(60) DEF Turn
  <2> QED
    BY <1>10, <2>3, ZenonT(60)
<1>12. ASSUME NEW i \in 1..Len(order), NEW m \in S[i - 1]
       PROVE  Record(m, order[i], "Abandoned") \in S[i]
  <2>1. i - 1 \in 0..Len(order) /\ i \in 0..Len(order)
    BY <1>3, <1>5
  <2>2. S[i - 1] = Turn(retired, order, i - 1) /\ S[i] = Turn(retired, order, i)
    BY <2>1, Zenon
  <2> HIDE DEF S
  <2>3. Len(order) <= MaxInFlight
    BY <1>4, <1>5, ZenonT(60)
  <2>4. \A j \in 1..Len(order), k \in 1..Len(order) : j # k => order[j] # order[k]
    BY <1>2, <1>7, Zenon
  <2>5. m \in Turn(retired, order, i - 1)
    BY <2>2, Zenon
  <2>6. Record(m, order[i], "Abandoned") \in Turn(retired, order, i)
    BY <1>5, <1>8, <1>9, <2>3, <2>4, <2>5, TurnMoves, ZenonT(60)
  <2> QED
    BY <2>2, <2>6, ZenonT(60)
<1>13. retired' \in Turn(retired, order, Len(order))
  <2> HIDE DEF S
  <2>1. Len(order) \in Nat
    BY <1>3, <1>5, Zenon
  <2>2. AbandonInTurn(retired, order) \in S[Len(order)]
    BY <1>11, <1>12, <2>1, InTurn, ZenonT(60)
  <2> QED
    BY <1>1, <1>10, <2>2, ZenonT(60)
<1> HIDE DEF S
<1>14. /\ retired' \in Memories /\ Len(retired') \in Len(order)..MaxInFlight
       /\ \A e \in DOMAIN retired' :
             \/ \E f \in DOMAIN retired : retired'[e] = retired[f]
             \/ \E j \in 1..Len(order) : retired'[e] = [id |-> order[j], why |-> "Abandoned"]
       /\ \A j \in 1..Len(order) : retired'[Len(retired') - Len(order) + j].id = order[j]
  BY <1>13, Zenon DEF Turn
<1>15. \A e \in DOMAIN retired' :
           \/ \E f \in DOMAIN retired : retired'[e] = retired[f]
           \/ retired'[e].id \in slots /\ retired'[e].why = "Abandoned"
  <2> SUFFICES ASSUME NEW e \in DOMAIN retired', ~\E f \in DOMAIN retired : retired'[e] = retired[f]
               PROVE  retired'[e].id \in slots /\ retired'[e].why = "Abandoned"
    BY Zenon
  <2>1. PICK j \in D : retired'[e] = [id |-> order[j], why |-> "Abandoned"]
    BY <1>7, <1>14, ZenonT(60)
  <2>2. order[j] \in slots
    BY <1>2, Zenon
  <2> QED
    BY <2>1, <2>2
<1>16. \A c \in slots : \E e \in DOMAIN retired' : retired'[e].id = c
  <2> SUFFICES ASSUME NEW c \in slots PROVE \E e \in DOMAIN retired' : retired'[e].id = c
    BY Zenon
  <2>1. PICK j \in 1..Len(order) : order[j] = c
    BY <1>6, <1>7, Zenon
  <2>2. Len(order) \in Nat /\ DOMAIN retired' = 1..Len(retired')
    BY <1>3, <1>5, <1>14 DEF Memories
  <2>3. Len(retired') - Len(order) + j \in 1..Len(retired')
    BY <1>14, <2>2, RequestConstants
  <2> QED
    BY <1>14, <2>1, <2>2, <2>3, ZenonT(60)
<1>17. Len(retired') <= MaxInFlight
  BY <1>14, <1>3, <1>5, RequestConstants
<1> QED
  BY <1>14, <1>15, <1>16, <1>17, ZenonT(60)

-----------------------------------------------------------------------------
(* What a step does to the memory.                                         *)

\* The memory stays as it is: no slot leaves, and only a call that is new gets one.
MemoryStays ==
    /\ retired' = retired /\ slots \subseteq slots'
    /\ \A d \in Calls : pc[d] # "idle" => mail'[d] = mail[d] /\ (d \in slots' => d \in slots)

\* One call loses its slot, and the memory records why.
Retires(c, why) ==
    /\ c \in slots /\ slots' = slots \ {c}
    /\ retired' = Record(retired, c, why)
    /\ \A d \in Calls \ {c} : mail'[d] = mail[d]
    /\ why = "Resolved" <=> mail'[c] = "reply"

\* What a step does to the slots and their memory, and that no call is made twice.
SlotStep ==
    /\ \A d \in Calls : pc[d] # "idle" => pc'[d] # "idle"
    /\ \/ MemoryStays
       \/ \E c \in Calls : \E why \in {"Resolved", "Abandoned"} : Retires(c, why)
       \/ AbandonEverySlot

\* A call that ends is recorded as abandoned if nothing had taken its slot.
LEMMA FinishSteps ==
    ASSUME RequestInv, NEW c \in Calls, NEW r, Finish(c, r)
    PROVE  SlotStep
<1>1. /\ pc' = [pc EXCEPT ![c] = "done"] /\ mail' = mail /\ slots' = slots \ {c}
      /\ retired' = IF c \in slots THEN Record(retired, c, "Abandoned") ELSE retired
  BY Zenon DEF Finish, DropPending
<1>2. \A d \in Calls : pc[d] # "idle" => pc'[d] # "idle"
  BY <1>1, Zenon DEF RequestInv, TypeOK
<1>3. CASE c \in slots
  <2>1. mail'[c] = "open"
    BY <1>1, <1>3, ZenonT(60) DEF RequestInv, SlotsMatchCalls
  <2>2. Retires(c, "Abandoned")
    BY <1>1, <1>3, <2>1, ZenonT(60) DEF Retires
  <2> QED
    BY <1>2, <2>2, Zenon DEF SlotStep
<1>4. CASE c \notin slots
  <2>1. MemoryStays
    BY <1>1, <1>4, ZenonT(60) DEF MemoryStays
  <2> QED
    BY <1>2, <2>1, Zenon DEF SlotStep
<1> QED
  BY <1>3, <1>4, Zenon

\* Every step of the system is one of the three.
LEMMA EveryStep ==
    ASSUME RequestInv, [Next]_vars
    PROVE  SlotStep
<1>1. ASSUME UNCHANGED <<pc, slots, mail, retired>> PROVE SlotStep
  BY <1>1, Zenon DEF SlotStep, MemoryStays
<1>2. ASSUME UNCHANGED <<slots, mail, retired>>, NEW c \in Calls, NEW to \in Active,
             pc' = [pc EXCEPT ![c] = to]
      PROVE  SlotStep
  <2>1. \A d \in Calls : pc[d] # "idle" => pc'[d] # "idle"
    BY <1>2, Zenon DEF RequestInv, TypeOK, Active
  <2> QED
    BY <1>2, <2>1, Zenon DEF SlotStep, MemoryStays
<1>3. ASSUME AbandonEverySlot, pc' = pc PROVE SlotStep
  BY <1>3, Zenon DEF SlotStep
<1>4. CASE UNCHANGED vars
  BY <1>1, <1>4, Zenon DEF vars, callVars, registryVars
<1>5. ASSUME NEW c \in Calls, CallNext(c) PROVE SlotStep
  <2>1. CASE Register(c)
    <3>1. /\ pc[c] = "idle" /\ retired' = retired /\ slots' \in {slots, slots \cup {c}}
          /\ mail' \in {mail, [mail EXCEPT ![c] = "open"]}
          /\ pc' \in {[pc EXCEPT ![c] = "done"], [pc EXCEPT ![c] = "registered"]}
      BY <2>1, Zenon DEF Register
    <3>2. \A d \in Calls : pc[d] # "idle" => pc'[d] # "idle"
      BY <3>1, Zenon DEF RequestInv, TypeOK
    <3>3. \A d \in Calls : pc[d] # "idle" => mail'[d] = mail[d] /\ (d \in slots' => d \in slots)
      BY <3>1, ZenonT(60) DEF RequestInv, TypeOK
    <3>4. MemoryStays
      BY <3>1, <3>3, Zenon DEF MemoryStays
    <3> QED
      BY <3>2, <3>4, ZenonT(60) DEF SlotStep
  <2>2. CASE ReadInbox(c) /\ inbox # 0
    BY <1>2, <2>2, ZenonT(60) DEF ReadInbox, Active, registryVars
  <2>3. CASE Admit(c) /\ ~closing
    BY <1>2, <2>3, Zenon DEF Admit, Active, registryVars
  <2>4. CASE Published(c)
    BY <1>2, <2>4, Zenon DEF Published, Active, registryVars
  <2>5. CASE BrokerAccepts(c) \/ Respond(c)
    BY <1>1, <2>5, Zenon DEF BrokerAccepts, Respond, callVars, registryVars
  <2>6. CASE \/ ReadInbox(c) /\ inbox = 0
             \/ Admit(c) /\ closing
             \/ EncodeFails(c) \/ PublishFails(c) \/ TimesOut(c) \/ Receive(c)
             \/ ChannelClosed(c) \/ Cancelled(c)
    <3>1. \E r : Finish(c, r)
      BY <2>6, Zenon
      DEF ReadInbox, Admit, EncodeFails, PublishFails, TimesOut, Receive, ChannelClosed, Cancelled
    <3> QED
      BY <3>1, FinishSteps, ZenonT(60)
  <2> QED
    BY <1>5, <2>1, <2>2, <2>3, <2>4, <2>5, <2>6, ZenonT(60) DEF CallNext
<1>6. CASE Deliver
  <2>1. PICK m \in wire : Resolve(m[1], m[2])
    BY <1>6, Zenon DEF Deliver
  <2>2. m[1] \in Calls
    BY Zenon DEF RequestInv, TypeOK
  <2>3. pc' = pc
    BY <1>6, Zenon DEF Deliver, callVars
  <2>4. CASE m[1] \in slots /\ m[2]
    <3>1. /\ slots' = slots \ {m[1]} /\ retired' = Record(retired, m[1], "Resolved")
          /\ mail' = [mail EXCEPT ![m[1]] = "reply"]
      BY <2>1, <2>4, ZenonT(60) DEF Resolve
    <3>2. mail'[m[1]] = "reply" /\ \A d \in Calls \ {m[1]} : mail'[d] = mail[d]
      BY <2>2, <3>1, ZenonT(60) DEF RequestInv, TypeOK
    <3>3. Retires(m[1], "Resolved")
      BY <2>4, <3>1, <3>2, ZenonT(60) DEF Retires
    <3> QED
      BY <2>2, <2>3, <3>3, ZenonT(60) DEF SlotStep
  <2>5. CASE ~(m[1] \in slots /\ m[2])
    BY <1>1, <2>1, <2>3, <2>5, ZenonT(60) DEF Resolve
  <2> QED
    BY <2>4, <2>5, Zenon
<1>7. CASE Drain
  BY <1>3, <1>7, ZenonT(60) DEF Drain, callVars
<1>8. ASSUME NEW k \in Closers, CloseRegistry(k) PROVE SlotStep
  BY <1>3, <1>8, ZenonT(60) DEF CloseRegistry, callVars
<1>9. CASE \/ ConnectionLost \/ RunEnds \/ MarkReconnecting
           \/ Reconnected \/ ReconnectCancelled \/ CancelToken
  BY <1>1, <1>9, ZenonT(60)
  DEF ConnectionLost, RunEnds, MarkReconnecting, Reconnected, ReconnectCancelled, CancelToken,
      callVars, registryVars
<1>10. ASSUME NEW k \in Closers, BeginClose(k) \/ Drained(k) \/ CloseReturns(k) PROVE SlotStep
  BY <1>1, <1>10, ZenonT(60) DEF BeginClose, Drained, CloseReturns, callVars, registryVars
<1> QED
  BY <1>4, <1>5, <1>6, <1>7, <1>8, <1>9, <1>10, ZenonT(60) DEF Next, InboxNext, CloseNext

\* A slot that leaves is the newest entry of the memory.
LEMMA RetiresRemembers ==
    ASSUME RequestInv, RetiredInv, NEW c \in Calls, NEW why \in {"Resolved", "Abandoned"},
           Retires(c, why)
    PROVE  Remembers(retired', retired, c, why)
<1>1. retired \in Memories /\ Len(retired) <= MaxInFlight
  BY Zenon DEF RetiredInv, RetirementIsTruthful, Memories
<1>2. MaxInFlight # 0
  <2>1. IsFiniteSet(slots) /\ Cardinality(slots) \in Nat
    BY SlotsAreFinite, Zenon DEF RequestInv
  <2>2. Cardinality(slots) # 0
    BY <2>1, FS_EmptySet, ZenonT(60) DEF Retires
  <2>3. Cardinality(slots) <= MaxInFlight
    BY Zenon DEF RequestInv, TypeOK
  <2> QED
    BY <2>1, <2>2, <2>3
<1>3. \A e \in DOMAIN retired : retired[e].id # c
  BY Zenon DEF RetiredInv, Retires
<1>4. retired' = Record(retired, c, why)
  BY Zenon DEF Retires
<1> QED
  BY <1>1, <1>2, <1>3, <1>4, RecordFresh, ZenonT(60)

\* A new entry of the memory that is true, and old ones whose calls stay as they were,
\* keep the memory truthful.
LEMMA RetiredMoves ==
    ASSUME RequestInv, RetiredInv, SlotStep
    PROVE  RetiredInv'
<1>1. \A d \in Calls : pc[d] # "idle" => pc'[d] # "idle"
  BY Zenon DEF SlotStep
<1>2. /\ retired \in Memories
      /\ \A e \in DOMAIN retired :
            /\ retired[e].id \in Calls
            /\ retired[e].id \notin slots /\ pc[retired[e].id] # "idle"
            /\ retired[e].why = "Resolved" <=> mail[retired[e].id] = "reply"
  <2>1. retired \in Memories
    BY Zenon DEF RetiredInv, Memories
  <2>2. \A e \in DOMAIN retired : retired[e].id \in Calls
    <3> DEFINE E == [id : Calls, why : {"Resolved", "Abandoned"}]
    <3>1. \A x \in E : x.id \in Calls
      BY Zenon
    <3>2. retired \in Seq(E)
      BY <2>1, ZenonT(60) DEF Memories
    <3> HIDE DEF E
    <3>3. \A e \in DOMAIN retired : retired[e] \in E
      BY <3>2
    <3> QED
      BY <3>1, <3>3, ZenonT(60)
  <2> QED
    BY <2>1, <2>2, ZenonT(60) DEF RetiredInv, RetirementIsTruthful
<1>3. CASE MemoryStays
  <2>1. retired' = retired
    BY <1>3, Zenon DEF MemoryStays
  <2>2. \A e \in DOMAIN retired :
            /\ retired[e].id \notin slots' /\ mail'[retired[e].id] = mail[retired[e].id]
            /\ pc'[retired[e].id] # "idle"
    BY <1>1, <1>2, <1>3, ZenonT(60) DEF MemoryStays
  <2> QED
    BY <1>2, <2>1, <2>2, ZenonT(60) DEF RetiredInv, RetirementIsTruthful
<1>4. ASSUME NEW c \in Calls, NEW why \in {"Resolved", "Abandoned"}, Retires(c, why)
      PROVE  RetiredInv'
  <2>1. Remembers(retired', retired, c, why)
    BY <1>4, RetiresRemembers, ZenonT(60)
  <2>2. retired' \in Memories /\ Len(retired') \in 1..MaxInFlight
    BY <2>1, ZenonT(60) DEF Remembers
  <2>3. DOMAIN retired' = 1..Len(retired') /\ Len(retired') <= MaxInFlight
    BY <2>2, RequestConstants DEF Memories
  <2>4. pc'[c] # "idle"
    BY <1>1, <1>4, ZenonT(60) DEF RequestInv, SlotsMatchCalls, Active, Retires
  <2>5. ASSUME NEW e \in DOMAIN retired'
        PROVE  /\ retired'[e].id \notin slots' /\ pc'[retired'[e].id] # "idle"
               /\ retired'[e].why = "Resolved" <=> mail'[retired'[e].id] = "reply"
    <3>1. CASE e = Len(retired')
      <4>1. retired'[e].id = c /\ retired'[e].why = why
        BY <2>1, <3>1 DEF Remembers
      <4> QED
        BY <1>4, <2>4, <4>1, ZenonT(60) DEF Retires
    <3>2. CASE e # Len(retired')
      <4>1. e \in 1..(Len(retired') - 1)
        BY <2>2, <2>3, <3>2
      <4>2. PICK f \in DOMAIN retired : retired'[e] = retired[f]
        BY <2>1, <4>1, ZenonT(60) DEF Remembers
      <4>3. retired[f].id \in Calls \ {c}
        BY <1>2, <1>4, ZenonT(60) DEF Retires
      <4>4. mail'[retired[f].id] = mail[retired[f].id] /\ retired[f].id \notin slots'
        BY <1>2, <1>4, <4>3, ZenonT(60) DEF Retires
      <4> QED
        BY <1>1, <1>2, <4>2, <4>3, <4>4, ZenonT(60)
    <3> QED
      BY <3>1, <3>2, Zenon
  <2> QED
    BY <2>2, <2>3, <2>5, ZenonT(60) DEF RetiredInv, RetirementIsTruthful, Memories
<1>5. CASE AbandonEverySlot
  <2>1. /\ retired' \in Memories /\ Len(retired') <= MaxInFlight
        /\ \A e \in DOMAIN retired' :
              \/ \E f \in DOMAIN retired : retired'[e] = retired[f]
              \/ retired'[e].id \in slots /\ retired'[e].why = "Abandoned"
    BY <1>5, AbandonRemembers, ZenonT(60)
  <2>2. slots' = {} /\ mail' = [c \in Calls |-> IF c \in slots THEN "dropped" ELSE mail[c]]
    BY <1>5, Zenon DEF AbandonEverySlot
  <2>3. slots \subseteq Calls /\ \A c \in slots : pc'[c] # "idle"
    BY <1>1, Zenon DEF RequestInv, TypeOK, SlotsMatchCalls, Active
  <2>4. ASSUME NEW e \in DOMAIN retired'
        PROVE  /\ retired'[e].id \notin slots' /\ pc'[retired'[e].id] # "idle"
               /\ retired'[e].why = "Resolved" <=> mail'[retired'[e].id] = "reply"
    <3>1. CASE \E f \in DOMAIN retired : retired'[e] = retired[f]
      <4>1. PICK f \in DOMAIN retired : retired'[e] = retired[f]
        BY <3>1, Zenon
      <4>2. mail'[retired[f].id] = mail[retired[f].id]
        BY <1>2, <2>2, ZenonT(60)
      <4> QED
        BY <1>1, <1>2, <2>2, <4>1, <4>2, ZenonT(60)
    <3>2. CASE retired'[e].id \in slots /\ retired'[e].why = "Abandoned"
      <4>1. mail'[retired'[e].id] = "dropped"
        BY <2>2, <2>3, <3>2, ZenonT(60)
      <4> QED
        BY <2>2, <2>3, <3>2, <4>1, ZenonT(60)
    <3> QED
      BY <2>1, <3>1, <3>2, ZenonT(60)
  <2> QED
    BY <2>1, <2>4, ZenonT(60) DEF RetiredInv, RetirementIsTruthful, Memories
<1> QED
  BY <1>3, <1>4, <1>5, ZenonT(60) DEF SlotStep

-----------------------------------------------------------------------------
(* The theorems on the memory.                                             *)

\* The memory of retired slots is typed, bounded and true, and speaks only of calls that
\* were made and hold no slot, in every interleaving of replies, drops, drains and closes.
THEOREM RetiredInvariant == Spec => []RetiredInv
<1>1. Init => RetiredInv
  <2> SUFFICES ASSUME Init PROVE RetiredInv
    BY Zenon
  <2>1. retired = <<>>
    BY Zenon DEF Init
  <2>2. retired \in Memories /\ Len(retired) <= MaxInFlight /\ \A e \in DOMAIN retired : FALSE
    BY <2>1, RequestConstants DEF Memories
  <2> QED
    BY <2>2, Zenon DEF RetiredInv, RetirementIsTruthful, Memories
<1>2. RequestInv /\ RetiredInv /\ [Next]_vars => RetiredInv'
  BY EveryStep, RetiredMoves, ZenonT(60)
<1> QED
  BY <1>1, <1>2, RequestInvariant, PTL DEF Spec

\* A second reply is never taken for a late one, nor a late one for a duplicate.
THEOREM MemoryIsTruthful == Spec => []RetirementIsTruthful
<1>1. RetiredInv => RetirementIsTruthful
  BY Zenon DEF RetiredInv
<1> QED
  BY <1>1, RetiredInvariant, PTL

\* However many slots leave at once, none leaves the memory before the registry is empty.
THEOREM DrainsAreRemembered == Spec => DrainIsRemembered
<1> DEFINE Kept == slots' = {} => \A c \in slots : \E i \in DOMAIN retired' : retired'[i].id = c
<1>1. RequestInv /\ RetiredInv /\ [Next]_vars => [Kept]_vars
  <2> SUFFICES ASSUME RequestInv, RetiredInv, SlotStep, slots' = {}, NEW c \in slots
               PROVE  \E i \in DOMAIN retired' : retired'[i].id = c
    BY EveryStep, Zenon
  <2>1. ~MemoryStays
    BY Zenon DEF MemoryStays
  <2>2. CASE AbandonEverySlot
    BY <2>2, AbandonRemembers, Zenon
  <2>3. ASSUME NEW d \in Calls, NEW why \in {"Resolved", "Abandoned"}, Retires(d, why)
        PROVE  \E i \in DOMAIN retired' : retired'[i].id = c
    <3>1. c = d
      BY <2>3, Zenon DEF Retires
    <3>2. Remembers(retired', retired, d, why)
      BY <2>3, RetiresRemembers, ZenonT(60)
    <3>3. Len(retired') \in DOMAIN retired' /\ retired'[Len(retired')].id = d
      BY <3>2, RequestConstants DEF Remembers, Memories
    <3> QED
      BY <3>1, <3>3, ZenonT(60)
  <2> QED
    BY <2>1, <2>2, <2>3, ZenonT(60) DEF SlotStep
<1> QED
  BY <1>1, RequestInvariant, RetiredInvariant, PTL DEF Spec, DrainIsRemembered
=============================================================================
