--------------------------- MODULE TransportProofs ---------------------------
(***************************************************************************)
(* TransportInv is an invariant of Transport for any publishers, pool size *)
(* and faults: the pool never exceeds its cap, and Ok tells the truth.     *)
(***************************************************************************)
EXTENDS Transport, FiniteSetTheorems, TLAPS

-----------------------------------------------------------------------------
(* Counting the publishers that own a channel.                             *)

\* Sets of publishers are finite and have a size.
LEMMA PublishersAreFinite ==
    ASSUME NEW S, S \subseteq Publishers
    PROVE  IsFiniteSet(S) /\ Cardinality(S) \in Nat
<1>1. IsFiniteSet(Publishers)
  BY TransportConstants, Zenon
<1>2. IsFiniteSet(S)
  BY <1>1, FS_Subset, Zenon
<1> QED
  BY <1>2, FS_CardinalityType, Zenon

\* One publisher joins.
LEMMA OneMore ==
    ASSUME NEW S, S \subseteq Publishers, NEW p \in Publishers, p \notin S
    PROVE  Cardinality(S \cup {p}) = Cardinality(S) + 1
BY PublishersAreFinite, FS_AddElement, Zenon

\* One publisher leaves.
LEMMA OneLess ==
    ASSUME NEW S, S \subseteq Publishers, NEW p \in S
    PROVE  Cardinality(S \ {p}) = Cardinality(S) - 1
<1>1. IsFiniteSet(S)
  BY PublishersAreFinite, Zenon
<1> QED
  BY <1>1, FS_RemoveElement, Zenon

\* A subset is no larger.
LEMMA NoMore ==
    ASSUME NEW S, NEW R, S \subseteq Publishers, R \subseteq S
    PROVE  Cardinality(R) <= Cardinality(S)
<1>1. IsFiniteSet(S)
  BY PublishersAreFinite, Zenon
<1> QED
  BY <1>1, FS_Subset, Zenon

-----------------------------------------------------------------------------
(* Steps.                                                                  *)

\* The constants of the places a publisher can be in.
LEMMA PlaceFacts ==
    /\ Owning = {"publishing", "returning", "opening"}
    /\ Holding = {"publishing", "returning", "opening", "looking", "releasing"}
    /\ Places = {"publishing", "returning", "opening", "looking", "releasing",
                 "idle", "parked", "awaiting", "recovering", "done"}
BY Zenon DEF Owning, Holding, Places, Attached

\* A step of p that leaves the cache and the permits alone and neither makes
\* it an owner nor a holder, nor ends its hold, keeps the pool.
LEMMA PoolUntouched ==
    ASSUME TypeOK, PoolInv, NEW p \in Publishers, NEW place \in Places,
           pc' = [pc EXCEPT ![p] = place], idle' = idle, permits' = permits,
           place \in Owning => pc[p] \in Owning,
           place \in Holding <=> pc[p] \in Holding,
           place \in Attached => chan'[p] # 0,
           \A q \in Publishers \ {p} : chan'[q] = chan[q]
    PROVE  PoolInv'
<1>1. Owners' \subseteq Owners /\ Owners \subseteq Publishers
  BY Zenon DEF Owners, TypeOK
<1>2. Cardinality(Owners') <= Cardinality(Owners)
  BY <1>1, NoMore, Zenon
<1>3. Cardinality(Owners) \in Nat /\ Cardinality(Owners') \in Nat
  <2>1. Owners' \subseteq Publishers
    BY <1>1, Zenon
  <2> QED
    BY <1>1, <2>1, PublishersAreFinite, Zenon
<1>4. Len(idle) \in Nat
  BY DEF TypeOK
<1>5. LiveWithinCap'
  BY <1>2, <1>3, <1>4, TransportConstants DEF LiveWithinCap, PoolInv
<1>6. permits' = {q \in Publishers : pc'[q] \in Holding}
  BY Zenon DEF PoolInv, TypeOK
<1>7. \A q \in Publishers : pc'[q] \in Attached => chan'[q] # 0
  BY Zenon DEF PoolInv, TypeOK
<1> QED
  BY <1>5, <1>6, <1>7, Zenon DEF PoolInv

\* A step that leaves every publisher, the cache and the permits alone.
LEMMA PoolStutters ==
    ASSUME PoolInv, pc' = pc, idle' = idle, permits' = permits, chan' = chan
    PROVE  PoolInv'
<1>1. Owners' = Owners
  BY Zenon DEF Owners
<1> QED
  BY <1>1, Zenon DEF PoolInv, LiveWithinCap

\* acquire takes a permit only below the cap.
LEMMA TakePermitKeepsPool ==
    ASSUME TypeOK, PoolInv, NEW p \in Publishers, TakePermit(p)
    PROVE  PoolInv'
<1>1. /\ pc[p] = "parked" /\ pc' = [pc EXCEPT ![p] = "looking"]
      /\ permits' = permits \cup {p} /\ idle' = idle /\ chan' = chan
      /\ Cardinality(permits) < MaxSize
  BY Zenon DEF TakePermit
<1>2. permits' = {q \in Publishers : pc'[q] \in Holding}
  BY <1>1, PlaceFacts, Zenon DEF PoolInv, TypeOK
<1>3. Cardinality(permits') <= MaxSize
  <2>1. p \notin permits /\ permits \subseteq Publishers
    BY <1>1, PlaceFacts, Zenon DEF PoolInv, TypeOK
  <2>2. Cardinality(permits \cup {p}) = Cardinality(permits) + 1
    BY <2>1, OneMore, Zenon
  <2>3. Cardinality(permits) \in Nat
    BY <2>1, PublishersAreFinite, Zenon
  <2> QED
    BY <1>1, <2>2, <2>3, TransportConstants
<1>4. \A q \in Publishers : pc'[q] \in Attached => chan'[q] # 0
  BY <1>1, Zenon DEF PoolInv, TypeOK, Attached
<1>5. Owners' = Owners
  BY <1>1, PlaceFacts, Zenon DEF Owners, TypeOK
<1> QED
  BY <1>1, <1>2, <1>3, <1>4, <1>5, Zenon DEF PoolInv, LiveWithinCap

\* A channel leaves the cache for the publisher that pops it; one is opened
\* only when the cache is empty, and then the owners are holders of permits.
LEMMA PopIdleKeepsPool ==
    ASSUME TypeOK, PoolInv, NEW p \in Publishers, PopIdle(p)
    PROVE  PoolInv'
<1>1. pc[p] = "looking" /\ permits' = permits
  BY Zenon DEF PopIdle
<1>2. PICK place \in {"publishing", "opening"} : pc' = [pc EXCEPT ![p] = place]
  BY Zenon DEF PopIdle
<1>3. permits' = {q \in Publishers : pc'[q] \in Holding}
  BY <1>1, <1>2, PlaceFacts, Zenon DEF PoolInv, TypeOK
<1>4. Owners' = Owners \cup {p} /\ p \notin Owners /\ Owners \subseteq Publishers
  BY <1>1, <1>2, PlaceFacts, Zenon DEF Owners, TypeOK
<1>5. Cardinality(Owners') = Cardinality(Owners) + 1 /\ Cardinality(Owners) \in Nat
  BY <1>4, OneMore, PublishersAreFinite, Zenon
<1>6. Owners' \subseteq permits /\ permits \subseteq Publishers
  BY <1>1, <1>2, PlaceFacts, Zenon DEF Owners, PoolInv, TypeOK
<1>7. CASE \E i \in DOMAIN idle :
              /\ idle' = SubSeq(idle, i + 1, Len(idle))
              /\ chan' = [chan EXCEPT ![p] = idle[i]]
  <2>1. PICK i \in DOMAIN idle : /\ idle' = SubSeq(idle, i + 1, Len(idle))
                                 /\ chan' = [chan EXCEPT ![p] = idle[i]]
    BY <1>7, Zenon
  <2>2. i \in 1..Len(idle) /\ Len(idle) \in Nat /\ idle[i] \in Channels
    BY <2>1 DEF TypeOK
  <2>3. Len(idle') = Len(idle) - i
    BY <2>1, <2>2 DEF TypeOK
  <2>4. LiveWithinCap'
    BY <2>2, <2>3, <1>5, TransportConstants DEF LiveWithinCap, PoolInv
  <2>5. \A q \in Publishers : pc'[q] \in Attached => chan'[q] # 0
    BY <2>1, <2>2, <1>2 DEF PoolInv, TypeOK, Channels
  <2> QED
    BY <1>1, <1>3, <2>4, <2>5, Zenon DEF PoolInv
<1>8. CASE idle' = <<>> /\ chan' = chan /\ pc' = [pc EXCEPT ![p] = "opening"]
  <2>1. Cardinality(Owners') <= Cardinality(permits)
    BY <1>6, NoMore, Zenon
  <2>2. Cardinality(permits) \in Nat
    BY <1>6, PublishersAreFinite, Zenon
  <2>3. Len(idle') = 0
    BY <1>8, Zenon
  <2>4. LiveWithinCap'
    BY <2>1, <2>2, <2>3, <1>5, TransportConstants DEF LiveWithinCap, PoolInv
  <2>5. \A q \in Publishers : pc'[q] \in Attached => chan'[q] # 0
    BY <1>8, Zenon DEF PoolInv, TypeOK, Attached
  <2> QED
    BY <1>1, <1>3, <2>4, <2>5, Zenon DEF PoolInv
<1> QED
  BY <1>7, <1>8, Zenon DEF PopIdle

\* The channel that goes back was owned until then.
LEMMA ReturnChannelKeepsPool ==
    ASSUME TypeOK, PoolInv, NEW p \in Publishers, ReturnChannel(p)
    PROVE  PoolInv'
<1>1. /\ pc[p] = "returning" /\ pc' = [pc EXCEPT ![p] = "releasing"]
      /\ permits' = permits /\ chan' = chan
  BY Zenon DEF ReturnChannel
<1>2. permits' = {q \in Publishers : pc'[q] \in Holding}
  BY <1>1, PlaceFacts, Zenon DEF PoolInv, TypeOK
<1>3. Owners' = Owners \ {p} /\ p \in Owners /\ Owners \subseteq Publishers
  BY <1>1, PlaceFacts, Zenon DEF Owners, TypeOK
<1>4. Cardinality(Owners') = Cardinality(Owners) - 1
  BY <1>3, OneLess, Zenon
<1>5. Cardinality(Owners) \in Nat
  BY <1>3, PublishersAreFinite, Zenon
<1>6. Len(idle) \in Nat /\ Len(idle') \in {Len(idle), Len(idle) + 1}
  BY <1>1 DEF ReturnChannel, TypeOK, PoolInv, Attached
<1>7. LiveWithinCap'
  BY <1>4, <1>5, <1>6, TransportConstants DEF LiveWithinCap, PoolInv
<1>8. \A q \in Publishers : pc'[q] \in Attached => chan'[q] # 0
  BY <1>1, Zenon DEF PoolInv, TypeOK, Attached
<1> QED
  BY <1>1, <1>2, <1>7, <1>8, Zenon DEF PoolInv

\* A permit is released by a publisher that owns nothing any more.
LEMMA ReleasePermitKeepsPool ==
    ASSUME TypeOK, PoolInv, NEW p \in Publishers, ReleasePermit(p)
    PROVE  PoolInv'
<1>1. /\ pc[p] = "releasing" /\ pc' = [pc EXCEPT ![p] = after[p]]
      /\ permits' = permits \ {p} /\ idle' = idle /\ chan' = chan
      /\ after[p] \in {"awaiting", "recovering", "done"}
  BY Zenon DEF ReleasePermit, TypeOK
<1>2. permits' = {q \in Publishers : pc'[q] \in Holding}
  BY <1>1, PlaceFacts, Zenon DEF PoolInv, TypeOK
<1>3. permits \subseteq Publishers /\ p \in permits
  BY <1>1, PlaceFacts, Zenon DEF TypeOK, PoolInv
<1>4. Cardinality(permits') = Cardinality(permits) - 1
  BY <1>1, <1>3, OneLess, Zenon
<1>5. Cardinality(permits) \in Nat
  BY <1>3, PublishersAreFinite, Zenon
<1>6. Cardinality(permits') <= MaxSize
  BY <1>4, <1>5, TransportConstants DEF PoolInv
<1>7. Owners' = Owners
  BY <1>1, PlaceFacts, Zenon DEF Owners, TypeOK
<1>8. \A q \in Publishers : pc'[q] \in Attached => chan'[q] # 0
  BY <1>1, Zenon DEF PoolInv, TypeOK, Attached
<1> QED
  BY <1>1, <1>2, <1>6, <1>7, <1>8, Zenon DEF PoolInv, LiveWithinCap

\* The types.  A channel that is handed back or opened is one of Channels.
LEMMA TypeStep ==
    ASSUME TypeOK, PoolInv, Next
    PROVE  TypeOK'
<1> USE TransportConstants, PlaceFacts
<1>1. ASSUME Construct PROVE TypeOK'
  BY <1>1 DEF Construct, ConnectSucceeds, ConnectFails, BoundExpires, DeclareReturns,
              Dialing, TypeOK, poolVars, callVars
<1>2. ASSUME Environment PROVE TypeOK'
  <2>1. CASE ConnectionDrops
    BY <2>1 DEF ConnectionDrops, LoseFrames, Fault, TypeOK, poolVars
  <2>2. CASE ConnectionRecovers
    BY <2>2, Zenon DEF ConnectionRecovers, TypeOK, poolVars, callVars
  <2>3. ASSUME NEW ch \in InUse \ {0}, ChannelCloses(ch) PROVE TypeOK'
    <3>1. ch \in Channels
      BY <2>3 DEF InUse, TypeOK
    <3> QED
      BY <2>3, <3>1 DEF ChannelCloses, LoseFrames, Fault, TypeOK, poolVars
  <2>4. ASSUME NEW p \in Publishers, BrokerStores(p) PROVE TypeOK'
    <3>1. stored' \in [Publishers -> Nat]
      BY <2>4 DEF BrokerStores, TypeOK
    <3> QED
      BY <2>4, <3>1, Zenon DEF BrokerStores, TypeOK, poolVars, connVars
  <2>5. ASSUME NEW p \in Publishers, BrokerRefuses(p) PROVE TypeOK'
    BY <2>5, Zenon DEF BrokerRefuses, TypeOK, poolVars, connVars
  <2> QED
    BY <1>2, <2>1, <2>2, <2>3, <2>4, <2>5, Zenon DEF Environment
<1>3. ASSUME NEW p \in Publishers, Begin(p) \/ GiveUp(p) PROVE TypeOK'
  <2>1. CASE Begin(p)
    BY <2>1, Zenon DEF Begin, TypeOK, poolVars, connVars
  <2>2. CASE GiveUp(p)
    BY <2>2, Zenon DEF GiveUp, TypeOK, poolVars, connVars
  <2> QED
    BY <1>3, <2>1, <2>2, Zenon
<1>4. ASSUME NEW p \in Publishers, Acquire(p) PROVE TypeOK'
  <2>1. CASE TakePermit(p)
    BY <2>1, Zenon DEF TakePermit, TypeOK, connVars
  <2>2. CASE PopIdle(p)
    <3>1. PICK place \in {"publishing", "opening"} : pc' = [pc EXCEPT ![p] = place]
      BY <2>2, Zenon DEF PopIdle
    <3>2. pc' \in [Publishers -> Places]
      BY <3>1, Zenon DEF TypeOK
    <3>3. CASE idle' = <<>> /\ chan' = chan
      <4>1. idle' \in Seq(Channels)
        BY <3>3
      <4> QED
        BY <2>2, <3>3, <3>2, <4>1, Zenon DEF PopIdle, TypeOK, connVars
    <3>4. ASSUME NEW i \in DOMAIN idle, idle' = SubSeq(idle, i + 1, Len(idle)),
                 chan' = [chan EXCEPT ![p] = idle[i]]
          PROVE  TypeOK'
      <4>1. idle \in Seq(Channels) /\ i \in 1..Len(idle) /\ Len(idle) \in Nat
        BY DEF TypeOK
      <4>2. idle[i] \in Channels
        BY <4>1
      <4>3. idle' \in Seq(Channels)
        BY <3>4, <4>1
      <4>4. chan' \in [Publishers -> Channels \cup {0}]
        BY <3>4, <4>2, Zenon DEF TypeOK
      <4> QED
        BY <2>2, <4>3, <4>4, <3>2, Zenon DEF PopIdle, TypeOK, connVars
    <3> QED
      BY <2>2, <3>3, <3>4, Zenon DEF PopIdle
  <2>3. CASE OpenChannel(p)
    BY <2>3 DEF OpenChannel, TypeOK, poolVars
  <2>4. CASE OpenFails(p)
    BY <2>4 DEF OpenFails, Fault, TypeOK, poolVars, connVars
  <2> QED
    BY <1>4, <2>1, <2>2, <2>3, <2>4, Zenon DEF Acquire
<1>5. ASSUME NEW p \in Publishers, Attempt(p) PROVE TypeOK'
  <2>1. CASE BasicPublish(p)
    BY <2>1, ZenonT(60) DEF BasicPublish, AfterFailure, Failed, TypeOK, poolVars, connVars
  <2>2. CASE ReturnChannel(p)
    <3>1. chan[p] \in Channels
      BY <2>2, Zenon DEF ReturnChannel, PoolInv, Attached, TypeOK
    <3> QED
      BY <2>2, <3>1 DEF ReturnChannel, TypeOK, connVars
  <2>3. CASE ReleasePermit(p)
    BY <2>3, Zenon DEF ReleasePermit, TypeOK, connVars
  <2>4. CASE ConfirmArrives(p)
    BY <2>4, ZenonT(60) DEF ConfirmArrives, AfterFailure, Failed, TypeOK, poolVars, connVars
  <2>5. CASE Recover(p)
    BY <2>5, Zenon DEF Recover, TypeOK, poolVars, connVars
  <2> QED
    BY <1>5, <2>1, <2>2, <2>3, <2>4, <2>5, Zenon DEF Attempt
<1> QED
  BY <1>1, <1>2, <1>3, <1>4, <1>5, Zenon DEF Next

\* The pool.  Only four steps touch the cache or the permits.
LEMMA PoolStep ==
    ASSUME TypeOK, PoolInv, Next
    PROVE  PoolInv'
<1>1. CASE Construct \/ Environment
  BY <1>1, PoolStutters, Zenon
     DEF Construct, ConnectSucceeds, ConnectFails, BoundExpires, DeclareReturns, Environment,
         ConnectionDrops, ConnectionRecovers, ChannelCloses, BrokerStores, BrokerRefuses,
         poolVars, callVars
<1>2. ASSUME NEW p \in Publishers, Begin(p) \/ GiveUp(p) PROVE PoolInv'
  <2>1. PICK place \in Places : pc' = [pc EXCEPT ![p] = place]
    BY <1>2, PlaceFacts, Zenon DEF Begin, GiveUp
  <2>2. /\ place \in Owning => pc[p] \in Owning
        /\ place \in Holding <=> pc[p] \in Holding
        /\ place \in Attached => chan[p] # 0
    BY <1>2, <2>1, PlaceFacts DEF Begin, GiveUp, TypeOK, PoolInv, Attached
  <2>3. idle' = idle /\ permits' = permits /\ chan' = chan
    BY <1>2, Zenon DEF Begin, GiveUp, poolVars
  <2> QED
    BY <2>1, <2>2, <2>3, PoolUntouched, Zenon
<1>3. ASSUME NEW p \in Publishers, OpenChannel(p) \/ OpenFails(p) PROVE PoolInv'
  <2>1. PICK place \in Places : pc' = [pc EXCEPT ![p] = place]
    BY <1>3, PlaceFacts, Zenon DEF OpenChannel, OpenFails
  <2>2. /\ place \in Owning => pc[p] \in Owning
        /\ place \in Holding <=> pc[p] \in Holding
        /\ place \in Attached => chan'[p] # 0
    BY <1>3, <2>1, PlaceFacts DEF OpenChannel, OpenFails, TypeOK, Attached, Channels
  <2>3. idle' = idle /\ permits' = permits
    BY <1>3, Zenon DEF OpenChannel, OpenFails, poolVars
  <2>4. \A q \in Publishers \ {p} : chan'[q] = chan[q]
    BY <1>3, Zenon DEF OpenChannel, OpenFails, TypeOK
  <2> QED
    BY <2>1, <2>2, <2>3, <2>4, PoolUntouched, Zenon
<1>4. ASSUME NEW p \in Publishers, BasicPublish(p) \/ ConfirmArrives(p) \/ Recover(p)
      PROVE  PoolInv'
  <2>1. PICK place \in Places : pc' = [pc EXCEPT ![p] = place]
    BY <1>4, PlaceFacts, Zenon DEF BasicPublish, ConfirmArrives, Recover, AfterFailure
  <2>2. /\ place \in Owning => pc[p] \in Owning
        /\ place \in Holding <=> pc[p] \in Holding
        /\ place \in Attached => chan'[p] # 0
    BY <1>4, <2>1, PlaceFacts
       DEF BasicPublish, ConfirmArrives, Recover, AfterFailure, TypeOK, PoolInv, Attached
  <2>3. idle' = idle /\ permits' = permits
    BY <1>4, Zenon DEF BasicPublish, ConfirmArrives, Recover, poolVars
  <2>4. \A q \in Publishers \ {p} : chan'[q] = chan[q]
    BY <1>4, Zenon DEF BasicPublish, ConfirmArrives, Recover, TypeOK
  <2> QED
    BY <2>1, <2>2, <2>3, <2>4, PoolUntouched, Zenon
<1> QED
  BY <1>1, <1>2, <1>3, <1>4, TakePermitKeepsPool, PopIdleKeepsPool,
     ReturnChannelKeepsPool, ReleasePermitKeepsPool, Zenon DEF Next, Acquire, Attempt

-----------------------------------------------------------------------------
(* Copies at the broker.                                                   *)

\* What the pair of invariants says of one publisher.
CopiesOf(p) ==
    /\ stored[p] <= (IF p \in recovered THEN 2 ELSE 1)
    /\ pc[p] \in Unsent \/ frame[p] = "wire" => stored[p] <= (IF p \in recovered THEN 1 ELSE 0)
    /\ frame[p] = "wire" => pc[p] \notin Unsent \cup {"recovering"}
    /\ frame[p] = "acked" => stored[p] >= 1
    /\ pc[p] = "recovering" => p \notin recovered
    /\ pc[p] \in {"returning", "releasing"} /\ after[p] = "recovering"
          => p \notin recovered /\ frame[p] # "wire"
    /\ result[p] = "ok" => pc[p] = "done"
    /\ confirms /\ result[p] = "ok" => stored[p] >= 1

\* The two invariants are about one publisher at a time.
LEMMA CopiesSplit == CopiesSoFar /\ StoredAsReported <=> \A p \in Publishers : CopiesOf(p)
BY Zenon DEF CopiesSoFar, StoredAsReported, CopiesOf

\* A step of p is invisible to the others.
LEMMA CopiesOfOthers ==
    ASSUME NEW p \in Publishers, NEW q \in Publishers, q # p, CopiesOf(q), TypeOK,
           confirms' = confirms,
           pc'[q] = pc[q], after'[q] = after[q], frame'[q] = frame[q],
           result'[q] = result[q], stored'[q] = stored[q],
           q \in recovered' <=> q \in recovered
    PROVE  CopiesOf(q)'
BY Zenon DEF CopiesOf

\* Losing frames takes "wire" and "acked" away, and adds neither.
LEMMA LosingKeepsCopies ==
    ASSUME TypeOK, NEW users \in SUBSET Publishers, LoseFrames(users),
           NEW q \in Publishers, CopiesOf(q), confirms' = confirms,
           pc' = pc, after' = after, result' = result, stored' = stored, recovered' = recovered
    PROVE  CopiesOf(q)'
<1>1. frame'[q] \in {frame[q], "lost"}
  BY Zenon DEF LoseFrames
<1> QED
  BY <1>1, Zenon DEF CopiesOf, TypeOK

\* The environment: only a frame on the wire becomes a copy.
LEMMA EnvironmentKeepsCopies ==
    ASSUME TypeOK, Construct \/ Environment, NEW q \in Publishers, CopiesOf(q)
    PROVE  CopiesOf(q)'
<1>1. CASE Construct \/ ConnectionRecovers
  <2>1. UNCHANGED <<confirms, callVars, stored>>
    BY <1>1, Zenon DEF Construct, ConnectSucceeds, ConnectFails, BoundExpires,
                       DeclareReturns, ConnectionRecovers
  <2> QED
    BY <2>1, Zenon DEF callVars, CopiesOf
<1>2. CASE ConnectionDrops
  BY <1>2, LosingKeepsCopies, Zenon DEF ConnectionDrops
<1>3. ASSUME NEW ch, ChannelCloses(ch) PROVE CopiesOf(q)'
  <2>1. {p \in Publishers : chan[p] = ch} \in SUBSET Publishers
    BY Zenon
  <2> QED
    BY <1>3, <2>1, LosingKeepsCopies, Zenon DEF ChannelCloses
<1>4. ASSUME NEW p \in Publishers, BrokerStores(p) PROVE CopiesOf(q)'
  BY <1>4 DEF BrokerStores, connVars, CopiesOf, TypeOK, Unsent
<1>5. ASSUME NEW p \in Publishers, BrokerRefuses(p) PROVE CopiesOf(q)'
  BY <1>5, Zenon DEF BrokerRefuses, connVars, CopiesOf, TypeOK
<1> QED
  BY <1>1, <1>2, <1>3, <1>4, <1>5, Zenon DEF Environment

\* A publisher keeps its own account.
LEMMA PublisherKeepsCopies ==
    ASSUME TypeOK, NEW p \in Publishers, CopiesOf(p),
           Begin(p) \/ Acquire(p) \/ Attempt(p) \/ GiveUp(p)
    PROVE  CopiesOf(p)'
<1>1. CASE Begin(p) \/ GiveUp(p)
  BY <1>1 DEF Begin, GiveUp, connVars, CopiesOf, TypeOK, Unsent
<1>2. CASE Acquire(p)
  BY <1>2, ZenonT(60) DEF Acquire, TakePermit, PopIdle, OpenChannel, OpenFails, connVars, CopiesOf,
              TypeOK, Unsent
<1>3. CASE BasicPublish(p)
  BY <1>3, ZenonT(60) DEF BasicPublish, AfterFailure, Failed, connVars, CopiesOf, TypeOK, Unsent
<1>4. CASE ReturnChannel(p) \/ ReleasePermit(p)
  BY <1>4, Zenon DEF ReturnChannel, ReleasePermit, connVars, CopiesOf, TypeOK, Unsent
<1>5. CASE ConfirmArrives(p)
  BY <1>5, ZenonT(60) DEF ConfirmArrives, AfterFailure, Failed, connVars, CopiesOf, TypeOK, Unsent
<1>6. CASE Recover(p)
  BY <1>6 DEF Recover, connVars, CopiesOf, TypeOK, Unsent
<1> QED
  BY <1>1, <1>2, <1>3, <1>4, <1>5, <1>6, Zenon DEF Attempt

\* And leaves the accounts of the others alone.
LEMMA PublisherIsLocal ==
    ASSUME TypeOK, NEW p \in Publishers, NEW q \in Publishers, q # p,
           Begin(p) \/ Acquire(p) \/ Attempt(p) \/ GiveUp(p)
    PROVE  /\ confirms' = confirms /\ stored'[q] = stored[q]
           /\ pc'[q] = pc[q] /\ after'[q] = after[q] /\ frame'[q] = frame[q]
           /\ result'[q] = result[q] /\ (q \in recovered' <=> q \in recovered)
<1>1. CASE Begin(p) \/ GiveUp(p)
  BY <1>1, Zenon DEF Begin, GiveUp, connVars, TypeOK
<1>2. CASE Acquire(p)
  BY <1>2, ZenonT(60) DEF Acquire, TakePermit, PopIdle, OpenChannel, OpenFails, connVars, TypeOK
<1>3. CASE Attempt(p)
  <2>1. CASE BasicPublish(p)
    BY <2>1, ZenonT(60) DEF BasicPublish, AfterFailure, Failed, connVars, TypeOK
  <2>2. CASE ReturnChannel(p) \/ ReleasePermit(p)
    BY <2>2, ZenonT(60) DEF ReturnChannel, ReleasePermit, connVars, TypeOK
  <2>3. CASE ConfirmArrives(p)
    BY <2>3, ZenonT(60) DEF ConfirmArrives, AfterFailure, Failed, connVars, TypeOK
  <2>4. CASE Recover(p)
    BY <2>4, ZenonT(60) DEF Recover, connVars, TypeOK
  <2> QED
    BY <1>3, <2>1, <2>2, <2>3, <2>4, Zenon DEF Attempt
<1> QED
  BY <1>1, <1>2, <1>3, Zenon

-----------------------------------------------------------------------------
\* The inductive invariant of the transport.
THEOREM TransportInvHolds == Spec => []TransportInv
<1>1. Init => TransportInv
  <2> SUFFICES ASSUME Init PROVE TransportInv
    BY Zenon
  <2>1. TypeOK
    BY TransportConstants, PlaceFacts DEF Init, TypeOK
  <2>2. permits = {p \in Publishers : pc[p] \in Holding} /\ Owners = {} /\ permits = {}
    BY PlaceFacts, Zenon DEF Init, Owners
  <2>3. Cardinality({}) = 0
    BY FS_EmptySet, Zenon
  <2>4. PoolInv
    BY <2>2, <2>3, TransportConstants, PlaceFacts DEF PoolInv, LiveWithinCap, Init, Attached
  <2>5. \A p \in Publishers : CopiesOf(p)
    BY DEF Init, CopiesOf, Unsent
  <2> QED
    BY <2>1, <2>4, <2>5, CopiesSplit, Zenon DEF TransportInv
<1>2. TransportInv /\ [Next]_vars => TransportInv'
  <2> SUFFICES ASSUME TransportInv, [Next]_vars PROVE TransportInv'
    BY Zenon
  <2>1. \A q \in Publishers : CopiesOf(q)
    BY CopiesSplit, Zenon DEF TransportInv
  <2>2. CASE Next
    <3>1. TypeOK' /\ PoolInv'
      BY <2>2, TypeStep, PoolStep, Zenon DEF TransportInv
    <3>2. ASSUME NEW q \in Publishers PROVE CopiesOf(q)'
      BY <2>1, <2>2, EnvironmentKeepsCopies, PublisherKeepsCopies, PublisherIsLocal,
         CopiesOfOthers, Zenon DEF Next, TransportInv
    <3>3. CopiesSoFar' /\ StoredAsReported'
      BY <3>2, Zenon DEF CopiesSoFar, StoredAsReported, CopiesOf
    <3> QED
      BY <3>1, <3>3, Zenon DEF TransportInv
  <2>3. CASE UNCHANGED vars
    BY <2>3, Zenon DEF vars, connVars, poolVars, callVars, TransportInv, TypeOK, PoolInv, Owners,
                LiveWithinCap, CopiesSoFar, StoredAsReported
  <2> QED
    BY <2>2, <2>3, Zenon
<1> QED
  BY <1>1, <1>2, PTL DEF Spec

\* ChannelPool never has more than max_size channels, cached, handed out and
\* being opened together, for any number of publishers and any faults.
THEOREM PoolCap == Spec => []LiveWithinCap
<1>1. TransportInv => LiveWithinCap
  BY Zenon DEF TransportInv, PoolInv
<1> QED
  BY <1>1, TransportInvHolds, PTL

\* Whatever is lost, publish_envelope returns Ok only for a stored message
\* when confirms are on, and its retry stores at most one copy more.
THEOREM OkMeansStored == Spec => []StoredAsReported
<1>1. TransportInv => StoredAsReported
  BY Zenon DEF TransportInv
<1> QED
  BY <1>1, TransportInvHolds, PTL
=============================================================================
