------------------------ MODULE RabbitMqWorkerProofs ------------------------
(***************************************************************************)
(* WorkerInv is an invariant of RabbitMqWorker for any messages, workers,  *)
(* window, budget and faults: a manual message is never lost, no delivery  *)
(* is left on a live channel, the budget is spent before a message is      *)
(* given up, and the modes that acknowledge first run a handler once.  On  *)
(* top of it, CalmInv: while nothing fails a message is in one place only, *)
(* so that no message runs more often than its budget allows.              *)
(***************************************************************************)
EXTENDS RabbitMqWorkerSteps

-----------------------------------------------------------------------------
(* The rest of the loop.                                                   *)

\* The token changes no delivery.
LEMMA CancelKeeps ==
    ASSUME WorkerInv, NEW w \in Workers, Cancel(w)
    PROVE  WorkerInv'
<1>0. /\ Quiet /\ queue' = queue /\ wait' = wait /\ unacked' = unacked /\ acks' = acks
      /\ chan' = chan /\ loop' = loop /\ job' = job /\ faults' = faults
      /\ sent' = sent /\ ackLost' = ackLost /\ mode' = mode
  BY Zenon DEF Cancel, brokerVars, ghostVars, Quiet
<1>1. cancelled' \subseteq Workers /\ cancels' \in Nat
  BY DEF Cancel, WorkerInv, TypeOK
<1>2. PlacesTyped'
  BY <1>0, <1>1, Zenon DEF PlacesTyped, WorkerInv, TypeOK
<1>3. \A v \in Workers : Jobs(v)' = Jobs(v) /\ Offered(v)' = Offered(v)
  BY <1>0, Zenon DEF Jobs, Offered
<1>4. CopiesComeFrom /\ StoredKept
  BY <1>0, <1>3, Zenon DEF CopiesComeFrom, StoredKept
<1>5. WorkerShape' /\ PrefetchIsWorkedOn'
  BY <1>0, <1>3, ZenonT(60) DEF WorkerInv, WorkerShape, PrefetchIsWorkedOn
<1>6. OneOffer'
  BY <1>0, <1>3, OneOfferKept, Zenon DEF WorkerInv, OneOffer
<1> QED
  BY <1>0, <1>2, <1>4, <1>5, <1>6, BrokerMoves, Zenon

\* The delivery that awaits a permit is dropped: only a no_ack consumer has one.
LEMMA LeaveLoopKeeps ==
    ASSUME WorkerInv, NEW w \in Workers, LeaveLoop(w)
    PROVE  WorkerInv'
<1>0. /\ Quiet /\ queue' = queue /\ wait' = wait /\ unacked' = unacked /\ acks' = acks
      /\ chan' = chan /\ cancelled' = cancelled /\ faults' = faults /\ cancels' = cancels
      /\ sent' = sent /\ ackLost' = ackLost /\ mode' = mode
      /\ loop' = [loop EXCEPT ![w] = "draining"]
  BY Zenon DEF LeaveLoop, brokerVars, ghostVars, Quiet
<1>1. /\ loop' \in [Workers -> {"running", "draining", "stopped"}]
      /\ \A v \in Workers : loop'[v] = "stopped" => loop[v] = "stopped"
  BY <1>0, Zenon DEF WorkerInv, TypeOK
<1>2. /\ job' \in [Workers -> [Copies -> Phases]]
      /\ \A v \in Workers, d \in Copies : job'[v][d] = job[v][d] \/
            (job'[v][d] = "none" /\ job[v][d] = "held")
  <2>1. job \in [Workers -> [Copies -> Phases]] /\ "none" \in Phases
    BY Zenon DEF WorkerInv, TypeOK, Phases
  <2>2. job' = [job EXCEPT ![w] = [c \in Copies |-> IF @[c] = "held" THEN "none" ELSE @[c]]]
    BY Zenon DEF LeaveLoop
  <2> QED
    BY <2>1, <2>2, Zenon
<1>3. PlacesTyped'
  BY <1>0, <1>1, <1>2, Zenon DEF PlacesTyped, WorkerInv, TypeOK
<1>4. \A v \in Workers : Jobs(v)' \subseteq Jobs(v)
  BY <1>2, Zenon DEF Jobs
<1>5. CopiesComeFrom
  <2>1. \A v \in Workers, d \in Copies :
          job'[v][d] \in {"handling", "retrying", "burying"} => job'[v][d] = job[v][d]
    BY <1>2, Zenon
  <2> QED
    BY <1>0, <1>4, <2>1, Zenon DEF CopiesComeFrom
<1>6. StoredKept
  BY <1>0, Zenon DEF StoredKept
<1>7. WorkerShape'
  <2>1. \A v \in Workers : loop'[v] = "stopped" => chan'[v] = "closed" /\ Jobs(v)' = {}
    BY <1>0, <1>1, <1>4, Zenon DEF WorkerInv, WorkerShape
  <2>2. \A v \in Workers, d \in Copies :
          /\ job'[v][d] = "held" => mode' = "Unacknowledged"
          /\ job'[v][d] = "settling" => mode' # "Unacknowledged"
    BY <1>0, <1>2 DEF WorkerInv, WorkerShape
  <2>3. mode' = "AckOnReceive" =>
          \A v \in Workers : \A d \in unacked'[v] : job'[v][d] # "handling"
    BY <1>0, <1>2, Placed DEF WorkerInv, WorkerShape
  <2> QED
    BY <1>0, <2>1, <2>2, <2>3, Zenon DEF WorkerInv, WorkerShape
<1>8. PrefetchIsWorkedOn'
  <2>1. CASE mode = "Unacknowledged"
    BY <1>0, <2>1, Zenon DEF WorkerInv, WorkerShape, PrefetchIsWorkedOn
  <2>2. CASE mode # "Unacknowledged"
    <3>1. \A v \in Workers : Jobs(v)' = Jobs(v)
      BY <1>2, <2>2 DEF Jobs, WorkerInv, WorkerShape
    <3> QED
      BY <1>0, <3>1, Zenon DEF WorkerInv, PrefetchIsWorkedOn
  <2> QED
    BY <2>1, <2>2, Zenon
<1>9. OneOffer'
  <2>1. mode # "Manual" => wait' = {}
    BY <1>0, Zenon DEF WorkerInv, OneOffer
  <2>2. \A v \in Workers, d \in Copies : job'[v][d] \in Waiting \/ job'[v][d] = job[v][d]
    BY <1>2, Zenon DEF Waiting
  <2>3. \A v \in Workers, d \in Copies :
          mode = "AckOnReceive" /\ job'[v][d] = "buffered" /\ chan'[v] = "open"
          => d \in unacked'[v]
    BY <1>0, <1>2, ZenonT(60) DEF WorkerInv, OneOffer
  <2>4. \A v \in Workers : Offered(v)' \subseteq Offered(v)
    BY <1>0, <1>2, Zenon DEF Offered
  <2> QED
    BY <1>0, <2>1, <2>2, <2>3, <2>4, OneOfferKept, Zenon
<1>10. \A v \in Workers, d \in Copies :
        job'[v][d] \in {"confirming", "settling"} => job'[v][d] = job[v][d]
  BY <1>2, Zenon
<1> QED
  BY <1>0, <1>3, <1>5, <1>6, <1>7, <1>8, <1>9, <1>10, BrokerMoves, Zenon

\* A worker starts with nothing in hand.
LEMMA StartKeeps ==
    ASSUME WorkerInv, NEW w \in Workers, Start(w)
    PROVE  WorkerInv'
<1>0. /\ Quiet /\ queue' = queue /\ wait' = wait /\ unacked' = unacked /\ acks' = acks
      /\ job' = job /\ faults' = faults /\ cancels' = cancels /\ sent' = sent
      /\ ackLost' = ackLost /\ mode' = mode /\ loop[w] = "stopped"
  BY Zenon DEF Start, brokerVars, ghostVars, Quiet
<1>1. /\ loop' \in [Workers -> {"running", "draining", "stopped"}] /\ loop'[w] = "running"
      /\ \A v \in Workers : v # w => loop'[v] = loop[v]
      /\ chan' \in [Workers -> {"open", "cut", "closed"}] /\ chan'[w] = "open"
      /\ \A v \in Workers : v # w => chan'[v] = chan[v]
      /\ cancelled' \subseteq Workers
  BY Zenon DEF Start, WorkerInv, TypeOK
<1>2. PlacesTyped'
  BY <1>0, <1>1, Zenon DEF PlacesTyped, WorkerInv, TypeOK
<1>3. \A v \in Workers : Jobs(v)' = Jobs(v) /\ Offered(v)' = Offered(v)
  BY <1>0, Zenon DEF Jobs, Offered
<1>4. CopiesComeFrom /\ StoredKept
  BY <1>0, <1>3, Zenon DEF CopiesComeFrom, StoredKept
<1>5. Jobs(w) = {} /\ unacked[w] = {}
  BY <1>0, Zenon DEF WorkerInv, WorkerShape
<1>6. WorkerShape'
  BY <1>0, <1>1, <1>3 DEF WorkerInv, WorkerShape
<1>7. PrefetchIsWorkedOn'
  BY <1>0, <1>1, <1>3, <1>5, Zenon DEF WorkerInv, PrefetchIsWorkedOn
<1>8. OneOffer'
  <2>1. \A v \in Workers, d \in Copies :
          mode = "AckOnReceive" /\ job'[v][d] = "buffered" /\ chan'[v] = "open"
          => d \in unacked'[v]
    BY <1>0, <1>1, <1>5, Zenon DEF WorkerInv, OneOffer, Jobs
  <2>2. mode # "Manual" => wait' = {}
    BY <1>0, Zenon DEF WorkerInv, OneOffer
  <2> QED
    BY <1>0, <1>3, <2>1, <2>2, OneOfferKept, Zenon
<1> QED
  BY <1>0, <1>2, <1>4, <1>6, <1>7, <1>8, BrokerMoves, Zenon

-----------------------------------------------------------------------------
(* Settlement.                                                             *)

\* A message that never decodes is never handled.
PoisonNeverRuns == \A m \in Poison : runs[m] = 0

\* The retry copy is stored before the original is acknowledged.
LEMMA RetryCopyStoredKeeps ==
    ASSUME WorkerInv, PoisonNeverRuns, NEW w \in Workers, NEW c \in Copies, RetryCopyStored(w, c)
    PROVE  WorkerInv'
<1>0. /\ Quiet /\ queue' = queue /\ unacked' = unacked /\ acks' = acks /\ chan' = chan
      /\ loop' = loop /\ cancelled' = cancelled /\ faults' = faults /\ cancels' = cancels
      /\ sent' = sent /\ ackLost' = ackLost /\ mode' = mode /\ job[w][c] = "retrying"
  BY Zenon DEF RetryCopyStored, ghostVars, Quiet
<1>1. PICK d \in Copies : d.msg = c.msg /\ d.deaths = c.deaths /\ wait' = wait \cup {d}
  BY Zenon DEF RetryCopyStored, Fresh
<1>2. mode = "Manual"
  <2>1. c.deaths + 1 <= runs[c.msg] /\ c.deaths \in Nat
    BY <1>0, CopyFields DEF WorkerInv, DeathsWereRuns
  <2>2. c.msg \notin Poison
    BY <2>1 DEF PoisonNeverRuns
  <2> QED
    BY <1>0, <2>2, Zenon DEF WorkerInv, OneOffer, Waiting
<1>3. /\ job' \in [Workers -> [Copies -> Phases]] /\ job'[w][c] = "confirming"
      /\ \A v \in Workers, e \in Copies : v # w \/ e # c => job'[v][e] = job[v][e]
  <2>1. "confirming" \in Phases /\ SetJob(w, c, "confirming") /\ TypeOK
    BY Zenon DEF Phases, RetryCopyStored, WorkerInv
  <2> QED
    BY <2>1, JobSet
<1>4. PlacesTyped'
  BY <1>0, <1>1, <1>3, Zenon DEF PlacesTyped, WorkerInv, TypeOK
<1>5. \A v \in Workers : Jobs(v)' = Jobs(v)
  BY <1>0, <1>3, Zenon DEF Jobs
<1>6. CopiesComeFrom
  <2>1. \A v \in Workers, e \in Copies :
          job'[v][e] \in {"handling", "retrying", "burying"} => job'[v][e] = job[v][e]
    BY <1>3, Zenon
  <2>2. \A e \in wait' : \/ e \in wait
                         \/ \E v \in Workers, f \in Copies :
                               job[v][f] = "retrying" /\ e.msg = f.msg /\ e.deaths = f.deaths
    BY <1>0, <1>1, Zenon
  <2> QED
    BY <1>0, <1>5, <2>1, <2>2, Zenon DEF CopiesComeFrom
<1>7. StoredKept
  BY <1>0, <1>1, Zenon DEF StoredKept
<1>8. Covered(c)'
  <2>1. d \in wait' /\ d.msg = c.msg /\ d.deaths >= c.deaths
    BY <1>1, CopyFields
  <2> QED
    BY <2>1, Zenon DEF Covered
<1>9. \A v \in Workers, e \in Copies :
        job'[v][e] \in {"confirming", "settling"} => job'[v][e] = job[v][e] \/ Covered(e)'
  BY <1>3, <1>8, Zenon
<1>10. WorkerShape' /\ PrefetchIsWorkedOn' /\ OneOffer'
  BY <1>0, <1>2, <1>3, <1>5 DEF WorkerInv, WorkerShape, PrefetchIsWorkedOn, OneOffer
<1> QED
  BY <1>0, <1>4, <1>6, <1>7, <1>9, <1>10, BrokerMoves, Zenon

\* A delivery whose publication failed goes back to the queue.
LEMMA RequeueKeeps ==
    ASSUME WorkerInv, NEW w \in Workers, NEW c \in Copies, Requeue(w, c)
    PROVE  WorkerInv'
<1>0. /\ Quiet /\ wait' = wait /\ acks' = acks /\ chan' = chan
      /\ loop' = loop /\ cancelled' = cancelled /\ faults' = faults /\ cancels' = cancels
      /\ sent' = sent /\ ackLost' = ackLost /\ mode' = mode /\ job[w][c] = "requeueing"
  BY Zenon DEF Requeue, ghostVars, Quiet
<1>1. /\ job' \in [Workers -> [Copies -> Phases]] /\ job'[w][c] = "none"
      /\ \A v \in Workers, e \in Copies : v # w \/ e # c => job'[v][e] = job[v][e]
  <2>1. "none" \in Phases /\ SetJob(w, c, "none") /\ TypeOK
    BY Zenon DEF Phases, Requeue, WorkerInv
  <2> QED
    BY <2>1, JobSet
<1>2. /\ unacked' \in [Workers -> SUBSET Copies]
      /\ \A v \in Workers : unacked'[v] \subseteq unacked[v] /\ (v # w => unacked'[v] = unacked[v])
      /\ queue \subseteq queue' /\ queue' \subseteq queue \cup {c}
      /\ \A v \in Workers : \A e \in unacked[v] : e \in queue' \/ e \in unacked'[v]
      /\ chan[w] = "open" => c \notin unacked'[w]
      /\ \A e \in unacked[w] : e # c => e \in unacked'[w]
  <2>1. unacked \in [Workers -> SUBSET Copies]
    BY Zenon DEF WorkerInv, TypeOK
  <2>2. CASE chan[w] = "open"
    <3>1. unacked' = [unacked EXCEPT ![w] = @ \ {c}] /\ queue' = queue \cup {c}
      BY <2>2, Zenon DEF Requeue
    <3> QED
      BY <2>1, <2>2, <3>1, Zenon
  <2>3. CASE chan[w] # "open"
    <3>1. unacked' = unacked /\ queue' = queue
      BY <2>3, Zenon DEF Requeue
    <3> QED
      BY <2>1, <2>3, <3>1, Zenon
  <2> QED
    BY <2>2, <2>3, Zenon
<1>3. PlacesTyped'
  <2>1. queue' \subseteq Copies
    BY <1>2, Placed, Zenon
  <2> QED
    BY <1>0, <1>1, <1>2, <2>1, Zenon DEF PlacesTyped, WorkerInv, TypeOK
<1>4. /\ c \in Jobs(w) /\ Jobs(w)' = Jobs(w) \ {c}
      /\ \A v \in Workers : v # w => Jobs(v)' = Jobs(v)
  BY <1>0, <1>1, Zenon DEF Jobs
<1>5. CopiesComeFrom
  <2>1. \A v \in Workers, e \in Copies :
          job'[v][e] \in {"handling", "retrying", "burying"} => job'[v][e] = job[v][e]
    BY <1>1, Zenon
  <2>2. \A v \in Workers : \A e \in unacked'[v] \cup acks'[v] \cup Jobs(v)' :
          e \in queue \cup unacked[v] \cup acks[v] \cup Jobs(v)
    BY <1>0, <1>2, <1>4, Zenon
  <2>3. \A e \in queue' : e \in queue \/ \E v \in Workers : e \in unacked[v] \cup acks[v] \cup Jobs(v)
    BY <1>2, <1>4, Zenon
  <2> QED
    BY <1>0, <2>1, <2>2, <2>3, Zenon DEF CopiesComeFrom
<1>6. StoredKept
  BY <1>0, <1>2, Zenon DEF StoredKept
<1>7. WorkerShape'
  <2>1. \A v \in Workers : chan'[v] # "open" => unacked'[v] = {} /\ acks'[v] = {}
    BY <1>0, <1>2, Zenon DEF WorkerInv, WorkerShape
  <2>2. \A v \in Workers : loop'[v] = "stopped" => chan'[v] = "closed" /\ Jobs(v)' = {}
    BY <1>0, <1>4, ZenonT(60) DEF WorkerInv, WorkerShape
  <2>3. \A v \in Workers, d \in Copies :
          /\ job'[v][d] = "held" => mode' = "Unacknowledged"
          /\ job'[v][d] = "settling" => mode' # "Unacknowledged"
    BY <1>0, <1>1, ShapeOfJobs, ZenonT(60)
  <2>4. mode' = "Unacknowledged" => \A v \in Workers : unacked'[v] = {} /\ acks'[v] = {}
    BY <1>0, <1>2, ZenonT(60) DEF WorkerInv, WorkerShape
  <2>5. mode' = "AckOnReceive" =>
          \A v \in Workers : \A d \in unacked'[v] : job'[v][d] # "handling"
    <3> SUFFICES ASSUME mode' = "AckOnReceive", NEW v \in Workers, NEW d \in unacked'[v]
                 PROVE  job'[v][d] # "handling"
      BY Zenon
    <3>1. d \in unacked[v] /\ d \in Copies
      BY <1>2, Placed, Zenon
    <3>2. job[v][d] # "handling"
      BY <1>0, <3>1, ReceivedIsNotHandled, Zenon
    <3> QED
      BY <1>1, <3>1, <3>2, Zenon
  <2> QED
    BY <2>1, <2>2, <2>3, <2>4, <2>5, Zenon DEF WorkerShape
<1>8. PrefetchIsWorkedOn'
  BY <1>0, <1>2, <1>4 DEF WorkerInv, PrefetchIsWorkedOn
<1>9. OneOffer'
  <2>1. mode # "Manual" => wait' = {} /\ c.msg \in Poison
    BY <1>0, Zenon DEF WorkerInv, OneOffer, Waiting
  <2>2. \A v \in Workers, d \in Copies : job'[v][d] \in Waiting \/ job'[v][d] = job[v][d]
    BY <1>1, Zenon DEF Waiting
  <2>3. \A v \in Workers, d \in Copies :
          mode = "AckOnReceive" /\ job'[v][d] = "buffered" /\ chan'[v] = "open"
          => d \in unacked'[v]
    BY <1>0, <1>1, <1>2 DEF WorkerInv, OneOffer
  <2>4. \A v \in Workers : Offered(v)' \subseteq Offered(v)
    BY <1>0, <1>1, <1>2, Zenon DEF Offered
  <2>5. mode # "Manual" => \A m \in Messages \ (Poison \cup ackLost') :
          \A e \in queue' : e.msg = m => e \in queue
    BY <1>2, <2>1, Zenon
  <2> QED
    BY <1>0, <2>1, <2>2, <2>3, <2>4, <2>5, OneOfferKept, Zenon
<1>10. \A v \in Workers, d \in Copies :
        job'[v][d] \in {"confirming", "settling"} => job'[v][d] = job[v][d]
  BY <1>1, Zenon
<1> QED
  BY <1>0, <1>3, <1>5, <1>6, <1>7, <1>8, <1>9, <1>10, BrokerMoves, Zenon

\* Only a copy that the broker can do without is acknowledged, and what
\* covers it covers all that it covered.
LEMMA SettleDeliveryKeeps ==
    ASSUME WorkerInv, NEW w \in Workers, NEW c \in Copies, SettleDelivery(w, c)
    PROVE  WorkerInv'
<1>0. /\ Quiet /\ queue' = queue /\ wait' = wait /\ chan' = chan /\ Settle(w, c)
      /\ loop' = loop /\ cancelled' = cancelled /\ faults' = faults /\ cancels' = cancels
      /\ sent' = sent /\ mode' = mode /\ job[w][c] = "settling"
      /\ handled' = handled /\ buried' = buried /\ excused' = excused
  BY Zenon DEF SettleDelivery, Quiet
<1>1. /\ job' \in [Workers -> [Copies -> Phases]] /\ job'[w][c] = "none"
      /\ \A v \in Workers, e \in Copies : v # w \/ e # c => job'[v][e] = job[v][e]
  <2>1. "none" \in Phases /\ SetJob(w, c, "none") /\ TypeOK
    BY Zenon DEF Phases, SettleDelivery, WorkerInv
  <2> QED
    BY <2>1, JobSet
<1>2. /\ unacked' \in [Workers -> SUBSET Copies] /\ acks' \in [Workers -> SUBSET Copies]
      /\ \A v \in Workers : /\ unacked'[v] \subseteq unacked[v]
                            /\ acks'[v] \subseteq acks[v] \cup {c}
                            /\ v # w => unacked'[v] = unacked[v] /\ acks'[v] = acks[v]
                            /\ \A d \in unacked[v] : d # c => d \in unacked'[v]
      /\ chan[w] = "open" => c \notin unacked'[w]
      /\ chan[w] # "open" => unacked' = unacked /\ acks' = acks
      /\ ackLost \subseteq ackLost' /\ ackLost' \subseteq Messages
  BY <1>0, SettleFacts, Zenon
<1>3. PlacesTyped'
  BY <1>0, <1>1, <1>2, Zenon DEF PlacesTyped, WorkerInv, TypeOK
<1>4. /\ c \in Jobs(w) /\ Jobs(w)' = Jobs(w) \ {c}
      /\ \A v \in Workers : v # w => Jobs(v)' = Jobs(v)
  BY <1>0, <1>1, Zenon DEF Jobs
<1>5. CopiesComeFrom
  <2>1. \A v \in Workers, e \in Copies :
          job'[v][e] \in {"handling", "retrying", "burying"} => job'[v][e] = job[v][e]
    BY <1>1
  <2>2. \A v \in Workers : \A e \in unacked'[v] \cup acks'[v] \cup Jobs(v)' :
          e \in queue \cup unacked[v] \cup acks[v] \cup Jobs(v)
    BY <1>2, <1>4, Zenon
  <2> QED
    BY <1>0, <2>1, <2>2, Zenon DEF CopiesComeFrom
<1>6. ASSUME mode = "Manual", NEW n \in Int, n <= c.deaths
      PROVE  \/ c.msg \in handled' \cup buried' \cup excused'
             \/ \E d \in wait' : d.msg = c.msg /\ d.deaths >= n
             \/ \E d \in queue' \cup UNION {unacked'[v] : v \in Workers} :
                   d.msg = c.msg /\ d.deaths > n
  <2>1. Covered(c) /\ c.deaths \in Int
    BY <1>0, <1>6, CopyFields DEF WorkerInv, AcknowledgedIsCovered
  <2>2. CASE \E d \in wait : d.msg = c.msg /\ d.deaths >= c.deaths
    <3>1. PICK d \in wait : d.msg = c.msg /\ d.deaths >= c.deaths
      BY <2>2, Zenon
    <3>2. d.deaths \in Int
      BY Placed, CopyFields
    <3>3. d.deaths >= n
      BY <1>6, <2>1, <3>1, <3>2
    <3> QED
      BY <1>0, <3>1, <3>3, Zenon
  <2>3. CASE \E d \in queue \cup UNION {unacked[v] : v \in Workers} :
               d.msg = c.msg /\ d.deaths > c.deaths
    <3>1. PICK d \in queue \cup UNION {unacked[v] : v \in Workers} :
               d.msg = c.msg /\ d.deaths > c.deaths
      BY <2>3, Zenon
    <3>2. d.deaths \in Int
      BY Placed, CopyFields
    <3>3. d.deaths > n /\ d # c
      BY <1>6, <2>1, <3>1, <3>2
    <3>4. d \in queue' \cup UNION {unacked'[v] : v \in Workers}
      BY <1>0, <1>2, <3>1, <3>3
    <3> QED
      BY <3>1, <3>3, <3>4, Zenon
  <2> QED
    BY <1>0, <2>1, <2>2, <2>3, Zenon DEF Covered
<1>7. ASSUME mode = "Manual", NEW e \in Copies, Covered(e) PROVE Covered(e)'
  <2>1. e.deaths \in Int
    BY CopyFields
  <2>2. CASE \E d \in queue \cup UNION {unacked[v] : v \in Workers} :
               d.msg = e.msg /\ d.deaths > e.deaths
    <3>1. PICK d \in queue \cup UNION {unacked[v] : v \in Workers} :
               d.msg = e.msg /\ d.deaths > e.deaths
      BY <2>2, Zenon
    <3>2. CASE d = c
      <4>1. e.msg = c.msg /\ e.deaths <= c.deaths
        BY <2>1, <3>1, <3>2, CopyFields
      <4> QED
        BY <1>6, <1>7, <2>1, <4>1, Zenon DEF Covered
    <3>3. CASE d # c
      <4>1. d \in queue' \cup UNION {unacked'[v] : v \in Workers}
        BY <1>0, <1>2, <3>1, <3>3
      <4> QED
        BY <3>1, <4>1, Zenon DEF Covered
    <3> QED
      BY <3>2, <3>3, Zenon
  <2> QED
    BY <1>0, <1>7, <2>2, Zenon DEF Covered
<1>8. ManualNeverLoses'
  <2> SUFFICES ASSUME mode = "Manual", NEW m \in sent
               PROVE  m \in handled' \cup buried' \cup excused' \/ \E d \in Held' : d.msg = m
    BY <1>0, Zenon DEF ManualNeverLoses
  <2>1. CASE \E d \in Held : d.msg = m
    <3>1. PICK d \in Held : d.msg = m
      BY <2>1, Zenon
    <3>2. CASE d = c
      <4>1. c.deaths \in Int /\ c.deaths <= c.deaths
        BY CopyFields
      <4> QED
        BY <1>6, <3>1, <3>2, <4>1, Zenon DEF Held
    <3>3. CASE d # c
      BY <1>0, <1>2, <3>1, <3>3 DEF Held
    <3> QED
      BY <3>2, <3>3, Zenon
  <2> QED
    BY <1>0, <2>1, Zenon DEF WorkerInv, ManualNeverLoses
<1>9. WorkerShape'
  <2>1. \A v \in Workers : chan'[v] # "open" => unacked'[v] = {} /\ acks'[v] = {}
    BY <1>0, <1>2 DEF WorkerInv, WorkerShape
  <2>2. \A v \in Workers : loop'[v] = "stopped" => chan'[v] = "closed" /\ Jobs(v)' = {}
    BY <1>0, <1>4, Zenon DEF WorkerInv, WorkerShape
  <2>3. \A v \in Workers, d \in Copies :
          /\ job'[v][d] = "held" => mode' = "Unacknowledged"
          /\ job'[v][d] = "settling" => mode' # "Unacknowledged"
    BY <1>0, <1>1, ShapeOfJobs, ZenonT(60)
  <2>4. mode' # "Unacknowledged"
    BY <1>0, ZenonT(60) DEF WorkerInv, WorkerShape
  <2>5. mode' = "AckOnReceive" =>
          \A v \in Workers : \A d \in unacked'[v] : job'[v][d] # "handling"
    <3> SUFFICES ASSUME mode' = "AckOnReceive", NEW v \in Workers, NEW d \in unacked'[v]
                 PROVE  job'[v][d] # "handling"
      BY Zenon
    <3>1. d \in unacked[v] /\ d \in Copies
      BY <1>2, Placed, Zenon
    <3>2. job[v][d] # "handling"
      BY <1>0, <3>1, ReceivedIsNotHandled, Zenon
    <3> QED
      BY <1>1, <3>1, <3>2, Zenon
  <2> QED
    BY <2>1, <2>2, <2>3, <2>4, <2>5, Zenon DEF WorkerShape
<1>10. PrefetchIsWorkedOn'
  BY <1>0, <1>2, <1>4 DEF WorkerInv, PrefetchIsWorkedOn
<1>11. OneOffer'
  <2>1. mode # "Manual" => wait' = {}
    BY <1>0, Zenon DEF WorkerInv, OneOffer
  <2>2. \A v \in Workers, d \in Copies : job'[v][d] \in Waiting \/ job'[v][d] = job[v][d]
    BY <1>1 DEF Waiting
  <2>3. \A v \in Workers, d \in Copies :
          mode = "AckOnReceive" /\ job'[v][d] = "buffered" /\ chan'[v] = "open"
          => d \in unacked'[v]
    BY <1>0, <1>1, <1>2 DEF WorkerInv, OneOffer
  <2>4. \A v \in Workers : Offered(v)' \subseteq Offered(v)
    BY <1>0, <1>1, <1>2, Zenon DEF Offered
  <2> QED
    BY <1>0, <1>2, <2>1, <2>2, <2>3, <2>4, OneOfferKept, Zenon
<1>12. \A v \in Workers, d \in Copies :
        job'[v][d] \in {"confirming", "settling"} => job'[v][d] = job[v][d]
  BY <1>1
<1> QED
  BY <1>0, <1>3, <1>5, <1>7, <1>8, <1>9, <1>10, <1>11, <1>12, QuietStep, Zenon

-----------------------------------------------------------------------------
(* The theorems.                                                           *)

\* The workers start with nothing stored, held or run.
LEMMA InitWorkerInv ==
    ASSUME Init PROVE WorkerInv /\ PoisonNeverRuns
<1>1. TypeOK
  BY WorkerConstants, Zenon DEF Init, TypeOK, Phases
<1>2. \A w \in Workers : Jobs(w) = {} /\ Offered(w) = {} /\ unacked[w] = {} /\ acks[w] = {}
  BY Zenon DEF Init, Jobs, Offered
<1>3. \A w \in Workers, c \in Copies : job[w][c] = "none"
  BY Zenon DEF Init
<1>4. WorkerShape /\ PrefetchIsWorkedOn /\ AcknowledgedIsCovered
  BY <1>2, <1>3, Zenon DEF Init, WorkerShape, PrefetchIsWorkedOn, AcknowledgedIsCovered
<1>5. DeathsWithinBudget /\ DeathsWereRuns
  BY <1>2, <1>3, Zenon DEF Init, DeathsWithinBudget, DeathsWereRuns
<1>6. ManualNeverLoses /\ BudgetIsSpent
  BY Zenon DEF Init, ManualNeverLoses, BudgetIsSpent
<1>7. \A m \in Messages : OnOfferOnce(m)
  BY <1>2 DEF Init, OnOfferOnce, Withdrawn
<1>8. OneOffer
  BY <1>3, <1>7, Zenon DEF Init, OneOffer, Waiting
<1>9. PoisonNeverRuns
  BY WorkerConstants, Zenon DEF Init, PoisonNeverRuns
<1> QED
  BY <1>1, <1>4, <1>5, <1>6, <1>8, <1>9, Zenon DEF WorkerInv

\* The only step that counts a run is a dispatch of a message that decodes.
LEMMA DispatchRuns ==
    ASSUME WorkerInv, NEW w \in Workers, NEW c \in Copies, Dispatch(w, c), PoisonNeverRuns
    PROVE  PoisonNeverRuns'
<1>1. runs' = runs \/ (c.msg \notin Poison /\ runs' = [runs EXCEPT ![c.msg] = @ + 1])
  BY Zenon DEF Dispatch, Decodes, HandlePoison, AckOnReceive, LeaveForRedelivery, RunHandler
<1>2. runs \in [Messages -> Nat] /\ Poison \subseteq Messages
  BY WorkerConstants, Zenon DEF WorkerInv, TypeOK
<1> QED
  BY <1>1, <1>2, Zenon DEF PoisonNeverRuns

\* Every step of a delivery keeps the invariant.
LEMMA JobStepKeeps ==
    ASSUME WorkerInv, PoisonNeverRuns, NEW w \in Workers, NEW c \in Copies, JobStep(w, c)
    PROVE  WorkerInv' /\ PoisonNeverRuns'
<1>1. CASE Take(w, c) \/ AcquirePermit(w, c)
  <2>1. WorkerInv'
    BY <1>1, TakeKeeps, Zenon
  <2>2. Dispatch(w, c) \/ runs' = runs
    BY <1>1, Zenon DEF Take, AcquirePermit, ghostVars
  <2> QED
    BY <2>1, <2>2, DispatchRuns, Zenon DEF PoisonNeverRuns
<1>2. CASE RetryCopyStored(w, c)
  BY <1>2, RetryCopyStoredKeeps, Zenon DEF RetryCopyStored, ghostVars, PoisonNeverRuns
<1>3. CASE DeadLetterStored(w, c)
  BY <1>3, DeadLetterStoredKeeps, Zenon DEF DeadLetterStored, PoisonNeverRuns
<1>4. CASE Confirmed(w, c)
  BY <1>4, ConfirmedKeeps, Zenon DEF Confirmed, ghostVars, PoisonNeverRuns
<1>5. CASE PublishLost(w, c) \/ PublishRefused(w, c)
  BY <1>5, FailedPublishKeeps, Zenon DEF PublishLost, PublishRefused, ghostVars, PoisonNeverRuns
<1>6. CASE Requeue(w, c)
  BY <1>6, RequeueKeeps, Zenon DEF Requeue, ghostVars, PoisonNeverRuns
<1>7. CASE SettleDelivery(w, c)
  BY <1>7, SettleDeliveryKeeps, Zenon DEF SettleDelivery, PoisonNeverRuns
<1>8. CASE Unroutable(w, c)
  BY <1>8, UnroutableKeeps, Zenon DEF Unroutable, PoisonNeverRuns
<1> QED
  BY <1>1, <1>2, <1>3, <1>4, <1>5, <1>6, <1>7, <1>8, Zenon DEF JobStep, SettlementStep

\* Every step of the broker keeps it.
LEMMA BrokerStepKeeps ==
    ASSUME WorkerInv, PoisonNeverRuns, BrokerStep
    PROVE  WorkerInv' /\ PoisonNeverRuns'
<1>1. CASE \E c \in wait : Expire(c)
  BY <1>1, ExpireKeeps, Zenon DEF Expire, ghostVars, PoisonNeverRuns
<1>2. CASE \E w \in Workers : \E c \in queue : Deliver(w, c)
  BY <1>2, DeliverKeeps, Zenon DEF Deliver, ghostVars, PoisonNeverRuns
<1>3. CASE \E w \in Workers : \E c \in acks[w] : AckArrives(w, c)
  BY <1>3, AckArrivesKeeps, Zenon DEF AckArrives, ghostVars, PoisonNeverRuns
<1>4. CASE \E w \in Workers : ConnectionLost(w)
  BY <1>4, ConnectionLostKeeps, Zenon DEF ConnectionLost, PoisonNeverRuns
<1>5. CASE \E w \in Workers : ConnectionNoticed(w)
  BY <1>5, ConnectionNoticedKeeps, Zenon DEF ConnectionNoticed, ghostVars, PoisonNeverRuns
<1> QED
  BY <1>1, <1>2, <1>3, <1>4, <1>5, Zenon DEF BrokerStep

\* Every step of the loop, its end and its restart keep it.
LEMMA WorkerStepKeeps ==
    ASSUME WorkerInv, PoisonNeverRuns, NEW w \in Workers, WorkerStep(w)
    PROVE  WorkerInv' /\ PoisonNeverRuns'
<1>1. CASE Cancel(w)
  BY <1>1, CancelKeeps, Zenon DEF Cancel, ghostVars, PoisonNeverRuns
<1>2. CASE LeaveLoop(w)
  BY <1>2, LeaveLoopKeeps, Zenon DEF LeaveLoop, ghostVars, PoisonNeverRuns
<1>3. CASE Drained(w) \/ GraceExpires(w)
  BY <1>3, ReturnKeeps, Zenon DEF Drained, GraceExpires, Return, ghostVars, PoisonNeverRuns
<1>4. CASE Crash(w)
  BY <1>4, CrashKeeps, Zenon DEF Crash, PoisonNeverRuns
<1>5. CASE Start(w)
  BY <1>5, StartKeeps, Zenon DEF Start, ghostVars, PoisonNeverRuns
<1> QED
  BY <1>1, <1>2, <1>3, <1>4, <1>5, Zenon DEF WorkerStep

\* The invariant is inductive.
LEMMA NextKeepsWorkerInv ==
    ASSUME WorkerInv, PoisonNeverRuns, [Next]_vars
    PROVE  WorkerInv' /\ PoisonNeverRuns'
<1>1. CASE BrokerStep
  BY <1>1, BrokerStepKeeps, Zenon
<1>2. CASE \E w \in Workers : \E c \in Jobs(w) : JobStep(w, c)
  BY <1>2, JobStepKeeps, Zenon DEF Jobs
<1>3. CASE \E w \in Workers : WorkerStep(w)
  BY <1>3, WorkerStepKeeps, Zenon
<1>4. CASE \E m \in Messages : Publish(m)
  BY <1>4, PublishKeeps, Zenon DEF Publish, PoisonNeverRuns
<1>5. CASE \E w \in Workers : \E c \in Jobs(w), outcome \in Outcomes :
             HandlerReturns(w, c, outcome)
  BY <1>5, HandlerReturnsKeeps, Zenon DEF Jobs, HandlerReturns, PoisonNeverRuns
<1>6. CASE UNCHANGED vars
  <2>1. /\ mode' = mode /\ queue' = queue /\ wait' = wait /\ unacked' = unacked /\ acks' = acks
        /\ chan' = chan /\ loop' = loop /\ cancelled' = cancelled /\ job' = job
        /\ faults' = faults /\ cancels' = cancels /\ sent' = sent /\ runs' = runs
        /\ handled' = handled /\ buried' = buried /\ excused' = excused
        /\ hopeless' = hopeless /\ ackLost' = ackLost
    BY <1>6, Zenon DEF vars, brokerVars, workerVars, ghostVars
  <2>2. \A v \in Workers : Jobs(v)' = Jobs(v) /\ Offered(v)' = Offered(v)
    BY <2>1, Zenon DEF Jobs, Offered
  <2>3. \A m \in Messages : OnOfferOnce(m) => OnOfferOnce(m)'
    BY <2>1, <2>2 DEF OnOfferOnce, Withdrawn
  <2>4. \A c \in Copies : Covered(c) => Covered(c)'
    BY <2>1, Zenon DEF Covered
  <2>5. TypeOK' /\ WorkerShape'
    BY <2>1, <2>2, ZenonT(60) DEF WorkerInv, TypeOK, WorkerShape
  <2>6. DeathsWithinBudget' /\ DeathsWereRuns'
    BY <2>1, <2>2, ZenonT(60) DEF WorkerInv, DeathsWithinBudget, DeathsWereRuns
  <2>7. AcknowledgedIsCovered' /\ OneOffer'
    BY <2>1, <2>3, <2>4, ZenonT(60) DEF WorkerInv, AcknowledgedIsCovered, OneOffer
  <2>8. ManualNeverLoses' /\ PrefetchIsWorkedOn' /\ BudgetIsSpent' /\ PoisonNeverRuns'
    BY <2>1, <2>2 DEF WorkerInv, ManualNeverLoses, Held, PrefetchIsWorkedOn, BudgetIsSpent,
                      PoisonNeverRuns
  <2> QED
    BY <2>5, <2>6, <2>7, <2>8, Zenon DEF WorkerInv
<1> QED
  BY <1>1, <1>2, <1>3, <1>4, <1>5, <1>6, Zenon DEF Next, Delivery

\* The inductive invariant holds of the workers of one queue, for any number
\* of workers, messages, faults and cancellations.
THEOREM WorkerInvariant == Spec => [](WorkerInv /\ PoisonNeverRuns)
<1>1. Init => WorkerInv /\ PoisonNeverRuns
  BY InitWorkerInv, Zenon
<1>2. (WorkerInv /\ PoisonNeverRuns) /\ [Next]_vars => (WorkerInv /\ PoisonNeverRuns)'
  BY NextKeepsWorkerInv, Zenon
<1> QED
  BY <1>1, <1>2, PTL DEF Spec

\* AckMode::Manual is at-least-once: whatever fails between the retry copy or
\* the dead letter that retry_core and exhausted_core publish and the
\* acknowledgement that follows, a message is settled or stored.
THEOREM ManualIsAtLeastOnce == Spec => []ManualNeverLoses
<1>1. WorkerInv => ManualNeverLoses
  BY Zenon DEF WorkerInv
<1> QED
  BY <1>1, WorkerInvariant, PTL

\* No path through dispatch, route_failure and nack_after_failed_publish
\* returns from a delivery that still counts against the prefetch window of
\* an open channel.
THEOREM WindowHoldsOnlyWork == Spec => []PrefetchIsWorkedOn
<1>1. WorkerInv => PrefetchIsWorkedOn
  BY Zenon DEF WorkerInv
<1> QED
  BY <1>1, WorkerInvariant, PTL

\* The attempts that route_failure reads from x-death are runs of the handler:
\* a message is given up for its budget only after max_attempts of them.
THEOREM BurialTakesTheBudget == Spec => []BudgetIsSpent
<1>1. WorkerInv => BudgetIsSpent
  BY Zenon DEF WorkerInv
<1> QED
  BY <1>1, WorkerInvariant, PTL

\* AckOnReceive and Unacknowledged are at-most-once but for acknowledgements
\* that are lost with their connection.
THEOREM EarlyAckIsAtMostOnce == Spec => []AtMostOnce
<1>1. WorkerInv /\ PoisonNeverRuns => AtMostOnce
  <2> SUFFICES ASSUME WorkerInv, PoisonNeverRuns, mode # "Manual",
                      NEW m \in Messages, runs[m] > 1, m \notin ackLost
               PROVE  FALSE
    BY Zenon DEF AtMostOnce
  <2>1. CASE m \in Poison
    BY <2>1 DEF PoisonNeverRuns
  <2>2. CASE m \notin Poison
    <3>1. OnOfferOnce(m) /\ runs[m] \in Nat
      BY <2>2, Zenon DEF WorkerInv, OneOffer, TypeOK
    <3> QED
      BY <3>1 DEF OnOfferOnce
  <2> QED
    BY <2>1, <2>2, Zenon
<1> QED
  BY <1>1, WorkerInvariant, PTL

-----------------------------------------------------------------------------
(* The places of a message while nothing fails.                            *)

\* What an element of Tokens(m) is.
LEMMA TokenIs ==
    ASSUME NEW m, NEW t
    PROVE  t \in Tokens(m) <=>
              \/ \E c \in queue : c.msg = m /\ t = <<"queue", {}, c>>
              \/ \E c \in wait : c.msg = m /\ t = <<"wait", {}, c>>
              \/ \E w \in Workers, c \in Copies :
                    /\ c.msg = m /\ job[w][c] \in {"buffered", "handling", "retrying"}
                    /\ t = <<job[w][c], {w}, c>>
BY DEF Tokens

\* A message that goes nowhere keeps its place.
LEMMA PlaceKept ==
    ASSUME NEW m, OnePlace(m), Tokens(m)' \subseteq Tokens(m), runs'[m] = runs[m]
    PROVE  OnePlace(m)'
<1> SUFFICES ASSUME NEW t \in Tokens(m)'
             PROVE  runs'[m] = RunsBehind(t) /\ \A s \in Tokens(m)' : s = t
  BY Zenon DEF OnePlace, RunsBehind
<1> QED
  BY Zenon DEF OnePlace

\* A message that moves has its new place for the old one.
LEMMA PlaceMoved ==
    ASSUME NEW m, OnePlace(m), NEW s \in Tokens(m), NEW t,
           \A x \in Tokens(m)' : x = t \/ (x \in Tokens(m) /\ x # s),
           runs'[m] = RunsBehind(t)
    PROVE  OnePlace(m)'
<1>1. \A x \in Tokens(m)' : x = t
  BY Zenon DEF OnePlace
<1> QED
  BY <1>1, Zenon DEF OnePlace, RunsBehind

\* The places of messages when a delivery moves on, and perhaps a retry copy of
\* it is stored.
LEMMA TokensOfJob ==
    ASSUME TypeOK, NEW w \in Workers, NEW c \in Copies, NEW p \in Phases, SetJob(w, c, p),
           queue' = queue, \A d \in wait' \ wait : d.msg = c.msg
    PROVE  \A m \in Messages : \A x \in Tokens(m)' :
              \/ x \in Tokens(m) /\ x # <<job[w][c], {w}, c>>
              \/ m = c.msg /\ p \in {"buffered", "handling", "retrying"} /\ x = <<p, {w}, c>>
              \/ m = c.msg /\ \E d \in wait' \ wait : x = <<"wait", {}, d>>
<1> SUFFICES ASSUME NEW m \in Messages, NEW x \in Tokens(m)'
             PROVE  \/ x \in Tokens(m) /\ x # <<job[w][c], {w}, c>>
                    \/ m = c.msg /\ p \in {"buffered", "handling", "retrying"} /\ x = <<p, {w}, c>>
                    \/ m = c.msg /\ \E d \in wait' \ wait : x = <<"wait", {}, d>>
  BY Zenon
<1>1. /\ job'[w][c] = p
      /\ \A v \in Workers, d \in Copies : v # w \/ d # c => job'[v][d] = job[v][d]
  BY JobSet, ZenonT(60)
<1>2. \/ \E d \in queue : d.msg = m /\ x = <<"queue", {}, d>>
      \/ \E d \in wait' : d.msg = m /\ x = <<"wait", {}, d>>
      \/ \E v \in Workers, d \in Copies :
            /\ d.msg = m /\ job'[v][d] \in {"buffered", "handling", "retrying"}
            /\ x = <<job'[v][d], {v}, d>>
  BY DEF Tokens
<1>3. ASSUME NEW d \in queue, d.msg = m, x = <<"queue", {}, d>>
      PROVE  x \in Tokens(m) /\ x # <<job[w][c], {w}, c>>
  BY <1>3, TokenIs
<1>4. ASSUME NEW d \in wait, d.msg = m, x = <<"wait", {}, d>>
      PROVE  x \in Tokens(m) /\ x # <<job[w][c], {w}, c>>
  BY <1>4, TokenIs
<1>5. ASSUME NEW v \in Workers, NEW d \in Copies, d.msg = m, v # w \/ d # c,
             job'[v][d] \in {"buffered", "handling", "retrying"}, x = <<job'[v][d], {v}, d>>
      PROVE  x \in Tokens(m) /\ x # <<job[w][c], {w}, c>>
  <2>1. job'[v][d] = job[v][d]
    BY <1>1, <1>5, Zenon
  <2>2. x = <<job[v][d], {v}, d>>
    BY <1>5, <2>1, Zenon
  <2>3. x # <<job[w][c], {w}, c>>
    BY <1>5, <2>2
  <2>4. x \in Tokens(m)
    BY <1>5, <2>1, <2>2, TokenIs
  <2> QED
    BY <2>3, <2>4, Zenon
<1>6. ASSUME c.msg = m, job'[w][c] \in {"buffered", "handling", "retrying"},
             x = <<job'[w][c], {w}, c>>
      PROVE  m = c.msg /\ p \in {"buffered", "handling", "retrying"} /\ x = <<p, {w}, c>>
  BY <1>1, <1>6, Zenon
<1>7. ASSUME NEW d \in wait' \ wait, d.msg = m, x = <<"wait", {}, d>>
      PROVE  m = c.msg /\ x = <<"wait", {}, d>>
  BY <1>7, Zenon
<1> QED
  BY <1>2, <1>3, <1>4, <1>5, <1>6, <1>7, Zenon
\* A delivery moves on while nothing fails.
LEMMA CalmOfJob ==
    ASSUME WorkerInv, Calm, NEW w \in Workers, NEW c \in Copies, NEW p \in Phases,
           SetJob(w, c, p), p # "requeueing",
           UNCHANGED <<mode, chan, loop, ackLost>>,
           mode = "Manual" =>
              /\ p \in Waiting \/ job[w][c] \notin Waiting \/ loop[w] = "running"
              /\ \A m \in Messages : OnePlace(m)'
    PROVE  Calm'
<1>1. /\ job'[w][c] = p
      /\ \A v \in Workers, d \in Copies : v # w \/ d # c => job'[v][d] = job[v][d]
  BY JobSet, ZenonT(60) DEF WorkerInv
<1>2. \A v \in Workers, d \in Copies : job'[v][d] # "requeueing"
  BY <1>1, ZenonT(60) DEF Calm
<1>3. ASSUME mode = "Manual", NEW v \in Workers, loop[v] = "draining" PROVE Running(v)' = {}
  <2>1. Running(v) = {}
    BY <1>3, Zenon DEF Calm
  <2>2. ASSUME NEW d \in Copies, job'[v][d] \notin Waiting PROVE FALSE
    <3>1. job[v][d] \in Waiting
      BY <2>1, Zenon DEF Running
    <3>2. v = w /\ d = c /\ p \notin Waiting
      BY <1>1, <2>2, <3>1, Zenon
    <3> QED
      BY <1>3, <3>1, <3>2
  <2> QED
    BY <2>2, Zenon DEF Running
<1> QED
  BY <1>2, <1>3, Zenon DEF Calm

\* A delivery whose message needs no further run moves on.
LEMMA CalmOfDone ==
    ASSUME WorkerInv, Calm, NEW w \in Workers, NEW c \in Copies, NEW p \in Phases,
           SetJob(w, c, p), p \notin {"requeueing", "buffered", "handling", "retrying"},
           UNCHANGED <<mode, chan, loop, ackLost, queue, wait, runs>>,
           p \in Waiting \/ job[w][c] \notin Waiting \/ loop[w] = "running"
    PROVE  Calm'
<1>1. ASSUME NEW m \in Messages, mode = "Manual" PROVE OnePlace(m)'
  <2>1. TypeOK /\ \A d \in wait' \ wait : d.msg = c.msg
    BY Zenon DEF WorkerInv
  <2>2. ASSUME NEW x \in Tokens(m)' PROVE x \in Tokens(m)
    <3>1. \/ x \in Tokens(m) /\ x # <<job[w][c], {w}, c>>
          \/ m = c.msg /\ p \in {"buffered", "handling", "retrying"} /\ x = <<p, {w}, c>>
          \/ m = c.msg /\ \E d \in wait' \ wait : x = <<"wait", {}, d>>
      BY <2>1, <2>2, TokensOfJob
    <3> QED
      BY <3>1, Zenon
  <2>3. Tokens(m)' \subseteq Tokens(m)
    BY <2>2, Zenon
  <2> QED
    BY <1>1, <2>3, PlaceKept, Zenon DEF Calm
<1> QED
  BY <1>1, CalmOfJob, Zenon

\* The token of a delivery.
LEMMA JobIsToken ==
    ASSUME NEW w \in Workers, NEW c \in Copies,
           job[w][c] \in {"buffered", "handling", "retrying"}
    PROVE  <<job[w][c], {w}, c>> \in Tokens(c.msg)
BY TokenIs

\* A delivery whose message may still need a run moves on.
LEMMA CalmOfLive ==
    ASSUME WorkerInv, Calm, NEW w \in Workers, NEW c \in Copies, NEW p \in Phases,
           SetJob(w, c, p), p # "requeueing", p # "buffered",
           job[w][c] \in {"buffered", "handling", "retrying"},
           UNCHANGED <<mode, chan, loop, ackLost, queue>>,
           NEW t, \A d \in wait' \ wait : d.msg = c.msg /\ t = <<"wait", {}, d>>,
           p \in {"handling", "retrying"} => t = <<p, {w}, c>>,
           \A m \in Messages : m # c.msg => runs'[m] = runs[m],
           mode = "Manual" => runs'[c.msg] = RunsBehind(t),
           p \in Waiting \/ job[w][c] \notin Waiting \/ loop[w] = "running"
    PROVE  Calm'
<1>0. TypeOK /\ \A d \in wait' \ wait : d.msg = c.msg
  BY Zenon DEF WorkerInv
<1>1. ASSUME NEW m \in Messages, mode = "Manual", m # c.msg PROVE OnePlace(m)'
  <2>1. ASSUME NEW x \in Tokens(m)' PROVE x \in Tokens(m)
    <3>1. \/ x \in Tokens(m) /\ x # <<job[w][c], {w}, c>>
          \/ m = c.msg /\ p \in {"buffered", "handling", "retrying"} /\ x = <<p, {w}, c>>
          \/ m = c.msg /\ \E d \in wait' \ wait : x = <<"wait", {}, d>>
      BY <1>0, <2>1, TokensOfJob
    <3> QED
      BY <1>1, <3>1, Zenon
  <2>2. Tokens(m)' \subseteq Tokens(m)
    BY <2>1, Zenon
  <2> QED
    BY <1>1, <2>2, PlaceKept, Zenon DEF Calm
<1>2. ASSUME mode = "Manual" PROVE OnePlace(c.msg)'
  <2>1. OnePlace(c.msg)
    BY <1>2, CopyFields, Zenon DEF Calm
  <2> DEFINE s == <<job[w][c], {w}, c>>
  <2>2. s \in Tokens(c.msg)
    BY JobIsToken, Zenon
  <2>3. ASSUME NEW x \in Tokens(c.msg)' PROVE x = t \/ (x \in Tokens(c.msg) /\ x # s)
    <3>1. \/ x \in Tokens(c.msg) /\ x # s
          \/ p \in {"buffered", "handling", "retrying"} /\ x = <<p, {w}, c>>
          \/ \E d \in wait' \ wait : x = <<"wait", {}, d>>
      BY <1>0, <2>3, CopyFields, TokensOfJob
    <3> QED
      BY <3>1, Zenon
  <2> HIDE DEF s
  <2> QED
    BY <1>2, <2>1, <2>2, <2>3, PlaceMoved, Zenon
<1> QED
  BY <1>1, <1>2, CalmOfJob, Zenon

\* What a token says about the runs of its message.
LEMMA TokenCounts ==
    ASSUME WorkerInv, Calm, mode = "Manual", NEW w \in Workers, NEW c \in Copies
    PROVE  /\ job[w][c] = "buffered" => runs[c.msg] = c.deaths
           /\ job[w][c] \in {"handling", "retrying"} => runs[c.msg] = c.deaths + 1
<1>1. OnePlace(c.msg)
  BY CopyFields, Zenon DEF Calm
<1>2. CASE job[w][c] \in {"buffered", "handling", "retrying"}
  <2>1. runs[c.msg] = RunsBehind(<<job[w][c], {w}, c>>)
    BY <1>1, <1>2, JobIsToken, Zenon DEF OnePlace
  <2> QED
    BY <1>2, <2>1 DEF RunsBehind
<1> QED
  BY <1>2, Zenon

\* A dispatch, while nothing fails, takes the message one run further; a
\* manual delivery has had as many as it has died, which is less than the
\* budget.
LEMMA CalmDispatch ==
    ASSUME WorkerInv, Calm, NEW w \in Workers, NEW c \in Copies, Dispatch(w, c),
           job[w][c] \in {"buffered", "held"}, loop[w] = "running"
    PROVE  /\ Calm'
           /\ mode = "Manual" /\ (\A m \in Messages : runs[m] <= MaxAttempts)
              => \A m \in Messages : runs'[m] <= MaxAttempts
<1>0. /\ UNCHANGED <<mode, queue, wait, chan, loop>> /\ chan[w] = "open"
      /\ mode = "Manual" => job[w][c] = "buffered"
  BY Zenon DEF Dispatch, Calm, WorkerInv, WorkerShape
<1>1. CASE ~Decodes(c) /\ HandlePoison(w, c)
  <2> DEFINE p == IF HasDeadLetter THEN "burying"
                  ELSE IF mode = "Unacknowledged" THEN "none" ELSE "settling"
  <2>1. SetJob(w, c, p) /\ UNCHANGED <<runs, ackLost>>
    BY <1>1, Zenon DEF HandlePoison
  <2>2. p \in Phases /\ p \notin {"requeueing", "buffered", "handling", "retrying"}
    BY DEF Phases
  <2> HIDE DEF p
  <2>3. Calm'
    BY <1>0, <2>1, <2>2, CalmOfDone, Zenon
  <2> QED
    BY <2>1, <2>3, Zenon
<1>2. CASE Decodes(c) /\ mode = "AckOnReceive" /\ AckOnReceive(w, c)
  <2>1. Settle(w, c) /\ SetJob(w, c, "handling") /\ "handling" \in Phases
    BY <1>0, <1>2 DEF AckOnReceive, RunHandler, Phases
  <2>2. ackLost' = ackLost
    BY <1>0, <2>1, SettleFacts
  <2>3. mode # "Manual" /\ "handling" # "requeueing"
    BY <1>2
  <2> QED
    BY <1>0, <2>1, <2>2, <2>3, CalmOfJob, Zenon
<1>3. CASE RunHandler(w, c) /\ UNCHANGED ackLost
  <2>1. SetJob(w, c, "handling") /\ "handling" \in Phases /\ "handling" # "requeueing"
    BY <1>3 DEF RunHandler, Phases
  <2>2. CASE mode # "Manual"
    BY <1>0, <1>3, <2>1, <2>2, CalmOfJob, Zenon
  <2>3. CASE mode = "Manual"
    <3>1. /\ runs' = [runs EXCEPT ![c.msg] = @ + 1]
          /\ runs \in [Messages -> Nat] /\ c.msg \in Messages /\ c.deaths \in Nat
      BY <1>3, CopyFields, WorkerConstants DEF RunHandler, WorkerInv, TypeOK
    <3>2. runs[c.msg] = c.deaths
      BY <1>0, <2>3, TokenCounts, Zenon
    <3>3. runs'[c.msg] = c.deaths + 1 /\ \A m \in Messages : m # c.msg => runs'[m] = runs[m]
      BY <3>1, <3>2
    <3> DEFINE t == <<"handling", {w}, c>>
    <3>4. runs'[c.msg] = RunsBehind(t)
      BY <3>3 DEF RunsBehind
    <3>5. c.deaths + 1 <= MaxAttempts
      <4>1. c.deaths < MaxAttempts
        BY <1>0, <2>3 DEF WorkerInv, DeathsWithinBudget, Jobs
      <4> QED
        BY <3>1, <4>1, WorkerConstants
    <3>6. (\A m \in Messages : runs[m] <= MaxAttempts)
          => \A m \in Messages : runs'[m] <= MaxAttempts
      BY <3>3, <3>5, Zenon
    <3> HIDE DEF t
    <3>7. t = <<"handling", {w}, c>>
      BY Zenon DEF t
    <3>8. \A d \in wait' \ wait : d.msg = c.msg /\ t = <<"wait", {}, d>>
      BY <1>0, Zenon
    <3>9. Calm'
      BY <1>0, <1>3, <2>1, <2>3, <3>3, <3>4, <3>7, <3>8, CalmOfLive, SMTT(20)
    <3> QED
      BY <3>6, <3>9, Zenon
  <2> QED
    BY <2>2, <2>3, Zenon
<1> QED
  BY <1>1, <1>2, <1>3, Zenon DEF Dispatch

\* The return of a handler, while nothing fails.
LEMMA CalmHandlerReturns ==
    ASSUME WorkerInv, Calm, NEW w \in Workers, NEW c \in Copies, NEW outcome,
           HandlerReturns(w, c, outcome)
    PROVE  Calm'
<1>0. /\ UNCHANGED <<mode, queue, wait, chan, loop, ackLost, runs>> /\ job[w][c] = "handling"
  BY Zenon DEF HandlerReturns, brokerVars
<1>1. "handling" \notin Waiting
  BY DEF Waiting
<1>2. PICK p \in {"none", "settling", "burying", "retrying"} :
         SetJob(w, c, p) /\ (p = "retrying" => mode = "Manual")
  BY Zenon DEF HandlerReturns, ManualOutcome
<1>3. CASE p = "retrying"
  <2> DEFINE t == <<"retrying", {w}, c>>
  <2>1. runs'[c.msg] = RunsBehind(t)
    BY <1>0, <1>2, <1>3, TokenCounts DEF RunsBehind
  <2> HIDE DEF t
  <2>2. /\ t = <<p, {w}, c>> /\ p \in Phases /\ p # "requeueing" /\ p # "buffered"
        /\ \A d \in wait' \ wait : d.msg = c.msg /\ t = <<"wait", {}, d>>
        /\ \A m \in Messages : m # c.msg => runs'[m] = runs[m]
    BY <1>0, <1>3 DEF t, Phases
  <2>3. /\ job[w][c] \in {"buffered", "handling", "retrying"} /\ job[w][c] \notin Waiting
        /\ SetJob(w, c, p) /\ UNCHANGED <<mode, chan, loop, ackLost, queue>>
    BY <1>0, <1>1, <1>2, Zenon
  <2> QED
    BY <2>1, <2>2, <2>3, CalmOfLive, SMTT(20)
<1>4. CASE p # "retrying"
  <2>1. p \in Phases /\ p \notin {"requeueing", "buffered", "handling", "retrying"}
    BY <1>4 DEF Phases
  <2> QED
    BY <1>0, <1>1, <1>2, <2>1, CalmOfDone, Zenon
<1> QED
  BY <1>3, <1>4, Zenon

\* The publications and the acknowledgement after a handler, none of them lost.
LEMMA CalmSettlement ==
    ASSUME WorkerInv, Calm, NEW w \in Workers, NEW c \in Copies, SettlementStep(w, c)
    PROVE  Calm'
<1>0. job[w][c] # "none" => chan[w] = "open" /\ chan[w] # "closed"
  <2>1. ASSUME job[w][c] # "none" PROVE loop[w] # "stopped"
    BY <2>1, ZenonT(60) DEF WorkerInv, WorkerShape, Jobs
  <2> QED
    BY <2>1 DEF Calm
<1>1. CASE RetryCopyStored(w, c)
  <2>1. /\ UNCHANGED <<mode, queue, chan, loop, ackLost, runs>>
        /\ job[w][c] = "retrying" /\ SetJob(w, c, "confirming")
    BY <1>1, Zenon DEF RetryCopyStored, ghostVars
  <2>2. PICK d \in Copies : d.msg = c.msg /\ d.deaths = c.deaths /\ wait' = wait \cup {d}
    BY <1>1, Zenon DEF RetryCopyStored, Fresh
  <2> DEFINE t == <<"wait", {}, d>>
  <2>3. mode = "Manual" => runs'[c.msg] = RunsBehind(t)
    BY <2>1, <2>2, TokenCounts DEF RunsBehind
  <2> HIDE DEF t
  <2>4. /\ \A e \in wait' \ wait : e.msg = c.msg /\ t = <<"wait", {}, e>>
        /\ \A m \in Messages : m # c.msg => runs'[m] = runs[m]
    BY <2>1, <2>2, Zenon DEF t
  <2>5. /\ "confirming" \in Phases /\ "confirming" \notin {"requeueing", "buffered", "handling", "retrying"}
        /\ job[w][c] \notin Waiting /\ job[w][c] \in {"buffered", "handling", "retrying"}
    BY <2>1 DEF Phases, Waiting
  <2> QED
    BY <2>1, <2>3, <2>4, <2>5, CalmOfLive, SMTT(20)
<1>2. CASE DeadLetterStored(w, c) \/ Confirmed(w, c)
  <2>1. PICK p \in {"confirming", "none", "settling"} :
           /\ SetJob(w, c, p) /\ job[w][c] \in {"burying", "confirming"}
           /\ UNCHANGED <<mode, queue, wait, chan, loop, ackLost, runs>>
    BY <1>2, Zenon DEF DeadLetterStored, Confirmed, brokerVars, ghostVars
  <2>2. /\ p \in Phases /\ p \notin {"requeueing", "buffered", "handling", "retrying"}
        /\ job[w][c] \notin Waiting
    BY <2>1 DEF Phases, Waiting
  <2> QED
    BY <2>1, <2>2, CalmOfDone, Zenon
<1>3. CASE PublishLost(w, c)
  <2>1. job[w][c] # "none" /\ chan[w] = "closed"
    BY <1>3 DEF PublishLost
  <2> QED
    BY <1>0, <2>1, Zenon
<1>4. CASE Requeue(w, c)
  BY <1>4, Zenon DEF Requeue, Calm
<1>5. CASE SettleDelivery(w, c)
  <2>1. /\ job[w][c] = "settling" /\ SetJob(w, c, "none") /\ Settle(w, c)
        /\ UNCHANGED <<mode, queue, wait, chan, loop, runs>>
    BY <1>5, Zenon DEF SettleDelivery
  <2>2. ackLost' = ackLost
    <3>1. chan[w] = "open"
      BY <1>0, <2>1
    <3> QED
      BY <2>1, <3>1, SettleFacts
  <2>3. /\ "none" \in Phases /\ "none" \notin {"requeueing", "buffered", "handling", "retrying"}
        /\ "none" \in Waiting
    BY DEF Phases, Waiting
  <2> QED
    BY <2>1, <2>2, <2>3, CalmOfDone, Zenon
<1> QED
  BY <1>1, <1>2, <1>3, <1>4, <1>5, Zenon DEF SettlementStep

\* A delivery takes its message from the queue to the buffer of a worker.
LEMMA CalmDeliver ==
    ASSUME WorkerInv, Calm, NEW w \in Workers, NEW c \in queue, Deliver(w, c)
    PROVE  Calm'
<1>0. /\ c \in Copies /\ TypeOK /\ "buffered" \in Phases /\ "buffered" \in Waiting
      /\ "buffered" # "requeueing"
  BY DEF WorkerInv, TypeOK, Phases, Waiting
<1>1. /\ UNCHANGED <<mode, wait, chan, loop, ackLost, runs>>
      /\ SetJob(w, c, "buffered") /\ queue' = queue \ {c}
  BY Zenon DEF Deliver, ghostVars
<1>2. /\ job'[w][c] = "buffered"
      /\ \A v \in Workers, d \in Copies : v # w \/ d # c => job'[v][d] = job[v][d]
  BY <1>0, <1>1, JobSet, ZenonT(60)
<1> DEFINE s == <<"queue", {}, c>>
           t == <<"buffered", {w}, c>>
<1>3. ASSUME NEW m \in Messages, NEW x \in Tokens(m)'
      PROVE  (m = c.msg /\ x = t) \/ (x \in Tokens(m) /\ x # s)
  <2>1. \/ \E d \in queue' : d.msg = m /\ x = <<"queue", {}, d>>
        \/ \E d \in wait : d.msg = m /\ x = <<"wait", {}, d>>
        \/ \E v \in Workers, d \in Copies :
              /\ d.msg = m /\ job'[v][d] \in {"buffered", "handling", "retrying"}
              /\ x = <<job'[v][d], {v}, d>>
    BY <1>1, <1>3, Zenon DEF Tokens
  <2>2. ASSUME NEW d \in queue', d.msg = m, x = <<"queue", {}, d>>
        PROVE  x \in Tokens(m) /\ x # s
    BY <1>1, <2>2, TokenIs, Zenon
  <2>3. ASSUME NEW d \in wait, d.msg = m, x = <<"wait", {}, d>>
        PROVE  x \in Tokens(m) /\ x # s
    BY <2>3, TokenIs
  <2>4. ASSUME NEW v \in Workers, NEW d \in Copies, d.msg = m, v # w \/ d # c,
               job'[v][d] \in {"buffered", "handling", "retrying"}, x = <<job'[v][d], {v}, d>>
        PROVE  x \in Tokens(m) /\ x # s
    <3>1. job'[v][d] = job[v][d]
      BY <1>2, <2>4, ZenonT(60)
    <3>2. x \in Tokens(m)
      BY <2>4, <3>1, TokenIs
    <3>3. x # s
      BY <2>4
    <3> QED
      BY <3>2, <3>3, Zenon
  <2>5. ASSUME c.msg = m, x = <<job'[w][c], {w}, c>>
        PROVE  m = c.msg /\ x = t
    BY <1>2, <2>5, Zenon
  <2> QED
    BY <2>1, <2>2, <2>3, <2>4, <2>5, Zenon
<1>4. ASSUME mode = "Manual", NEW m \in Messages PROVE OnePlace(m)'
  <2>1. OnePlace(m) /\ runs'[m] = runs[m]
    BY <1>1, <1>4, Zenon DEF Calm
  <2>2. CASE m = c.msg
    <3>1. s \in Tokens(m)
      BY <2>2, TokenIs
    <3>2. runs'[m] = RunsBehind(t)
      <4>1. runs[m] = RunsBehind(s)
        BY <2>1, <3>1, Zenon DEF OnePlace
      <4> QED
        BY <2>1, <4>1 DEF RunsBehind
    <3>3. \A x \in Tokens(m)' : x = t \/ (x \in Tokens(m) /\ x # s)
      BY <1>3, <1>4, Zenon
    <3> HIDE DEF s, t
    <3> QED
      BY <2>1, <3>1, <3>2, <3>3, PlaceMoved, Zenon
  <2>3. CASE m # c.msg
    <3>1. Tokens(m)' \subseteq Tokens(m)
      BY <1>3, <1>4, <2>3, Zenon
    <3> QED
      BY <2>1, <3>1, PlaceKept, Zenon
  <2> QED
    BY <2>2, <2>3, Zenon
<1> QED
  BY <1>0, <1>1, <1>4, CalmOfJob, ZenonT(60)

\* A step that leaves the deliveries as they are, or gives some up, and takes a
\* message at most from one stored place to another.
LEMMA CalmStored ==
    ASSUME WorkerInv, Calm, UNCHANGED <<mode, ackLost, runs>>,
           \A v \in Workers : chan'[v] = "open" \/ loop'[v] = "stopped",
           \A v \in Workers, d \in Copies : job'[v][d] \in {job[v][d], "none"},
           mode = "Manual" =>
              /\ \A v \in Workers : loop'[v] = "draining" => loop[v] = "draining" \/ Running(v) = {}
              /\ \A m \in Messages : OnePlace(m)'
    PROVE  Calm'
<1>1. \A v \in Workers, d \in Copies : job'[v][d] # "requeueing"
  <2> SUFFICES ASSUME NEW v \in Workers, NEW d \in Copies PROVE job'[v][d] # "requeueing"
    OBVIOUS
  <2>1. job[v][d] # "requeueing" /\ job'[v][d] \in {job[v][d], "none"}
    BY Zenon DEF Calm
  <2> QED
    BY <2>1
<1>2. ASSUME mode = "Manual", NEW v \in Workers, loop'[v] = "draining" PROVE Running(v)' = {}
  <2>1. Running(v) = {}
    BY <1>2, Zenon DEF Calm
  <2>2. ASSUME NEW d \in Copies PROVE job'[v][d] \in Waiting
    <3>1. job[v][d] \in Waiting /\ "none" \in Waiting
      BY <2>1, Zenon DEF Running, Waiting
    <3> QED
      BY <3>1, Zenon
  <2> QED
    BY <2>2, Zenon DEF Running
<1> QED
  BY <1>1, <1>2, Zenon DEF Calm

\* The broker returns an expired retry copy to the queue, one death older.
LEMMA CalmExpire ==
    ASSUME WorkerInv, Calm, NEW c \in wait, Expire(c)
    PROVE  Calm'
<1>0. /\ c \in Copies /\ c.deaths \in Nat
      /\ UNCHANGED <<mode, job, chan, loop, ackLost, runs>> /\ wait' = wait \ {c}
  BY CopyFields, WorkerConstants DEF Expire, ghostVars, workerVars, WorkerInv, TypeOK
<1>1. PICK d \in Copies : d.msg = c.msg /\ d.deaths = c.deaths + 1 /\ queue' = queue \cup {d}
  BY Zenon DEF Expire, Fresh
<1> DEFINE s == <<"wait", {}, c>>
           t == <<"queue", {}, d>>
<1>3. ASSUME NEW m \in Messages, NEW x \in Tokens(m)'
      PROVE  (m = c.msg /\ x = t) \/ (x \in Tokens(m) /\ x # s)
  <2>1. \/ \E e \in queue \cup {d} : e.msg = m /\ x = <<"queue", {}, e>>
        \/ \E e \in wait \ {c} : e.msg = m /\ x = <<"wait", {}, e>>
        \/ \E v \in Workers, e \in Copies :
              /\ e.msg = m /\ job[v][e] \in {"buffered", "handling", "retrying"}
              /\ x = <<job[v][e], {v}, e>>
    BY <1>0, <1>1, <1>3 DEF Tokens
  <2>2. ASSUME NEW e \in queue \cup {d}, e.msg = m, x = <<"queue", {}, e>>
        PROVE  (m = c.msg /\ x = t) \/ (x \in Tokens(m) /\ x # s)
    <3>1. CASE e = d
      BY <1>1, <2>2, <3>1, Zenon
    <3>2. CASE e # d
      BY <2>2, <3>2, TokenIs
    <3> QED
      BY <3>1, <3>2, Zenon
  <2>3. ASSUME NEW e \in wait \ {c}, e.msg = m, x = <<"wait", {}, e>>
        PROVE  x \in Tokens(m) /\ x # s
    BY <2>3, TokenIs
  <2>4. ASSUME NEW v \in Workers, NEW e \in Copies, e.msg = m,
               job[v][e] \in {"buffered", "handling", "retrying"}, x = <<job[v][e], {v}, e>>
        PROVE  x \in Tokens(m) /\ x # s
    BY <2>4, TokenIs
  <2> QED
    BY <2>1, <2>2, <2>3, <2>4, ZenonT(60)
<1>4. ASSUME mode = "Manual", NEW m \in Messages PROVE OnePlace(m)'
  <2>1. OnePlace(m) /\ runs'[m] = runs[m]
    BY <1>0, <1>4, Zenon DEF Calm
  <2>2. CASE m = c.msg
    <3>1. s \in Tokens(m)
      BY <2>2, TokenIs
    <3>2. runs'[m] = RunsBehind(t)
      <4>1. runs[m] = RunsBehind(s)
        BY <2>1, <3>1, Zenon DEF OnePlace
      <4> QED
        BY <1>1, <2>1, <4>1 DEF RunsBehind
    <3>3. \A x \in Tokens(m)' : x = t \/ (x \in Tokens(m) /\ x # s)
      BY <1>3, <1>4, Zenon
    <3> HIDE DEF s, t
    <3> QED
      BY <2>1, <3>1, <3>2, <3>3, PlaceMoved, Zenon
  <2>3. CASE m # c.msg
    <3>1. Tokens(m)' \subseteq Tokens(m)
      BY <1>3, <1>4, <2>3, Zenon
    <3> QED
      BY <2>1, <3>1, PlaceKept, Zenon
  <2> QED
    BY <2>2, <2>3, Zenon
<1>5. /\ \A v \in Workers : chan'[v] = "open" \/ loop'[v] = "stopped"
      /\ \A v \in Workers, e \in Copies : job'[v][e] \in {job[v][e], "none"}
      /\ \A v \in Workers : loop'[v] = "draining" => loop[v] = "draining"
  BY <1>0, Zenon DEF Calm
<1> QED
  BY <1>0, <1>4, <1>5, CalmStored, ZenonT(60)

\* Nothing moves.
LEMMA CalmQuiet ==
    ASSUME WorkerInv, Calm, UNCHANGED <<mode, queue, wait, job, ackLost, runs>>,
           \A v \in Workers : chan'[v] = "open" \/ loop'[v] = "stopped",
           \A v \in Workers : loop'[v] = "draining" => loop[v] = "draining"
    PROVE  Calm'
<1>1. ASSUME mode = "Manual", NEW m \in Messages PROVE OnePlace(m)'
  <2>1. OnePlace(m) /\ runs'[m] = runs[m]
    BY <1>1, Zenon DEF Calm
  <2>2. Tokens(m)' \subseteq Tokens(m)
    BY DEF Tokens
  <2> QED
    BY <2>1, <2>2, PlaceKept, Zenon
<1> QED
  BY <1>1, CalmStored, Zenon

\* A message gets its first place when it is published.
LEMMA CalmPublish ==
    ASSUME WorkerInv, OnlySent, Calm, NEW m \in Messages, Publish(m)
    PROVE  Calm'
<1>0. /\ m \notin sent /\ runs \in [Messages -> Nat]
      /\ UNCHANGED <<mode, wait, job, chan, loop, ackLost, runs>>
  BY Zenon DEF Publish, workerVars, WorkerInv, TypeOK
<1>1. PICK c \in Copies : c.msg = m /\ c.deaths = 0 /\ queue' = queue \cup {c}
  BY Zenon DEF Publish, Fresh
<1>2. runs[m] = 0
  BY <1>0 DEF OnlySent
<1>3. ASSUME NEW n \in Messages, NEW x \in Tokens(n)'
      PROVE  (n = m /\ x = <<"queue", {}, c>>) \/ x \in Tokens(n)
  <2>1. \/ \E e \in queue \cup {c} : e.msg = n /\ x = <<"queue", {}, e>>
        \/ \E e \in wait : e.msg = n /\ x = <<"wait", {}, e>>
        \/ \E v \in Workers, e \in Copies :
              /\ e.msg = n /\ job[v][e] \in {"buffered", "handling", "retrying"}
              /\ x = <<job[v][e], {v}, e>>
    BY <1>0, <1>1, <1>3 DEF Tokens
  <2> QED
    BY <1>1, <2>1, TokenIs
<1>4. ASSUME NEW x \in Tokens(m) PROVE FALSE
  <2>1. \/ \E e \in queue \cup wait : e.msg = m
        \/ \E v \in Workers, e \in Copies :
              e.msg = m /\ job[v][e] \in {"buffered", "handling", "retrying"}
    BY <1>4, TokenIs
  <2>2. ASSUME NEW v \in Workers, NEW e \in Copies, e.msg = m,
               job[v][e] \in {"buffered", "handling", "retrying"}
        PROVE  FALSE
    <3>1. e \in Jobs(v)
      BY <2>2 DEF Jobs
    <3> QED
      BY <1>0, <2>2, <3>1, Zenon DEF OnlySent
  <2> QED
    BY <1>0, <2>1, <2>2, Zenon DEF OnlySent
<1>5. ASSUME mode = "Manual", NEW n \in Messages PROVE OnePlace(n)'
  <2>1. CASE n # m
    <3>1. Tokens(n)' \subseteq Tokens(n) /\ OnePlace(n) /\ runs'[n] = runs[n]
      BY <1>0, <1>3, <1>5, <2>1, Zenon DEF Calm
    <3> QED
      BY <3>1, PlaceKept, Zenon
  <2>2. CASE n = m
    <3> DEFINE t == <<"queue", {}, c>>
    <3>1. \A x \in Tokens(m)' : x = t
      BY <1>3, <1>4, Zenon
    <3>2. runs'[m] = RunsBehind(t)
      BY <1>0, <1>1, <1>2 DEF RunsBehind
    <3> HIDE DEF t
    <3> QED
      BY <2>2, <3>1, <3>2, Zenon DEF OnePlace, RunsBehind
  <2> QED
    BY <2>1, <2>2, Zenon
<1>6. /\ \A v \in Workers : chan'[v] = "open" \/ loop'[v] = "stopped"
      /\ \A v \in Workers, e \in Copies : job'[v][e] \in {job[v][e], "none"}
      /\ \A v \in Workers : loop'[v] = "draining" => loop[v] = "draining"
  BY <1>0, Zenon DEF Calm
<1> QED
  BY <1>0, <1>5, <1>6, CalmStored, Zenon

\* A worker that acknowledges after its handler leaves its loop idle.
LEMMA CalmLeaveLoop ==
    ASSUME WorkerInv, Calm, NEW w \in Workers, LeaveLoop(w)
    PROVE  Calm'
<1>0. /\ loop \in [Workers -> {"running", "draining", "stopped"}]
      /\ job \in [Workers -> [Copies -> Phases]]
      /\ UNCHANGED <<mode, queue, wait, chan, ackLost, runs>>
      /\ loop' = [loop EXCEPT ![w] = "draining"]
      /\ job' = [job EXCEPT ![w] = [c \in Copies |-> IF @[c] = "held" THEN "none" ELSE @[c]]]
  BY Zenon DEF LeaveLoop, brokerVars, ghostVars, WorkerInv, TypeOK
<1>1. loop[w] = "running"
  BY Zenon DEF LeaveLoop, AtSelect
<1>2. chan[w] = "open"
  BY <1>1 DEF Calm
<1>3. mode = "Manual" => Running(w) = {}
  <2> SUFFICES ASSUME mode = "Manual" PROVE Running(w) = {}
    OBVIOUS
  <2>1. AtSelect(w)
    BY Zenon DEF LeaveLoop, WorkerInv, WorkerShape
  <2> QED
    BY <2>1 DEF AtSelect, Bounded
<1>4. \A v \in Workers, d \in Copies :
         job'[v][d] = job[v][d] \/ (job'[v][d] = "none" /\ job[v][d] = "held")
  BY <1>0
<1>5. \A v \in Workers : loop'[v] = IF v = w THEN "draining" ELSE loop[v]
  BY <1>0, Zenon
<1>6. ASSUME mode = "Manual", NEW m \in Messages PROVE OnePlace(m)'
  <2>1. ASSUME NEW x \in Tokens(m)' PROVE x \in Tokens(m)
    <3>1. \/ \E e \in queue : e.msg = m /\ x = <<"queue", {}, e>>
          \/ \E e \in wait : e.msg = m /\ x = <<"wait", {}, e>>
          \/ \E v \in Workers, e \in Copies :
                /\ e.msg = m /\ job'[v][e] \in {"buffered", "handling", "retrying"}
                /\ x = <<job'[v][e], {v}, e>>
      <4>1. queue' = queue /\ wait' = wait
        BY <1>0, Zenon
      <4> QED
        BY <2>1, <4>1, ZenonT(60) DEF Tokens
    <3>2. ASSUME NEW v \in Workers, NEW e \in Copies,
                 job'[v][e] \in {"buffered", "handling", "retrying"}
          PROVE  job'[v][e] = job[v][e]
      BY <1>4, <3>2
    <3> QED
      BY <3>1, <3>2, TokenIs, ZenonT(60)
  <2>2. OnePlace(m) /\ runs'[m] = runs[m] /\ Tokens(m)' \subseteq Tokens(m)
    BY <1>0, <1>6, <2>1, Zenon DEF Calm
  <2> QED
    BY <2>2, PlaceKept, Zenon
<1>7. /\ \A v \in Workers : chan'[v] = "open" \/ loop'[v] = "stopped"
      /\ \A v \in Workers, e \in Copies : job'[v][e] \in {job[v][e], "none"}
      /\ mode = "Manual" => \A v \in Workers : loop'[v] = "draining" => loop[v] = "draining" \/ Running(v) = {}
  <2>1. \A v \in Workers : chan'[v] = "open" \/ loop'[v] = "stopped"
    BY <1>0, <1>2, <1>5 DEF Calm
  <2>2. \A v \in Workers, e \in Copies : job'[v][e] \in {job[v][e], "none"}
    BY <1>4, Zenon
  <2>3. mode = "Manual" => \A v \in Workers : loop'[v] = "draining" => loop[v] = "draining" \/ Running(v) = {}
    BY <1>3, <1>5
  <2> QED
    BY <2>1, <2>2, <2>3, Zenon
<1> QED
  BY <1>0, <1>6, <1>7, CalmStored, Zenon

\* A worker that returns gives its buffered deliveries back, and nothing else.
LEMMA CalmReturn ==
    ASSUME WorkerInv, Calm, NEW w \in Workers, loop[w] = "draining", Return(w)
    PROVE  Calm'
<1>0. /\ loop \in [Workers -> {"running", "draining", "stopped"}]
      /\ chan \in [Workers -> {"open", "cut", "closed"}]
      /\ job \in [Workers -> [Copies -> Phases]]
      /\ unacked[w] \subseteq Copies
      /\ UNCHANGED <<mode, wait, ackLost, runs>>
      /\ loop' = [loop EXCEPT ![w] = "stopped"] /\ chan' = [chan EXCEPT ![w] = "closed"]
      /\ job' = [job EXCEPT ![w] = [c \in Copies |-> "none"]]
      /\ queue' = queue \cup unacked[w]
  <2>1. unacked[w] \subseteq Copies
    BY DEF WorkerInv, TypeOK
  <2> QED
    BY <2>1, ZenonT(60) DEF Return, NoJobs, ghostVars, WorkerInv, TypeOK
<1>1. chan[w] = "open"
  BY DEF Calm
<1>2. /\ \A v \in Workers : loop'[v] = IF v = w THEN "stopped" ELSE loop[v]
      /\ \A v \in Workers : chan'[v] = IF v = w THEN "closed" ELSE chan[v]
      /\ \A v \in Workers, d \in Copies : job'[v][d] = IF v = w THEN "none" ELSE job[v][d]
  BY <1>0
<1>3. ASSUME mode = "Manual", NEW c \in unacked[w] PROVE job[w][c] = "buffered"
  <2>1. c \in Copies /\ job[w][c] # "none" /\ job[w][c] # "held" /\ job[w][c] \in Waiting
    <3>1. c \in Jobs(w)
      BY <1>1, Zenon DEF WorkerInv, PrefetchIsWorkedOn
    <3>2. c \in Copies /\ job[w][c] # "none"
      BY <3>1, Zenon DEF Jobs
    <3>3. Running(w) = {}
      BY <1>3, Zenon DEF Calm
    <3>4. job[w][c] \in Waiting
      BY <3>2, <3>3, Zenon DEF Running
    <3>5. job[w][c] # "held"
      BY <1>3, <3>2 DEF WorkerInv, WorkerShape
    <3> QED
      BY <3>2, <3>4, <3>5, Zenon
  <2> QED
    BY <2>1 DEF Waiting
<1>4. ASSUME NEW m \in Messages, NEW x \in Tokens(m)'
      PROVE  \/ \E d \in unacked[w] : d.msg = m /\ x = <<"queue", {}, d>>
             \/ x \in Tokens(m) /\ \A d \in Copies : x # <<"buffered", {w}, d>>
  <2>1. \/ \E e \in queue \cup unacked[w] : e.msg = m /\ x = <<"queue", {}, e>>
        \/ \E e \in wait : e.msg = m /\ x = <<"wait", {}, e>>
        \/ \E v \in Workers, e \in Copies :
              /\ e.msg = m /\ job'[v][e] \in {"buffered", "handling", "retrying"}
              /\ x = <<job'[v][e], {v}, e>>
    BY <1>0, <1>4 DEF Tokens
  <2>2. ASSUME NEW v \in Workers, NEW e \in Copies, e.msg = m,
               job'[v][e] \in {"buffered", "handling", "retrying"}, x = <<job'[v][e], {v}, e>>
        PROVE  x \in Tokens(m) /\ \A d \in Copies : x # <<"buffered", {w}, d>>
    <3>1. v # w /\ job'[v][e] = job[v][e]
      BY <1>2, <2>2, Zenon
    <3>2. x \in Tokens(m)
      BY <2>2, <3>1, TokenIs
    <3>3. \A d \in Copies : x # <<"buffered", {w}, d>>
      BY <2>2, <3>1
    <3> QED
      BY <3>2, <3>3, Zenon
  <2>3. ASSUME NEW e \in queue, e.msg = m, x = <<"queue", {}, e>>
        PROVE  x \in Tokens(m) /\ \A d \in Copies : x # <<"buffered", {w}, d>>
    BY <2>3, TokenIs
  <2>4. ASSUME NEW e \in wait, e.msg = m, x = <<"wait", {}, e>>
        PROVE  x \in Tokens(m) /\ \A d \in Copies : x # <<"buffered", {w}, d>>
    BY <2>4, TokenIs
  <2> QED
    BY <2>1, <2>2, <2>3, <2>4, ZenonT(60)
<1>5. ASSUME mode = "Manual", NEW m \in Messages PROVE OnePlace(m)'
  <2>1. OnePlace(m) /\ runs'[m] = runs[m]
    BY <1>0, <1>5, Zenon DEF Calm
  <2>2. ASSUME NEW d \in unacked[w], d.msg = m PROVE <<"buffered", {w}, d>> \in Tokens(m)
    <3>1. d \in Copies /\ job[w][d] = "buffered"
      BY <1>0, <1>3, <1>5, Zenon
    <3> QED
      BY <2>2, <3>1, TokenIs
  <2>3. CASE \E c \in unacked[w] : c.msg = m
    <3>1. PICK c \in unacked[w] : c.msg = m
      BY <2>3
    <3> DEFINE s == <<"buffered", {w}, c>>
               t == <<"queue", {}, c>>
    <3>2. s \in Tokens(m)
      BY <2>2, <3>1, Zenon
    <3>3. ASSUME NEW x \in Tokens(m)' PROVE x = t \/ (x \in Tokens(m) /\ x # s)
      <4>1. ASSUME NEW d \in unacked[w], d.msg = m, x = <<"queue", {}, d>> PROVE x = t
        <5>1. <<"buffered", {w}, d>> = s
          BY <2>1, <2>2, <3>2, <4>1, Zenon DEF OnePlace
        <5> QED
          BY <4>1, <5>1
      <4>2. c \in Copies
        BY <1>0, Zenon
      <4> QED
        BY <1>4, <3>3, <4>1, <4>2, ZenonT(60)
    <3>4. runs'[m] = RunsBehind(t)
      <4>1. runs[m] = RunsBehind(s)
        BY <2>1, <3>2, Zenon DEF OnePlace
      <4> QED
        BY <2>1, <4>1 DEF RunsBehind
    <3> HIDE DEF s, t
    <3> QED
      BY <2>1, <3>2, <3>3, <3>4, PlaceMoved, Zenon
  <2>4. CASE ~\E c \in unacked[w] : c.msg = m
    <3>1. Tokens(m)' \subseteq Tokens(m)
      BY <1>4, <1>5, <2>4, Zenon
    <3> QED
      BY <2>1, <3>1, PlaceKept, Zenon
  <2> QED
    BY <2>3, <2>4, Zenon
<1>6. /\ \A v \in Workers : chan'[v] = "open" \/ loop'[v] = "stopped"
      /\ \A v \in Workers, e \in Copies : job'[v][e] \in {job[v][e], "none"}
      /\ \A v \in Workers : loop'[v] = "draining" => loop[v] = "draining"
  BY <1>2 DEF Calm
<1> QED
  BY <1>0, <1>5, <1>6, CalmStored, Zenon

-----------------------------------------------------------------------------
(* Nothing moves that was not published.                                   *)

\* What must be said of a step: whatever it adds was published.
LEMMA OnlySentKept ==
    ASSUME OnlySent, sent \subseteq sent',
           \A d \in queue' \cup wait' : d \in queue \cup wait \/ d.msg \in sent',
           \A v \in Workers : \A d \in unacked'[v] \cup acks'[v] :
              d \in unacked[v] \cup acks[v] \/ d.msg \in sent',
           \A v \in Workers : \A d \in Jobs(v)' : d \in Jobs(v) \/ d.msg \in sent',
           \A m \in handled' : m \in handled \/ m \in sent',
           \A m \in Messages : runs'[m] = runs[m] \/ m \in sent'
    PROVE  OnlySent'
<1>1. \A d \in queue' \cup wait' : d.msg \in sent'
  BY Zenon DEF OnlySent
<1>2. ASSUME NEW v \in Workers, NEW d \in unacked'[v] \cup acks'[v] \cup Jobs(v)'
      PROVE  d.msg \in sent'
  BY <1>2, Zenon DEF OnlySent
<1>3. handled' \subseteq sent'
  BY Zenon DEF OnlySent
<1>4. ASSUME NEW m \in Messages, runs'[m] > 0 PROVE m \in sent'
  BY <1>4, Zenon DEF OnlySent
<1> QED
  BY <1>1, <1>2, <1>3, <1>4, Zenon DEF OnlySent

\* SetJob gives a worker at most one new delivery.
LEMMA JobsOfSet ==
    ASSUME TypeOK, NEW w \in Workers, NEW c \in Copies, NEW p, SetJob(w, c, p)
    PROVE  \A v \in Workers : \A d \in Jobs(v)' : d \in Jobs(v) \/ d = c
<1>1. \A v \in Workers, d \in Copies : v # w \/ d # c => job'[v][d] = job[v][d]
  BY Zenon DEF TypeOK, SetJob
<1> QED
  BY <1>1, Zenon DEF Jobs

\* An acknowledgement gives the broker no other copy than its own.
LEMMA SettledIsOwn ==
    ASSUME WorkerInv, NEW w \in Workers, NEW c \in Copies, c.msg \in sent, Settle(w, c)
    PROVE  \A v \in Workers : \A d \in unacked'[v] \cup acks'[v] :
              d \in unacked[v] \cup acks[v] \/ d.msg \in sent
<1>1. \A v \in Workers : unacked'[v] \subseteq unacked[v] /\ acks'[v] \subseteq acks[v] \cup {c}
  BY SettleFacts
<1> QED
  BY <1>1, Zenon

\* A step of a delivery, or of the return of its handler.
LEMMA JobStepOnlySent ==
    ASSUME WorkerInv, OnlySent, NEW w \in Workers, NEW c \in Jobs(w),
           JobStep(w, c) \/ \E outcome \in Outcomes : HandlerReturns(w, c, outcome)
    PROVE  OnlySent'
<1>0. c \in Copies /\ c.msg \in sent /\ TypeOK
  BY Zenon DEF OnlySent, Jobs, WorkerInv
<1>1. CASE Take(w, c) \/ AcquirePermit(w, c)
  <2>1. CASE Dispatch(w, c)
    <3>1. /\ UNCHANGED <<queue, wait, sent, handled>>
          /\ (UNCHANGED <<unacked, acks>>) \/ Settle(w, c)
          /\ runs' = runs \/ runs' = [runs EXCEPT ![c.msg] = @ + 1]
      BY <2>1, Zenon DEF Dispatch, HandlePoison, AckOnReceive, LeaveForRedelivery, RunHandler
    <3>2. \E p : SetJob(w, c, p)
      BY <2>1, Zenon DEF Dispatch, HandlePoison, AckOnReceive, LeaveForRedelivery, RunHandler
    <3>3. \A v \in Workers : \A d \in Jobs(v)' : d \in Jobs(v) \/ d.msg \in sent
      BY <1>0, <3>2, JobsOfSet, Zenon
    <3>4. \A v \in Workers : \A d \in unacked'[v] \cup acks'[v] :
             d \in unacked[v] \cup acks[v] \/ d.msg \in sent
      BY <1>0, <3>1, SettledIsOwn, Zenon
    <3>5. \A m \in Messages : runs'[m] = runs[m] \/ m \in sent
      BY <1>0, <3>1, Zenon DEF TypeOK
    <3> QED
      BY <3>1, <3>3, <3>4, <3>5, OnlySentKept, Zenon
  <2>2. CASE ~Dispatch(w, c)
    <3>1. SetJob(w, c, "held") /\ UNCHANGED <<queue, wait, sent, handled, unacked, acks, runs>>
      BY <1>1, <2>2, Zenon DEF Take, AcquirePermit, brokerVars, ghostVars
    <3>2. \A v \in Workers : \A d \in Jobs(v)' : d \in Jobs(v) \/ d.msg \in sent
      BY <1>0, <3>1, JobsOfSet, Zenon
    <3> QED
      BY <3>1, <3>2, OnlySentKept, Zenon
  <2> QED
    BY <2>1, <2>2, Zenon
<1>2. CASE RetryCopyStored(w, c)
  <2>1. /\ SetJob(w, c, "confirming") /\ UNCHANGED <<queue, sent, handled, unacked, acks, runs>>
        /\ \E d \in Copies : d.msg = c.msg /\ wait' = wait \cup {d}
    BY <1>2, Zenon DEF RetryCopyStored, Fresh, ghostVars
  <2>2. \A v \in Workers : \A d \in Jobs(v)' : d \in Jobs(v) \/ d.msg \in sent
    BY <1>0, <2>1, JobsOfSet, Zenon
  <2>3. \A d \in queue' \cup wait' : d \in queue \cup wait \/ d.msg \in sent
    BY <1>0, <2>1, Zenon
  <2> QED
    BY <2>1, <2>2, <2>3, OnlySentKept, Zenon
<1>3. CASE DeadLetterStored(w, c) \/ Confirmed(w, c) \/ PublishLost(w, c)
           \/ PublishRefused(w, c) \/ Unroutable(w, c)
  <2>1. UNCHANGED <<queue, wait, sent, handled, unacked, acks, runs>> /\ \E p : SetJob(w, c, p)
    BY <1>3, Zenon DEF DeadLetterStored, Confirmed, PublishLost, PublishRefused, Unroutable,
                       brokerVars, ghostVars
  <2>2. \A v \in Workers : \A d \in Jobs(v)' : d \in Jobs(v) \/ d.msg \in sent
    BY <1>0, <2>1, JobsOfSet, Zenon
  <2> QED
    BY <2>1, <2>2, OnlySentKept, Zenon
<1>4. CASE Requeue(w, c)
  <2>1. /\ SetJob(w, c, "none") /\ UNCHANGED <<wait, sent, handled, acks, runs>>
        /\ queue' = queue \/ queue' = queue \cup {c}
        /\ unacked' = unacked \/ unacked' = [unacked EXCEPT ![w] = @ \ {c}]
    BY <1>4, Zenon DEF Requeue, ghostVars
  <2>2. \A v \in Workers : \A d \in Jobs(v)' : d \in Jobs(v) \/ d.msg \in sent
    BY <1>0, <2>1, JobsOfSet, Zenon
  <2>3. \A d \in queue' \cup wait' : d \in queue \cup wait \/ d.msg \in sent
    BY <1>0, <2>1, Zenon
  <2>4. \A v \in Workers : \A d \in unacked'[v] \cup acks'[v] :
           d \in unacked[v] \cup acks[v] \/ d.msg \in sent
    BY <1>0, <2>1, ZenonT(60) DEF TypeOK
  <2> QED
    BY <2>1, <2>2, <2>3, <2>4, OnlySentKept, Zenon
<1>5. CASE SettleDelivery(w, c)
  <2>1. /\ SetJob(w, c, "none") /\ UNCHANGED <<queue, wait, sent, handled, runs>> /\ Settle(w, c)
    BY <1>5, Zenon DEF SettleDelivery
  <2>2. \A v \in Workers : \A d \in Jobs(v)' : d \in Jobs(v) \/ d.msg \in sent
    BY <1>0, <2>1, JobsOfSet, Zenon
  <2>3. \A v \in Workers : \A d \in unacked'[v] \cup acks'[v] :
           d \in unacked[v] \cup acks[v] \/ d.msg \in sent
    BY <1>0, <2>1, SettledIsOwn, Zenon
  <2> QED
    BY <2>1, <2>2, <2>3, OnlySentKept, Zenon
<1>6. CASE \E outcome \in Outcomes : HandlerReturns(w, c, outcome)
  <2>1. /\ UNCHANGED <<queue, wait, sent, unacked, acks, runs>>
        /\ handled' = handled \/ handled' = handled \cup {c.msg}
        /\ \E p : SetJob(w, c, p)
    BY <1>6, Zenon DEF HandlerReturns, ManualOutcome, brokerVars
  <2>2. \A v \in Workers : \A d \in Jobs(v)' : d \in Jobs(v) \/ d.msg \in sent
    BY <1>0, <2>1, JobsOfSet, Zenon
  <2>3. \A m \in handled' : m \in handled \/ m \in sent
    BY <1>0, <2>1, Zenon
  <2> QED
    BY <2>1, <2>2, <2>3, OnlySentKept, Zenon
<1> QED
  BY <1>1, <1>2, <1>3, <1>4, <1>5, <1>6, Zenon DEF JobStep, SettlementStep

\* A step of the broker.
LEMMA BrokerStepOnlySent ==
    ASSUME WorkerInv, OnlySent, BrokerStep
    PROVE  OnlySent'
<1>0. TypeOK
  BY Zenon DEF WorkerInv
<1>1. ASSUME NEW c \in wait, Expire(c) PROVE OnlySent'
  <2>1. /\ UNCHANGED <<job, unacked, acks, sent, handled, runs>> /\ wait' = wait \ {c}
        /\ \E d \in Copies : d.msg = c.msg /\ queue' = queue \cup {d}
    BY <1>1, Zenon DEF Expire, Fresh, workerVars, ghostVars
  <2>2. \A d \in queue' \cup wait' : d \in queue \cup wait \/ d.msg \in sent
    BY <2>1, Zenon DEF OnlySent
  <2>3. \A v \in Workers : \A d \in Jobs(v)' : d \in Jobs(v)
    BY <2>1, Zenon DEF Jobs
  <2> QED
    BY <2>1, <2>2, <2>3, OnlySentKept, Zenon
<1>2. ASSUME NEW w \in Workers, NEW c \in queue, Deliver(w, c) PROVE OnlySent'
  <2>0. c \in Copies /\ c.msg \in sent
    BY <1>0, <1>2, Zenon DEF OnlySent, TypeOK
  <2>1. /\ c \in Copies /\ c.msg \in sent /\ SetJob(w, c, "buffered")
        /\ UNCHANGED <<wait, acks, sent, handled, runs>> /\ queue' = queue \ {c}
        /\ unacked' = unacked \/ unacked' = [unacked EXCEPT ![w] = @ \cup {c}]
    BY <1>2, <2>0, Zenon DEF Deliver, ghostVars
  <2>2. \A v \in Workers : \A d \in Jobs(v)' : d \in Jobs(v) \/ d.msg \in sent
    BY <1>0, <2>1, JobsOfSet, Zenon
  <2>3. \A v \in Workers : \A d \in unacked'[v] \cup acks'[v] :
           d \in unacked[v] \cup acks[v] \/ d.msg \in sent
    <3>1. unacked \in [Workers -> SUBSET Copies]
      BY <1>0, Zenon DEF TypeOK
    <3>2. \A v \in Workers : unacked'[v] \subseteq unacked[v] \cup {c}
      BY <2>1, <3>1
    <3> QED
      BY <2>1, <3>2, Zenon
  <2>4. \A d \in queue' \cup wait' : d \in queue \cup wait
    BY <2>1, Zenon
  <2> QED
    BY <2>1, <2>2, <2>3, <2>4, OnlySentKept, Zenon
<1>3. ASSUME NEW w \in Workers, NEW c \in acks[w], AckArrives(w, c) PROVE OnlySent'
  <2>1. UNCHANGED <<job, queue, wait, unacked, sent, handled, runs>>
        /\ acks' = [acks EXCEPT ![w] = @ \ {c}]
    BY <1>3, Zenon DEF AckArrives, workerVars, ghostVars
  <2>2. \A v \in Workers : \A d \in unacked'[v] \cup acks'[v] : d \in unacked[v] \cup acks[v]
    BY <1>0, <2>1, Zenon DEF TypeOK
  <2>3. \A v \in Workers : \A d \in Jobs(v)' : d \in Jobs(v)
    BY <2>1, Zenon DEF Jobs
  <2> QED
    BY <2>1, <2>2, <2>3, OnlySentKept, Zenon
<1>4. ASSUME NEW w \in Workers, ConnectionLost(w) PROVE OnlySent'
  <2>1. /\ UNCHANGED <<wait, sent, handled, runs>> /\ queue' = queue \cup unacked[w] \cup acks[w]
        /\ unacked' = [unacked EXCEPT ![w] = {}] /\ acks' = [acks EXCEPT ![w] = {}]
    BY <1>4, Zenon DEF ConnectionLost, Redeliver
  <2>2. PICK lost \in SUBSET Copies :
           job' = [job EXCEPT ![w] = [c \in Copies |-> IF c \in lost THEN "none" ELSE @[c]]]
    <3>1. PICK lost \in SUBSET {c \in Copies : job[w][c] = "buffered"} :
             job' = [job EXCEPT ![w] = [c \in Copies |-> IF c \in lost THEN "none" ELSE @[c]]]
      BY <1>4, Zenon DEF ConnectionLost
    <3>2. lost \in SUBSET Copies
      BY <3>1
    <3> QED
      BY <3>1, <3>2, Zenon
  <2>3. \A v \in Workers, d \in Copies : job'[v][d] # "none" => job'[v][d] = job[v][d]
    <3>1. job \in [Workers -> [Copies -> Phases]]
      BY <1>0, Zenon DEF TypeOK
    <3> QED
      BY <2>2, <3>1
  <2>4. \A v \in Workers : \A d \in Jobs(v)' : d \in Jobs(v)
    BY <2>3, Zenon DEF Jobs
  <2>5. \A v \in Workers : \A d \in unacked'[v] \cup acks'[v] : d \in unacked[v] \cup acks[v]
    BY <1>0, <2>1, Zenon DEF TypeOK
  <2>6. \A d \in queue' \cup wait' : d \in queue \cup wait \/ d.msg \in sent
    BY <2>1, Zenon DEF OnlySent
  <2> QED
    BY <2>1, <2>4, <2>5, <2>6, OnlySentKept, Zenon
<1>5. ASSUME NEW w \in Workers, ConnectionNoticed(w) PROVE OnlySent'
  <2>1. UNCHANGED <<job, queue, wait, unacked, acks, sent, handled, runs>>
    BY <1>5, Zenon DEF ConnectionNoticed, brokerVars, ghostVars
  <2>2. \A v \in Workers : \A d \in Jobs(v)' : d \in Jobs(v)
    BY <2>1, Zenon DEF Jobs
  <2> QED
    BY <2>1, <2>2, OnlySentKept, Zenon
<1> QED
  BY <1>1, <1>2, <1>3, <1>4, <1>5, Zenon DEF BrokerStep

\* A step of a worker's loop.
LEMMA WorkerStepOnlySent ==
    ASSUME WorkerInv, OnlySent, NEW w \in Workers, WorkerStep(w)
    PROVE  OnlySent'
<1>0. TypeOK /\ job \in [Workers -> [Copies -> Phases]]
  BY Zenon DEF WorkerInv, TypeOK
<1>1. CASE Cancel(w) \/ Start(w)
  <2>1. UNCHANGED <<job, queue, wait, unacked, acks, sent, handled, runs>>
    BY <1>1, Zenon DEF Cancel, Start, brokerVars, ghostVars
  <2>2. \A v \in Workers : \A d \in Jobs(v)' : d \in Jobs(v)
    BY <2>1, Zenon DEF Jobs
  <2> QED
    BY <2>1, <2>2, OnlySentKept, Zenon
<1>2. CASE LeaveLoop(w)
  <2>1. /\ UNCHANGED <<queue, wait, unacked, acks, sent, handled, runs>>
        /\ job' = [job EXCEPT ![w] = [c \in Copies |-> IF @[c] = "held" THEN "none" ELSE @[c]]]
    BY <1>2, Zenon DEF LeaveLoop, brokerVars, ghostVars
  <2>2. \A v \in Workers, d \in Copies : job'[v][d] # "none" => job'[v][d] = job[v][d]
    BY <1>0, <2>1
  <2>3. \A v \in Workers : \A d \in Jobs(v)' : d \in Jobs(v)
    BY <2>2, Zenon DEF Jobs
  <2> QED
    BY <2>1, <2>3, OnlySentKept, Zenon
<1>3. CASE Drained(w) \/ GraceExpires(w) \/ Crash(w)
  <2>1. /\ UNCHANGED <<wait, sent, handled, runs>>
        /\ queue' \in {queue \cup unacked[w], queue \cup unacked[w] \cup acks[w]}
        /\ unacked' = [unacked EXCEPT ![w] = {}] /\ acks' = [acks EXCEPT ![w] = {}]
        /\ job' = [job EXCEPT ![w] = [c \in Copies |-> "none"]]
    BY <1>3, Zenon DEF Drained, GraceExpires, Crash, Return, Redeliver, NoJobs, ghostVars
  <2>2. \A v \in Workers, d \in Copies : job'[v][d] # "none" => job'[v][d] = job[v][d]
    BY <1>0, <2>1
  <2>3. \A v \in Workers : \A d \in Jobs(v)' : d \in Jobs(v)
    BY <2>2, Zenon DEF Jobs
  <2>4. \A v \in Workers : \A d \in unacked'[v] \cup acks'[v] : d \in unacked[v] \cup acks[v]
    BY <1>0, <2>1, Zenon DEF TypeOK
  <2>5. \A d \in queue' \cup wait' : d \in queue \cup wait \/ d.msg \in sent
    BY <2>1, Zenon DEF OnlySent
  <2> QED
    BY <2>1, <2>3, <2>4, <2>5, OnlySentKept, Zenon
<1> QED
  BY <1>1, <1>2, <1>3, Zenon DEF WorkerStep

\* Every step.
LEMMA NextKeepsOnlySent ==
    ASSUME WorkerInv, OnlySent, [Next]_vars
    PROVE  OnlySent'
<1>1. CASE BrokerStep
  BY <1>1, BrokerStepOnlySent, Zenon
<1>2. CASE \E w \in Workers : \E c \in Jobs(w) :
             JobStep(w, c) \/ \E outcome \in Outcomes : HandlerReturns(w, c, outcome)
  BY <1>2, JobStepOnlySent, Zenon
<1>3. CASE \E w \in Workers : WorkerStep(w)
  BY <1>3, WorkerStepOnlySent, Zenon
<1>4. ASSUME NEW m \in Messages, Publish(m) PROVE OnlySent'
  <2>1. /\ UNCHANGED <<job, wait, unacked, acks, handled, runs>> /\ sent' = sent \cup {m}
        /\ \E d \in Copies : d.msg = m /\ queue' = queue \cup {d}
    BY <1>4, Zenon DEF Publish, Fresh, workerVars
  <2>2. \A d \in queue' \cup wait' : d \in queue \cup wait \/ d.msg \in sent'
    BY <2>1, Zenon
  <2>3. \A v \in Workers : \A d \in Jobs(v)' : d \in Jobs(v)
    BY <2>1, Zenon DEF Jobs
  <2> QED
    BY <2>1, <2>2, <2>3, OnlySentKept, Zenon
<1>5. CASE UNCHANGED vars
  <2>1. UNCHANGED <<job, queue, wait, unacked, acks, sent, handled, runs>>
    BY <1>5, Zenon DEF vars, brokerVars, workerVars, ghostVars
  <2>2. \A v \in Workers : \A d \in Jobs(v)' : d \in Jobs(v)
    BY <2>1, Zenon DEF Jobs
  <2> QED
    BY <2>1, <2>2, OnlySentKept, Zenon
<1> QED
  BY <1>1, <1>2, <1>3, <1>4, <1>5, Zenon DEF Next, Delivery

-----------------------------------------------------------------------------
(* The runs of a message while nothing fails.                              *)

\* A step that is no fault keeps the calm, and keeps the runs of the messages
\* that are acknowledged after their handler within the budget.
LEMMA NextKeepsCalm ==
    ASSUME WorkerInv, OnlySent, Calm, [Next]_vars, faults' = faults
    PROVE  /\ Calm'
           /\ mode = "Manual" /\ (\A m \in Messages : runs[m] <= MaxAttempts)
              => \A m \in Messages : runs'[m] <= MaxAttempts
<1>0. ~Fault
  BY DEF Fault, WorkerInv, TypeOK
<1>1. ASSUME NEW c \in wait, Expire(c) PROVE Calm' /\ runs' = runs
  BY <1>1, CalmExpire, Zenon DEF Expire, ghostVars
<1>2. ASSUME NEW w \in Workers, NEW c \in queue, Deliver(w, c) PROVE Calm' /\ runs' = runs
  BY <1>2, CalmDeliver, Zenon DEF Deliver, ghostVars
<1>3. ASSUME NEW w \in Workers, NEW c \in acks[w], AckArrives(w, c) PROVE Calm' /\ runs' = runs
  <2>1. UNCHANGED <<mode, queue, wait, job, chan, loop, ackLost, runs>>
    BY <1>3, Zenon DEF AckArrives, workerVars, ghostVars
  <2>2. /\ \A v \in Workers : chan'[v] = "open" \/ loop'[v] = "stopped"
        /\ \A v \in Workers : loop'[v] = "draining" => loop[v] = "draining"
    BY <2>1, Zenon DEF Calm
  <2> QED
    BY <2>1, <2>2, CalmQuiet, Zenon
<1>4. ASSUME NEW w \in Workers, ConnectionLost(w) \/ ConnectionNoticed(w) PROVE FALSE
  <2>1. chan[w] = "cut"
    BY <1>0, <1>4, Zenon DEF ConnectionLost, ConnectionNoticed
  <2>2. chan[w] # "open" /\ chan[w] # "closed"
    BY <2>1
  <2> QED
    BY <2>2, ZenonT(60) DEF Calm, WorkerInv, WorkerShape
<1>5. CASE BrokerStep
  BY <1>1, <1>2, <1>3, <1>4, <1>5, Zenon DEF BrokerStep
<1>6. ASSUME NEW w \in Workers, NEW c \in Jobs(w), JobStep(w, c)
      PROVE  /\ Calm'
             /\ mode = "Manual" /\ (\A m \in Messages : runs[m] <= MaxAttempts)
                => \A m \in Messages : runs'[m] <= MaxAttempts
  <2>0. c \in Copies
    BY Zenon DEF Jobs
  <2>1. CASE Dispatch(w, c) /\ (Take(w, c) \/ AcquirePermit(w, c))
    <3>1. job[w][c] \in {"buffered", "held"} /\ loop[w] = "running"
      BY <2>1, Zenon DEF Take, AcquirePermit, AtSelect
    <3> QED
      BY <2>0, <2>1, <3>1, CalmDispatch, Zenon
  <2>2. CASE ~Dispatch(w, c) /\ (Take(w, c) \/ AcquirePermit(w, c))
    <3>1. /\ SetJob(w, c, "held") /\ UNCHANGED <<mode, queue, wait, chan, loop, ackLost, runs>>
      BY <2>2, Zenon DEF Take, AcquirePermit, brokerVars, ghostVars
    <3>2. /\ "held" \in Phases /\ "held" \in Waiting
          /\ "held" \notin {"requeueing", "buffered", "handling", "retrying"}
      BY DEF Phases, Waiting
    <3> QED
      BY <2>0, <3>1, <3>2, CalmOfDone, Zenon
  <2>3. CASE SettlementStep(w, c)
    <3>1. runs' = runs
      BY <2>3, Zenon DEF SettlementStep, RetryCopyStored, DeadLetterStored, Confirmed, PublishLost,
                         Requeue, SettleDelivery, ghostVars
    <3> QED
      BY <2>0, <2>3, <3>1, CalmSettlement, Zenon
  <2>4. CASE PublishRefused(w, c) \/ Unroutable(w, c)
    BY <1>0, <2>4, Zenon DEF PublishRefused, Unroutable
  <2> QED
    BY <1>6, <2>1, <2>2, <2>3, <2>4, Zenon DEF JobStep
<1>7. ASSUME NEW w \in Workers, Cancel(w) \/ Start(w) PROVE Calm' /\ runs' = runs
  <2>1. UNCHANGED <<mode, queue, wait, job, ackLost, runs>>
    BY <1>7, Zenon DEF Cancel, Start, brokerVars, ghostVars
  <2>2. \A v \in Workers : \/ chan'[v] = chan[v] /\ loop'[v] = loop[v]
                           \/ chan'[v] = "open" /\ loop'[v] = "running"
    <3>1. /\ chan \in [Workers -> {"open", "cut", "closed"}]
          /\ loop \in [Workers -> {"running", "draining", "stopped"}]
      BY Zenon DEF WorkerInv, TypeOK
    <3>2. (UNCHANGED <<chan, loop>>) \/ (/\ loop' = [loop EXCEPT ![w] = "running"]
                                         /\ chan' = [chan EXCEPT ![w] = "open"])
      BY <1>7, Zenon DEF Cancel, Start
    <3> QED
      BY <3>1, <3>2
  <2>3. /\ \A v \in Workers : chan'[v] = "open" \/ loop'[v] = "stopped"
        /\ \A v \in Workers : loop'[v] = "draining" => loop[v] = "draining"
    BY <2>2 DEF Calm
  <2> QED
    BY <2>1, <2>3, CalmQuiet, Zenon
<1>8. ASSUME NEW w \in Workers, WorkerStep(w) PROVE Calm' /\ runs' = runs
  <2>1. CASE LeaveLoop(w)
    BY <2>1, CalmLeaveLoop, Zenon DEF LeaveLoop, ghostVars
  <2>2. CASE Drained(w) \/ GraceExpires(w)
    BY <2>2, CalmReturn, Zenon DEF Drained, GraceExpires, Return, ghostVars
  <2>3. CASE Crash(w)
    BY <1>0, <2>3, Zenon DEF Crash
  <2> QED
    BY <1>7, <1>8, <2>1, <2>2, <2>3, Zenon DEF WorkerStep
<1>9. ASSUME NEW m \in Messages, Publish(m) PROVE Calm' /\ runs' = runs
  BY <1>9, CalmPublish, Zenon DEF Publish
<1>10. ASSUME NEW w \in Workers, NEW c \in Jobs(w), NEW outcome \in Outcomes,
              HandlerReturns(w, c, outcome)
       PROVE  Calm' /\ runs' = runs
  BY <1>10, CalmHandlerReturns, Zenon DEF HandlerReturns, Jobs
<1>11. CASE UNCHANGED vars
  <2>1. UNCHANGED <<mode, queue, wait, job, chan, loop, ackLost, runs>>
    BY <1>11, Zenon DEF vars, brokerVars, workerVars, ghostVars
  <2>2. /\ \A v \in Workers : chan'[v] = "open" \/ loop'[v] = "stopped"
        /\ \A v \in Workers : loop'[v] = "draining" => loop[v] = "draining"
    BY <2>1, Zenon DEF Calm
  <2> QED
    BY <2>1, <2>2, CalmQuiet, Zenon
<1> QED
  BY <1>5, <1>6, <1>8, <1>9, <1>10, <1>11, ZenonT(60) DEF Next, Delivery

\* Every step uses up a fault or leaves their number alone, and none changes
\* the acknowledgement mode.
LEMMA FaultsCountDown ==
    ASSUME [Next]_vars
    PROVE  mode' = mode /\ (faults' = faults \/ Fault)
<1>1. CASE BrokerStep
  BY <1>1, Zenon DEF BrokerStep, Expire, Deliver, AckArrives, ConnectionLost, ConnectionNoticed
<1>2. ASSUME NEW w, NEW c, JobStep(w, c) PROVE mode' = mode /\ (faults' = faults \/ Fault)
  <2>1. CASE Take(w, c) \/ AcquirePermit(w, c)
    BY <2>1, Zenon DEF Take, AcquirePermit, Dispatch
  <2>2. CASE SettlementStep(w, c)
    BY <2>2, Zenon DEF SettlementStep, RetryCopyStored, DeadLetterStored, Confirmed, PublishLost,
                       Requeue, SettleDelivery
  <2>3. CASE PublishRefused(w, c) \/ Unroutable(w, c)
    BY <2>3, Zenon DEF PublishRefused, Unroutable
  <2> QED
    BY <1>2, <2>1, <2>2, <2>3, Zenon DEF JobStep
<1>3. ASSUME NEW w, WorkerStep(w) PROVE mode' = mode /\ (faults' = faults \/ Fault)
  BY <1>3, Zenon DEF WorkerStep, Cancel, LeaveLoop, Drained, GraceExpires, Return, Crash, Start
<1>4. CASE \E m \in Messages : Publish(m)
  BY <1>4, Zenon DEF Publish
<1>5. ASSUME NEW w, NEW c, NEW outcome, HandlerReturns(w, c, outcome) PROVE mode' = mode /\ faults' = faults
  BY <1>5, Zenon DEF HandlerReturns
<1>6. CASE UNCHANGED vars
  BY <1>6, Zenon DEF vars
<1> QED
  BY <1>1, <1>2, <1>3, <1>4, <1>5, <1>6, Zenon DEF Next, Delivery

\* CalmInv with OnlySent is inductive on top of the invariant of the workers:
\* the modes that acknowledge first run a message once, as no acknowledgement
\* is lost.
LEMMA NextKeepsCalmInv ==
    ASSUME WorkerInv, OnlySent, CalmInv, [Next]_vars, TypeOK', AtMostOnce'
    PROVE  CalmInv'
<1>0. faults \in Nat /\ MaxFaults \in Nat /\ MaxAttempts \in Nat \ {0} /\ faults <= MaxFaults
  BY WorkerConstants, Zenon DEF WorkerInv, TypeOK, CalmInv
<1>1. CASE Fault
  <2>1. faults' < MaxFaults /\ faults' <= MaxFaults /\ faults' # MaxFaults
    BY <1>0, <1>1 DEF Fault
  <2> QED
    BY <2>1, Zenon DEF CalmInv
<1>2. CASE faults' = faults
  <2>1. CASE faults # MaxFaults
    BY <1>0, <1>2, <2>1, Zenon DEF CalmInv
  <2>2. CASE faults = MaxFaults
    <3>1. Calm /\ \A m \in Messages : runs[m] <= MaxAttempts
      BY <2>2, Zenon DEF CalmInv, RunsWithinBudget
    <3>2. /\ Calm'
          /\ mode = "Manual" => \A m \in Messages : runs'[m] <= MaxAttempts
      BY <1>2, <3>1, NextKeepsCalm, Zenon
    <3>3. mode' = mode
      BY FaultsCountDown, Zenon
    <3>4. ASSUME mode # "Manual", NEW m \in Messages PROVE runs'[m] <= MaxAttempts
      <4>1. runs'[m] \in Nat /\ ~(runs'[m] > 1)
        BY <3>2, <3>3, <3>4 DEF Calm, AtMostOnce, TypeOK
      <4> QED
        BY <1>0, <4>1
    <3>5. RunsWithinBudget'
      BY <3>2, <3>4, Zenon DEF RunsWithinBudget
    <3> QED
      BY <1>0, <1>2, <3>2, <3>5, Zenon DEF CalmInv
  <2> QED
    BY <2>1, <2>2, Zenon
<1> QED
  BY <1>1, <1>2, FaultsCountDown, Zenon

\* Nothing is stored, delivered, run or handled that was not published.
THEOREM OnlyPublishedMoves == Spec => []OnlySent
<1>1. Init => OnlySent
  BY DEF Init, OnlySent, Jobs
<1>2. WorkerInv /\ OnlySent /\ [Next]_vars => OnlySent'
  BY NextKeepsOnlySent, Zenon
<1> QED
  BY <1>1, <1>2, WorkerInvariant, PTL DEF Spec

\* As long as nothing has failed, a message that Manual acknowledges after its
\* handler is in one place, and its x-death count is the number of its runs.
THEOREM CalmWhileNothingFails == Spec => []CalmInv
<1>1. Init => CalmInv
  <2> SUFFICES ASSUME Init PROVE CalmInv
    BY Zenon
  <2>1. faults <= MaxFaults /\ RunsWithinBudget
    BY WorkerConstants DEF Init, RunsWithinBudget
  <2>2. ASSUME NEW m \in Messages PROVE OnePlace(m)
    <3>1. ASSUME NEW t \in Tokens(m) PROVE FALSE
      BY <3>1, TokenIs DEF Init
    <3> QED
      BY <3>1, Zenon DEF OnePlace
  <2>3. /\ ackLost = {} /\ \A w \in Workers : loop[w] = "stopped" /\ loop[w] # "draining"
        /\ \A w \in Workers, c \in Copies : job[w][c] # "requeueing"
    BY DEF Init
  <2>4. Calm
    BY <2>2, <2>3, Zenon DEF Calm
  <2> QED
    BY <2>1, <2>4, Zenon DEF CalmInv
<1>2. WorkerInv /\ OnlySent /\ TypeOK' /\ AtMostOnce' /\ CalmInv /\ [Next]_vars => CalmInv'
  BY NextKeepsCalmInv, Zenon
<1>3. WorkerInv => TypeOK
  BY Zenon DEF WorkerInv
<1> QED
  BY <1>1, <1>2, <1>3, WorkerInvariant, OnlyPublishedMoves, EarlyAckIsAtMostOnce, PTL DEF Spec

\* Without faults no handler runs more than max_attempts times for a message,
\* in any acknowledgement mode, although the attempts are counted by x-death
\* and workers are cancelled, drained and restarted between them.
THEOREM RunsStayWithinBudget == Spec => []RunsWithinBudget
<1>1. CalmInv => RunsWithinBudget
  BY Zenon DEF CalmInv, RunsWithinBudget
<1> QED
  BY <1>1, CalmWhileNothingFails, PTL
=============================================================================
