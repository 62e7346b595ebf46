------------------------ MODULE RabbitMqWorkerSteps ------------------------
(***************************************************************************)
(* Lemmas about the steps of RabbitMqWorker, for any number of workers and *)
(* messages, any window, budget and faults.  First what a worker does with *)
(* a delivery: dispatch, the return of a handler and the publications that *)
(* follow.  Then the steps that run no handler: publication, delivery and  *)
(* expiry, and what the broker takes back from a connection or a worker    *)
(* that ends.                                                              *)
(***************************************************************************)
EXTENDS RabbitMqWorker, TLAPS

\* A copy, field by field.
LEMMA CopyFields ==
    ASSUME NEW c \in Copies
    PROVE  c.msg \in Messages /\ c.deaths \in 0..MaxAttempts
BY Zenon DEF Copies

\* What SetJob does to the jobs of every worker.
LEMMA JobSet ==
    ASSUME TypeOK, NEW w \in Workers, NEW c \in Copies, NEW p \in Phases, SetJob(w, c, p)
    PROVE  /\ job' \in [Workers -> [Copies -> Phases]]
           /\ job'[w][c] = p
           /\ \A v \in Workers, d \in Copies : v # w \/ d # c => job'[v][d] = job[v][d]
BY Zenon DEF TypeOK, SetJob

\* The ghosts only grow.
GhostsGrow ==
    /\ handled \subseteq handled' /\ buried \subseteq buried' /\ excused \subseteq excused'
    /\ hopeless \subseteq hopeless' /\ ackLost \subseteq ackLost' /\ sent \subseteq sent'
    /\ handled' \subseteq Messages /\ buried' \subseteq Messages /\ excused' \subseteq Messages
    /\ hopeless' \subseteq Messages /\ ackLost' \subseteq Messages /\ sent' \subseteq Messages
    /\ runs' \in [Messages -> Nat] /\ \A m \in Messages : runs'[m] >= runs[m]

\* Phase p suits the delivery c of w after a step that leaves the broker alone.
Suits(w, c, p) ==
    /\ p \notin {"buffered"}
    /\ p = "held" => mode = "Unacknowledged" /\ job[w][c] = "buffered"
    /\ p = "settling" => mode # "Unacknowledged"
    /\ p = "handling" => mode # "AckOnReceive" /\ c.deaths + 1 <= runs'[c.msg]
    /\ p = "retrying" => c.deaths + 1 < MaxAttempts /\ c.deaths + 1 <= runs'[c.msg]
    /\ p = "burying" => c.msg \in Poison \cup hopeless' \/ runs'[c.msg] >= MaxAttempts
    /\ p \in {"confirming", "settling"} /\ mode = "Manual" =>
          c.msg \in handled' \cup buried' \cup excused' \/ Covered(c)
    /\ p = "none" /\ chan[w] = "open" => c \notin unacked[w]
    /\ mode # "Manual" /\ c.msg \notin Poison => p \in Waiting \cup {"handling"}

\* What the runs of handlers may do in such a step.
RunsSuit(w, c, p) ==
    \/ runs' = runs
    \/ /\ runs' = [runs EXCEPT ![c.msg] = @ + 1] /\ p = "handling"
       /\ job[w][c] \in {"buffered", "held"} /\ c.msg \notin Poison

\* A delivery moves on and the broker does not: every part of the invariant
\* but the few that the new phase must suit is kept.
LEMMA JobMoves ==
    ASSUME WorkerInv, NEW w \in Workers, NEW c \in Copies, NEW p \in Phases,
           SetJob(w, c, p), job[w][c] # "none",
           UNCHANGED <<mode, brokerVars, chan, loop, cancelled, cancels, sent, ackLost>>,
           faults' \in Nat, GhostsGrow, Suits(w, c, p), RunsSuit(w, c, p),
           mode = "Manual" => \A m \in (buried' \cup excused') \ (buried \cup excused) :
               m \in Poison \cup hopeless' \/ runs'[m] >= MaxAttempts
    PROVE  WorkerInv'
<1>0. /\ mode' = mode /\ queue' = queue /\ wait' = wait /\ unacked' = unacked /\ acks' = acks
      /\ chan' = chan /\ loop' = loop /\ cancelled' = cancelled /\ cancels' = cancels
      /\ sent' = sent /\ ackLost' = ackLost
  BY Zenon DEF brokerVars
<1>1. /\ job' \in [Workers -> [Copies -> Phases]] /\ job'[w][c] = p
      /\ \A v \in Workers, d \in Copies : v # w \/ d # c => job'[v][d] = job[v][d]
  BY JobSet, ZenonT(60) DEF WorkerInv
<1>2. TypeOK'
  BY <1>0, <1>1, Zenon DEF WorkerInv, TypeOK, GhostsGrow
<1>3. WorkerShape'
  <2>1. \A v \in Workers : chan'[v] # "open" => unacked'[v] = {} /\ acks'[v] = {}
    BY <1>0, Zenon DEF WorkerInv, WorkerShape
  <2>2. loop[w] # "stopped"
    BY Zenon DEF WorkerInv, WorkerShape, Jobs
  <2>3. \A v \in Workers : loop'[v] = "stopped" => chan'[v] = "closed" /\ Jobs(v)' = {}
    BY <1>0, <1>1, <2>2 DEF WorkerInv, WorkerShape, Jobs
  <2>4. \A v \in Workers, d \in Copies : job'[v][d] = "held" => mode' = "Unacknowledged"
    BY <1>0, <1>1 DEF WorkerInv, WorkerShape, Suits
  <2>5. \A v \in Workers, d \in Copies : job'[v][d] = "settling" => mode' # "Unacknowledged"
    BY <1>0, <1>1 DEF WorkerInv, WorkerShape, Suits
  <2>6. mode' = "Unacknowledged" => \A v \in Workers : unacked'[v] = {} /\ acks'[v] = {}
    BY <1>0, Zenon DEF WorkerInv, WorkerShape
  <2>7. mode' = "AckOnReceive" =>
          \A v \in Workers : \A d \in unacked'[v] : job'[v][d] # "handling"
    <3>1. mode = "AckOnReceive" =>
            \A v \in Workers : \A d \in unacked[v] : job[v][d] # "handling"
      BY Zenon DEF WorkerInv, WorkerShape
    <3>2. \A v \in Workers : unacked[v] \subseteq Copies
      BY Zenon DEF WorkerInv, TypeOK
    <3>3. p = "handling" => mode # "AckOnReceive"
      BY Zenon DEF Suits
    <3> QED
      BY <1>0, <1>1, <3>1, <3>2, <3>3, ZenonT(60)
  <2> QED
    BY <2>1, <2>3, <2>4, <2>5, <2>6, <2>7, Zenon DEF WorkerShape
<1>4. \A v \in Workers : Jobs(v)' \subseteq Jobs(v)
  BY <1>1, Zenon DEF Jobs
<1>5. DeathsWithinBudget'
  BY <1>0, <1>1, <1>4, Zenon DEF WorkerInv, DeathsWithinBudget, Suits
<1>6. DeathsWereRuns'
  <2>1. \A d \in Copies : runs'[d.msg] >= runs[d.msg] /\ runs'[d.msg] \in Nat /\ runs[d.msg] \in Nat /\ d.deaths \in Nat
    BY CopyFields DEF GhostsGrow, WorkerInv, TypeOK
  <2>2. /\ queue \subseteq Copies /\ wait \subseteq Copies
        /\ \A v \in Workers : unacked[v] \cup acks[v] \cup Jobs(v) \subseteq Copies
    BY Zenon DEF WorkerInv, TypeOK, Jobs
  <2>3. \A d \in queue' : d.deaths <= runs'[d.msg]
    BY <1>0, <2>1, <2>2 DEF WorkerInv, DeathsWereRuns
  <2>4. \A d \in wait' : d.deaths + 1 <= runs'[d.msg]
    BY <1>0, <2>1, <2>2 DEF WorkerInv, DeathsWereRuns
  <2>5. \A v \in Workers : \A d \in unacked'[v] \cup acks'[v] \cup Jobs(v)' : d.deaths <= runs'[d.msg]
    BY <1>0, <1>4, <2>1, <2>2 DEF WorkerInv, DeathsWereRuns
  <2>6. \A v \in Workers, d \in Copies :
          job'[v][d] \in {"handling", "retrying"} => d.deaths + 1 <= runs'[d.msg]
    BY <1>1, <2>1 DEF WorkerInv, DeathsWereRuns, Suits
  <2>7. \A v \in Workers, d \in Copies :
          job'[v][d] = "burying" => d.msg \in Poison \cup hopeless' \/ runs'[d.msg] >= MaxAttempts
    <3>1. MaxAttempts \in Nat
      BY WorkerConstants, Zenon
    <3> QED
      BY <1>1, <2>1, <3>1 DEF WorkerInv, DeathsWereRuns, Suits, GhostsGrow
  <2> QED
    BY <2>3, <2>4, <2>5, <2>6, <2>7, Zenon DEF DeathsWereRuns
<1>7. \A d \in Copies : Covered(d) => Covered(d)'
  BY <1>0, Zenon DEF Covered, GhostsGrow
<1>8. AcknowledgedIsCovered'
  <2>1. c.msg \in handled' \cup buried' \cup excused' => Covered(c)'
    BY Zenon DEF Covered
  <2> QED
    BY <1>0, <1>1, <1>7, <2>1, Zenon DEF WorkerInv, AcknowledgedIsCovered, Suits
<1>9. ManualNeverLoses'
  BY <1>0 DEF WorkerInv, ManualNeverLoses, Held, GhostsGrow
<1>10. PrefetchIsWorkedOn'
  <2>1. ASSUME NEW v \in Workers, chan'[v] = "open", NEW d \in unacked'[v] PROVE d \in Jobs(v)'
    <3>1. d \in unacked[v] /\ d \in Jobs(v) /\ d \in Copies
      BY <1>0, <2>1, Zenon DEF WorkerInv, PrefetchIsWorkedOn, Jobs
    <3> QED
      BY <1>0, <1>1, <2>1, <3>1, Zenon DEF Jobs, Suits
  <2> QED
    BY <2>1, Zenon DEF PrefetchIsWorkedOn
<1>11. BudgetIsSpent'
  <2>1. MaxAttempts \in Nat
    BY WorkerConstants
  <2> QED
    BY <1>0, <2>1 DEF WorkerInv, BudgetIsSpent, GhostsGrow, TypeOK
<1>12. OneOffer'
  <2> SUFFICES ASSUME mode # "Manual" PROVE OneOffer'
    BY <1>0, Zenon DEF OneOffer
  <2>1. /\ wait' = {}
        /\ \A v \in Workers, d \in Copies :
              d.msg \notin Poison => job'[v][d] \in Waiting \cup {"handling"}
    BY <1>0, <1>1, ZenonT(60) DEF WorkerInv, OneOffer, Suits
  <2>2. \A v \in Workers, d \in Copies :
          mode' = "AckOnReceive" /\ job'[v][d] = "buffered" /\ chan'[v] = "open"
          => d \in unacked'[v]
    BY <1>0, <1>1, ZenonT(60) DEF WorkerInv, OneOffer, Suits
  <2>3. \A v \in Workers : Offered(v)' \subseteq Offered(v)
    BY <1>0, <1>1, Zenon DEF Offered, Suits
  <2>4. ASSUME NEW m \in Messages, OnOfferOnce(m), runs'[m] = runs[m] PROVE OnOfferOnce(m)'
    <3>1. Withdrawn(m) => Withdrawn(m)'
      BY <1>0, <2>3, Zenon DEF Withdrawn
    <3> QED
      BY <1>0, <2>3, <2>4, <3>1 DEF OnOfferOnce
  <2>5. ASSUME NEW m \in Messages, OnOfferOnce(m), runs'[m] # runs[m] PROVE OnOfferOnce(m)'
    <3>1. /\ m = c.msg /\ p = "handling" /\ job[w][c] \in {"buffered", "held"}
          /\ runs' = [runs EXCEPT ![c.msg] = @ + 1]
      BY <2>5, Zenon DEF RunsSuit, WorkerInv, TypeOK
    <3>2. mode = "Unacknowledged" /\ c \in Offered(w)
      BY <3>1, WorkerConstants, Zenon DEF Suits, WorkerInv, TypeOK, Offered
    <3>3. ~Withdrawn(m) /\ runs[m] \in Nat
      BY <3>1, <3>2, Zenon DEF Withdrawn, WorkerInv, TypeOK
    <3>4. runs[m] = 0 /\ m \in sent
      BY <2>5, <3>3 DEF OnOfferOnce
    <3>5. runs'[m] = 1
      BY <3>1, <3>4 DEF WorkerInv, TypeOK
    <3>6. c \notin Offered(w)'
      BY <1>0, <1>1, <3>1, <3>2, Zenon DEF Offered
    <3>7. Withdrawn(m)'
      BY <1>0, <2>3, <2>5, <3>1, <3>2, <3>6, Zenon DEF Withdrawn, OnOfferOnce
    <3> QED
      BY <1>0, <2>3, <2>5, <3>4, <3>5, <3>7 DEF OnOfferOnce
  <2>6. \A m \in Messages \ (Poison \cup ackLost') : OnOfferOnce(m)'
    BY <1>0, <2>4, <2>5, Zenon DEF WorkerInv, OneOffer
  <2> QED
    BY <2>1, <2>2, <2>6, Zenon DEF OneOffer
<1> QED
  BY <1>2, <1>3, <1>5, <1>6, <1>8, <1>9, <1>10, <1>11, <1>12, Zenon DEF WorkerInv

-----------------------------------------------------------------------------
(* Steps that leave the broker alone.                                      *)

\* With its delivery in hand, a handler has been counted.
LEMMA HandlingWasCounted ==
    ASSUME WorkerInv, NEW w \in Workers, NEW c \in Copies
    PROVE  /\ runs[c.msg] \in Nat /\ c.deaths \in Nat /\ c.msg \in Messages
           /\ job[w][c] # "none" => c.deaths <= runs[c.msg]
           /\ job[w][c] = "handling" => c.deaths + 1 <= runs[c.msg]
<1>1. c.msg \in Messages /\ c.deaths \in Nat
  BY CopyFields, WorkerConstants
<1>2. runs[c.msg] \in Nat
  BY <1>1, Zenon DEF WorkerInv, TypeOK
<1>3. job[w][c] # "none" => c \in Jobs(w)
  BY Zenon DEF Jobs
<1> QED
  BY <1>1, <1>2, <1>3, Zenon DEF WorkerInv, DeathsWereRuns

\* The outcome of a handler.
LEMMA HandlerReturnsKeeps ==
    ASSUME WorkerInv, NEW w \in Workers, NEW c \in Copies, NEW outcome \in Outcomes,
           HandlerReturns(w, c, outcome)
    PROVE  WorkerInv'
<1>0. /\ runs[c.msg] \in Nat /\ c.deaths \in Nat /\ c.msg \in Messages
      /\ c.deaths + 1 <= runs[c.msg] /\ job[w][c] = "handling" /\ MaxAttempts \in Nat
  BY HandlingWasCounted, WorkerConstants, Zenon DEF HandlerReturns
<1>1. /\ UNCHANGED <<mode, brokerVars, chan, loop, cancelled, cancels, sent, ackLost>>
      /\ faults' = faults /\ runs' = runs /\ buried' = buried
      /\ handled' = IF outcome = "ok" THEN handled \cup {c.msg} ELSE handled
      /\ hopeless' = IF outcome = "permanent" THEN hopeless \cup {c.msg} ELSE hopeless
  BY Zenon DEF HandlerReturns
<1>2. CASE mode = "Manual"
  <2> DEFINE exhausted == outcome = "permanent" \/ (outcome = "error" /\ BudgetSpent(c))
             p == IF outcome = "ok" THEN "settling"
                  ELSE IF ~exhausted THEN "retrying"
                  ELSE IF HasDeadLetter THEN "burying" ELSE "settling"
  <2>1. /\ SetJob(w, c, p)
        /\ excused' = IF exhausted /\ ~HasDeadLetter THEN excused \cup {c.msg} ELSE excused
    BY <1>2, Zenon DEF HandlerReturns, ManualOutcome
  <2>2. p \in Phases
    BY Zenon DEF Phases
  <2>3. GhostsGrow
    BY <1>0, <1>1, <2>1 DEF GhostsGrow, WorkerInv, TypeOK
  <2>4. exhausted => c.msg \in hopeless' \/ runs'[c.msg] >= MaxAttempts
    BY <1>0, <1>1 DEF BudgetSpent
  <2>5. outcome # "ok" /\ ~exhausted => c.deaths + 1 < MaxAttempts
    BY <1>0 DEF BudgetSpent, Outcomes
  <2>6. Suits(w, c, p)
    BY <1>0, <1>1, <1>2, <2>1, <2>4, <2>5, Zenon DEF Suits
  <2>7. \A m \in (buried' \cup excused') \ (buried \cup excused) :
               m \in Poison \cup hopeless' \/ runs'[m] >= MaxAttempts
    BY <1>1, <2>1, <2>4, Zenon
  <2>8. RunsSuit(w, c, p) /\ faults' \in Nat
    BY <1>1, Zenon DEF RunsSuit, WorkerInv, TypeOK
  <2> HIDE DEF p, exhausted
  <2> QED
    BY <1>0, <1>1, <2>1, <2>2, <2>3, <2>6, <2>7, <2>8, JobMoves, Zenon
<1>3. CASE mode # "Manual"
  <2>1. SetJob(w, c, "none") /\ excused' = excused
    BY <1>3, Zenon DEF HandlerReturns
  <2>2. GhostsGrow
    BY <1>0, <1>1, <2>1 DEF GhostsGrow, WorkerInv, TypeOK
  <2>3. c \notin unacked[w]
    BY <1>0, <1>3, WorkerConstants, Zenon DEF WorkerInv, WorkerShape, TypeOK
  <2>4. Suits(w, c, "none")
    BY <1>1, <1>3, <2>3, Zenon DEF Suits, Waiting
  <2>5. RunsSuit(w, c, "none") /\ faults' \in Nat /\ "none" \in Phases
    BY <1>1, Zenon DEF RunsSuit, WorkerInv, TypeOK, Phases
  <2> QED
    BY <1>0, <1>1, <1>3, <2>1, <2>2, <2>4, <2>5, JobMoves, Zenon
<1> QED
  BY <1>2, <1>3, Zenon

\* A publication is refused or lost, and the delivery is to be given back.
LEMMA FailedPublishKeeps ==
    ASSUME WorkerInv, NEW w \in Workers, NEW c \in Copies,
           PublishRefused(w, c) \/ PublishLost(w, c)
    PROVE  WorkerInv'
<1>1. /\ UNCHANGED <<mode, brokerVars, chan, loop, cancelled, cancels, sent, ackLost>>
      /\ runs' = runs /\ buried' = buried /\ excused' = excused
      /\ handled' = handled /\ hopeless' = hopeless
      /\ SetJob(w, c, AfterFailedPublish) /\ job[w][c] \in {"retrying", "burying", "confirming"}
  BY Zenon DEF PublishRefused, PublishLost, ghostVars
<1>2. faults' \in Nat
  BY DEF PublishRefused, PublishLost, Fault, WorkerInv, TypeOK
<1>3. GhostsGrow
  BY <1>1 DEF GhostsGrow, WorkerInv, TypeOK
<1>4. mode = "Unacknowledged" => c \notin unacked[w]
  BY Zenon DEF WorkerInv, WorkerShape
<1>5. mode # "Manual" => c.msg \in Poison
  BY <1>1, Zenon DEF WorkerInv, OneOffer, Waiting
<1>6. Suits(w, c, AfterFailedPublish) /\ AfterFailedPublish \in Phases
  BY <1>1, <1>4, <1>5, Zenon DEF Suits, AfterFailedPublish, Phases
<1>7. RunsSuit(w, c, AfterFailedPublish)
  BY <1>1, Zenon DEF RunsSuit
<1> QED
  BY <1>1, <1>2, <1>3, <1>6, <1>7, JobMoves, Zenon

\* A queue is gone: the delivery is dropped by policy.
LEMMA UnroutableKeeps ==
    ASSUME WorkerInv, NEW w \in Workers, NEW c \in Copies, Unroutable(w, c)
    PROVE  WorkerInv'
<1> DEFINE p == IF mode = "Unacknowledged" THEN "none" ELSE "settling"
<1>0. c.msg \in Messages
  BY CopyFields, Zenon
<1>1. /\ UNCHANGED <<mode, brokerVars, chan, loop, cancelled, cancels, sent, ackLost>>
      /\ runs' = runs /\ buried' = buried /\ handled' = handled
      /\ excused' = excused \cup {c.msg} /\ hopeless' = hopeless \cup {c.msg}
      /\ SetJob(w, c, p) /\ job[w][c] \in {"retrying", "burying"}
  BY Zenon DEF Unroutable
<1>2. faults' \in Nat
  BY DEF Unroutable, Fault, WorkerInv, TypeOK
<1>3. GhostsGrow
  BY <1>0, <1>1 DEF GhostsGrow, WorkerInv, TypeOK
<1>4. mode = "Unacknowledged" => c \notin unacked[w]
  BY Zenon DEF WorkerInv, WorkerShape
<1>5. mode # "Manual" => c.msg \in Poison
  BY <1>1, Zenon DEF WorkerInv, OneOffer, Waiting
<1>6. Suits(w, c, p) /\ p \in Phases
  BY <1>1, <1>4, <1>5, Zenon DEF Suits, Phases
<1>7. RunsSuit(w, c, p)
  BY <1>1, Zenon DEF RunsSuit
<1>8. \A m \in (buried' \cup excused') \ (buried \cup excused) : m \in hopeless'
  BY <1>1, Zenon
<1> HIDE DEF p
<1> QED
  BY <1>1, <1>2, <1>3, <1>6, <1>7, <1>8, JobMoves, Zenon

\* The dead-letter queue has the message.
LEMMA DeadLetterStoredKeeps ==
    ASSUME WorkerInv, NEW w \in Workers, NEW c \in Copies, DeadLetterStored(w, c)
    PROVE  WorkerInv'
<1>0. c.msg \in Messages
  BY CopyFields
<1>1. /\ UNCHANGED <<mode, brokerVars, chan, loop, cancelled, cancels, sent, ackLost>>
      /\ runs' = runs /\ handled' = handled /\ excused' = excused /\ hopeless' = hopeless
      /\ buried' = buried \cup {c.msg} /\ faults' = faults
      /\ SetJob(w, c, "confirming") /\ job[w][c] = "burying"
  BY Zenon DEF DeadLetterStored
<1>2. GhostsGrow
  BY <1>0, <1>1 DEF GhostsGrow, WorkerInv, TypeOK
<1>3. c.msg \in Poison \cup hopeless' \/ runs'[c.msg] >= MaxAttempts
  BY <1>1, Zenon DEF WorkerInv, DeathsWereRuns
<1>4. mode # "Manual" => c.msg \in Poison
  BY <1>1, Zenon DEF WorkerInv, OneOffer, Waiting
<1>5. Suits(w, c, "confirming") /\ "confirming" \in Phases
  BY <1>1, <1>4, Zenon DEF Suits, Phases
<1>6. RunsSuit(w, c, "confirming") /\ faults' \in Nat
  BY <1>1, Zenon DEF RunsSuit, WorkerInv, TypeOK
<1>7. \A m \in (buried' \cup excused') \ (buried \cup excused) : m = c.msg
  BY <1>1, Zenon
<1> QED
  BY <1>1, <1>2, <1>3, <1>5, <1>6, <1>7, JobMoves, Zenon

\* The confirm of a retry copy or of a dead letter.
LEMMA ConfirmedKeeps ==
    ASSUME WorkerInv, NEW w \in Workers, NEW c \in Copies, Confirmed(w, c)
    PROVE  WorkerInv'
<1> DEFINE p == IF mode = "Unacknowledged" THEN "none" ELSE "settling"
<1>1. /\ UNCHANGED <<mode, brokerVars, chan, loop, cancelled, cancels, sent, ackLost>>
      /\ runs' = runs /\ handled' = handled /\ excused' = excused /\ hopeless' = hopeless
      /\ buried' = buried /\ faults' = faults
      /\ SetJob(w, c, p) /\ job[w][c] = "confirming"
  BY Zenon DEF Confirmed, ghostVars
<1>2. GhostsGrow
  BY <1>1 DEF GhostsGrow, WorkerInv, TypeOK
<1>3. mode = "Manual" => Covered(c)
  BY <1>1, Zenon DEF WorkerInv, AcknowledgedIsCovered
<1>4. mode # "Manual" => c.msg \in Poison
  BY <1>1, Zenon DEF WorkerInv, OneOffer, Waiting
<1>5. mode = "Unacknowledged" => c \notin unacked[w]
  BY DEF WorkerInv, WorkerShape
<1>6. Suits(w, c, p) /\ p \in Phases
  BY <1>1, <1>3, <1>4, <1>5, Zenon DEF Suits, Phases
<1>7. RunsSuit(w, c, p) /\ faults' \in Nat
  BY <1>1, Zenon DEF RunsSuit, WorkerInv, TypeOK
<1> HIDE DEF p
<1> QED
  BY <1>1, <1>2, <1>6, <1>7, JobMoves, Zenon

-----------------------------------------------------------------------------
(* Dispatch and acknowledgements.                                          *)

\* Every copy that some worker or the broker has is a copy.
LEMMA Placed ==
    ASSUME WorkerInv
    PROVE  /\ queue \subseteq Copies /\ wait \subseteq Copies
           /\ \A v \in Workers : unacked[v] \subseteq Copies /\ acks[v] \subseteq Copies
                                 /\ Jobs(v) \subseteq Copies
BY Zenon DEF WorkerInv, TypeOK, Jobs

\* In which modes a delivery is held for its turn or settled after its run.
LEMMA ShapeOfJobs ==
    ASSUME WorkerInv
    PROVE  \A v \in Workers, d \in Copies :
              /\ job[v][d] = "held" => mode = "Unacknowledged"
              /\ job[v][d] = "settling" => mode # "Unacknowledged"
BY Zenon DEF WorkerInv, WorkerShape

\* AckOnReceive acknowledges before it runs the handler.
LEMMA ReceivedIsNotHandled ==
    ASSUME WorkerInv, mode = "AckOnReceive"
    PROVE  \A v \in Workers : \A d \in unacked[v] : job[v][d] # "handling"
BY Zenon DEF WorkerInv, WorkerShape

\* A worker that stopped has neither a channel nor a delivery left.
LEMMA StoppedIsIdle ==
    ASSUME WorkerInv
    PROVE  \A v \in Workers : loop[v] = "stopped" => chan[v] = "closed" /\ Jobs(v) = {}
BY Zenon DEF WorkerInv, WorkerShape

\* AckOnReceive acknowledges a buffered delivery later, if the channel is open.
LEMMA BufferedIsUnacked ==
    ASSUME WorkerInv, mode = "AckOnReceive"
    PROVE  \A v \in Workers, d \in Copies :
              job[v][d] = "buffered" /\ chan[v] = "open" => d \in unacked[v]
BY Zenon DEF WorkerInv, OneOffer

\* The deaths of a copy were runs, wherever the copy is.
LEMMA DeathsOf ==
    ASSUME WorkerInv
    PROVE  /\ \A d \in queue : d.deaths <= runs[d.msg]
           /\ \A d \in wait : d.deaths + 1 <= runs[d.msg]
           /\ \A v \in Workers : \A d \in unacked[v] \cup acks[v] \cup Jobs(v) :
                 d.deaths <= runs[d.msg]
           /\ \A v \in Workers, d \in Copies :
                 job[v][d] \in {"handling", "retrying"} => d.deaths + 1 <= runs[d.msg]
BY Zenon DEF WorkerInv, DeathsWereRuns

\* The runs counted so far, and how one more run changes them.
LEMMA RunsTyped ==
    ASSUME WorkerInv
    PROVE  runs \in [Messages -> Nat]
BY Zenon DEF WorkerInv, TypeOK

\* What an acknowledgement does to the broker's side.
LEMMA SettleFacts ==
    ASSUME WorkerInv, NEW w \in Workers, NEW c \in Copies, Settle(w, c)
    PROVE  /\ unacked' \in [Workers -> SUBSET Copies] /\ acks' \in [Workers -> SUBSET Copies]
           /\ \A v \in Workers : /\ unacked'[v] \subseteq unacked[v]
                                 /\ acks'[v] \subseteq acks[v] \cup {c}
                                 /\ v # w => unacked'[v] = unacked[v] /\ acks'[v] = acks[v]
                                 /\ \A d \in unacked[v] : d # c => d \in unacked'[v]
           /\ chan[w] = "open" => c \notin unacked'[w] /\ ackLost' = ackLost
           /\ chan[w] # "open" => /\ unacked' = unacked /\ acks' = acks
                                  /\ ackLost' = ackLost \cup {c.msg}
           /\ ackLost \subseteq ackLost' /\ ackLost' \subseteq Messages
<1>1. /\ c.msg \in Messages /\ unacked \in [Workers -> SUBSET Copies]
      /\ acks \in [Workers -> SUBSET Copies] /\ ackLost \subseteq Messages
  BY CopyFields, Zenon DEF WorkerInv, TypeOK
<1>2. CASE chan[w] = "open"
  <2>1. /\ unacked' = [unacked EXCEPT ![w] = @ \ {c}] /\ acks' = [acks EXCEPT ![w] = @ \cup {c}]
        /\ ackLost' = ackLost
    BY <1>2, Zenon DEF Settle
  <2> QED
    BY <1>1, <1>2, <2>1, Zenon
<1>3. CASE chan[w] # "open"
  <2>1. unacked' = unacked /\ acks' = acks /\ ackLost' = ackLost \cup {c.msg}
    BY <1>3, Zenon DEF Settle
  <2> QED
    BY <1>1, <1>3, <2>1, Zenon
<1> QED
  BY <1>2, <1>3, Zenon

\* AckOnReceive acknowledges a good delivery and runs its handler.
LEMMA AckedRunKeeps ==
    ASSUME WorkerInv, NEW w \in Workers, NEW c \in Copies, mode = "AckOnReceive",
           job[w][c] = "buffered", Decodes(c), chan[w] # "closed",
           Settle(w, c), RunHandler(w, c),
           UNCHANGED <<mode, queue, wait, chan, loop, cancelled, faults, cancels,
                       sent, handled, buried, hopeless>>
    PROVE  WorkerInv'
<1>0. /\ mode' = mode /\ queue' = queue /\ wait' = wait /\ chan' = chan /\ loop' = loop
      /\ cancelled' = cancelled /\ faults' = faults /\ cancels' = cancels /\ sent' = sent
      /\ handled' = handled /\ buried' = buried /\ hopeless' = hopeless /\ excused' = excused
      /\ runs' = [runs EXCEPT ![c.msg] = @ + 1] /\ c.msg \in Messages
  BY CopyFields, Zenon DEF RunHandler
<1>14. /\ unacked' \in [Workers -> SUBSET Copies] /\ acks' \in [Workers -> SUBSET Copies]
       /\ \A v \in Workers : /\ unacked'[v] \subseteq unacked[v]
                             /\ acks'[v] \subseteq acks[v] \cup {c}
                             /\ v # w => unacked'[v] = unacked[v] /\ acks'[v] = acks[v]
                             /\ \A d \in unacked[v] : d # c => d \in unacked'[v]
       /\ chan[w] = "open" => c \notin unacked'[w] /\ ackLost' = ackLost
       /\ chan[w] # "open" => /\ unacked' = unacked /\ acks' = acks
                              /\ ackLost' = ackLost \cup {c.msg}
       /\ ackLost \subseteq ackLost' /\ ackLost' \subseteq Messages
  BY SettleFacts, ZenonT(60)
<1>1. /\ job' \in [Workers -> [Copies -> Phases]] /\ job'[w][c] = "handling"
      /\ \A v \in Workers, d \in Copies : v # w \/ d # c => job'[v][d] = job[v][d]
  <2>1. "handling" \in Phases /\ SetJob(w, c, "handling") /\ TypeOK
    BY ZenonT(60) DEF Phases, RunHandler, WorkerInv
  <2> QED
    BY <2>1, JobSet
<1>2. /\ runs' \in [Messages -> Nat] /\ runs'[c.msg] = runs[c.msg] + 1 /\ runs[c.msg] \in Nat
      /\ \A m \in Messages : m # c.msg => runs'[m] = runs[m]
      /\ \A m \in Messages : runs[m] \in Nat /\ runs'[m] \in Nat /\ runs'[m] >= runs[m]
  BY <1>0, RunsTyped
<1>3. TypeOK'
  BY <1>0, <1>1, <1>2, <1>14 DEF WorkerInv, TypeOK
<1>4. \A v \in Workers : Jobs(v)' = Jobs(v)
  BY <1>1, Zenon DEF Jobs
<1>5. WorkerShape'
  <2>1. \A v \in Workers : chan'[v] # "open" => unacked'[v] = {} /\ acks'[v] = {}
    BY <1>0, <1>14 DEF WorkerInv, WorkerShape
  <2>2. \A v \in Workers : loop'[v] = "stopped" => chan'[v] = "closed" /\ Jobs(v)' = {}
    BY <1>0, <1>4, Zenon DEF WorkerInv, WorkerShape
  <2>3. \A v \in Workers, d \in Copies :
          /\ job'[v][d] = "held" => mode' = "Unacknowledged"
          /\ job'[v][d] = "settling" => mode' # "Unacknowledged"
    BY <1>0, <1>1, ShapeOfJobs, ZenonT(60)
  <2>4. \A v \in Workers : \A d \in unacked'[v] : job'[v][d] # "handling"
    <3>1. c \notin unacked'[w]
      BY <1>14, Zenon DEF WorkerInv, WorkerShape
    <3>2. \A v \in Workers : unacked'[v] \subseteq unacked[v] /\ unacked[v] \subseteq Copies
      BY <1>14, Placed, Zenon
    <3> QED
      BY <1>1, <3>1, <3>2, ReceivedIsNotHandled, ZenonT(60)
  <2> QED
    BY <1>0, <2>1, <2>2, <2>3, <2>4, ZenonT(60) DEF WorkerShape
<1>6. c \in Jobs(w)
  BY ZenonT(60) DEF Jobs
<1>7. DeathsWithinBudget'
  BY <1>0, <1>1, <1>4, <1>6, <1>14 DEF WorkerInv, DeathsWithinBudget
<1>8. DeathsWereRuns'
  <2>1. \A d \in Copies : d.deaths \in Nat /\ runs[d.msg] \in Nat /\ runs'[d.msg] \in Nat
                          /\ runs'[d.msg] >= runs[d.msg]
    BY <1>2, CopyFields
  <2>2. c.deaths + 1 <= runs'[c.msg] /\ c.deaths <= runs[c.msg]
    <3>1. c.deaths <= runs[c.msg]
      BY <1>6, DeathsOf, ZenonT(60)
    <3>2. c.deaths \in Nat /\ runs[c.msg] \in Nat /\ runs'[c.msg] = runs[c.msg] + 1
      BY <1>2, <2>1, Zenon
    <3> QED
      BY <3>1, <3>2
  <2>3. (\A d \in queue' : d.deaths <= runs'[d.msg]) /\ (\A d \in wait' : d.deaths + 1 <= runs'[d.msg])
    <3>1. /\ \A d \in queue : d.deaths <= runs[d.msg]
          /\ \A d \in wait : d.deaths + 1 <= runs[d.msg]
      BY DeathsOf, Zenon
    <3>2. queue' = queue /\ wait' = wait /\ queue \subseteq Copies /\ wait \subseteq Copies
      BY <1>0, Placed, Zenon
    <3> QED
      BY <2>1, <3>1, <3>2
  <2>4. \A v \in Workers : \A d \in unacked'[v] \cup acks'[v] \cup Jobs(v)' : d.deaths <= runs'[d.msg]
    <3>1. ASSUME NEW v \in Workers, NEW d \in unacked'[v] \cup acks'[v] \cup Jobs(v)'
          PROVE  d = c \/ d \in unacked[v] \cup acks[v] \cup Jobs(v)
      BY <1>4, <3>1, <1>14, ZenonT(60)
    <3>2. \A v \in Workers : unacked[v] \cup acks[v] \cup Jobs(v) \subseteq Copies
      BY Placed, Zenon
    <3> QED
      BY <2>1, <2>2, <3>1, <3>2 DEF WorkerInv, DeathsWereRuns
  <2>5. \A v \in Workers, d \in Copies :
          /\ job'[v][d] \in {"handling", "retrying"} => d.deaths + 1 <= runs'[d.msg]
    <3> SUFFICES ASSUME NEW v \in Workers, NEW d \in Copies,
                        job'[v][d] \in {"handling", "retrying"}
                 PROVE  d.deaths + 1 <= runs'[d.msg]
      BY Zenon
    <3>1. d # c => d.deaths + 1 <= runs[d.msg]
      BY <1>1, DeathsOf, ZenonT(60)
    <3>2. d = c => d.deaths + 1 <= runs'[d.msg]
      BY <2>2, Zenon
    <3>3. /\ d.deaths \in Nat /\ runs[d.msg] \in Nat /\ runs'[d.msg] \in Nat
          /\ runs'[d.msg] >= runs[d.msg]
      BY <2>1, ZenonT(60)
    <3> QED
      BY <3>1, <3>2, <3>3
  <2>6. \A v \in Workers, d \in Copies :
          job'[v][d] = "burying" => d.msg \in Poison \cup hopeless' \/ runs'[d.msg] >= MaxAttempts
    BY <1>0, <1>1, <2>1, WorkerConstants DEF WorkerInv, DeathsWereRuns
  <2> QED
    BY <2>3, <2>4, <2>5, <2>6, Zenon DEF DeathsWereRuns
<1>9. AcknowledgedIsCovered' /\ ManualNeverLoses' /\ BudgetIsSpent'
  BY <1>0, Zenon DEF AcknowledgedIsCovered, ManualNeverLoses, BudgetIsSpent
<1>10. PrefetchIsWorkedOn'
  <2>1. \A v \in Workers : chan[v] = "open" => unacked[v] \subseteq Jobs(v)
    BY Zenon DEF WorkerInv, PrefetchIsWorkedOn
  <2> QED
    BY <1>0, <1>4, <1>14, <2>1 DEF PrefetchIsWorkedOn
<1>11. OneOffer'
  <2>1. /\ wait' = {}
        /\ \A v \in Workers, d \in Copies :
              d.msg \notin Poison => job'[v][d] \in Waiting \cup {"handling"}
    BY <1>0, <1>1, ZenonT(60) DEF WorkerInv, OneOffer
  <2>2. \A v \in Workers, d \in Copies :
          job'[v][d] = "buffered" /\ chan'[v] = "open" => d \in unacked'[v]
    BY <1>0, <1>1, <1>14, BufferedIsUnacked, ZenonT(60)
  <2>3. \A v \in Workers : /\ Offered(v) = unacked[v] /\ Offered(v)' = unacked'[v]
                           /\ Offered(v)' \subseteq Offered(v)
    BY <1>0, <1>14, Zenon DEF Offered
  <2>4. ASSUME NEW m \in Messages, OnOfferOnce(m), m # c.msg PROVE OnOfferOnce(m)'
    <3>1. Withdrawn(m) => Withdrawn(m)'
      BY <1>0, <2>3, Zenon DEF Withdrawn
    <3>2. runs'[m] = runs[m]
      BY <1>2, <2>4, Zenon
    <3> QED
      BY <1>0, <2>3, <2>4, <3>1, <3>2, ZenonT(60) DEF OnOfferOnce
  <2>5. ASSUME OnOfferOnce(c.msg), chan[w] = "open" PROVE OnOfferOnce(c.msg)'
    <3>0. c \in unacked[w]
      BY <2>5, Zenon DEF WorkerInv, OneOffer
    <3>1. c \in Offered(w) /\ c \notin Offered(w)'
      BY <1>14, <2>3, <2>5, <3>0, ZenonT(60)
    <3>2. runs[c.msg] = 0 /\ c.msg \in sent
      <4>1. ~Withdrawn(c.msg)
        BY <3>1, Zenon DEF Withdrawn
      <4>2. c.msg \in sent /\ ~(runs[c.msg] > 0)
        BY <2>5, <4>1, Zenon DEF OnOfferOnce
      <4>3. runs[c.msg] \in Nat
        BY <1>2, Zenon
      <4> QED
        BY <4>2, <4>3
    <3>3. runs'[c.msg] = 1
      <4>1. runs'[c.msg] = runs[c.msg] + 1
        BY <1>2, Zenon
      <4> QED
        BY <3>2, <4>1
    <3>4. Withdrawn(c.msg)'
      <4>1. \A d \in queue' : d.msg # c.msg
        BY <1>0, <2>5, <3>1, Zenon DEF OnOfferOnce
      <4>2. ASSUME NEW v \in Workers, NEW d \in Offered(v)', d.msg = c.msg PROVE FALSE
        <5>1. d \in Offered(v)
          BY <2>3, <4>2, Zenon
        <5>2. v = w /\ d = c
          BY <2>5, <3>1, <4>2, <5>1, Zenon DEF OnOfferOnce
        <5> QED
          BY <3>1, <4>2, <5>2, Zenon
      <4> QED
        BY <4>1, <4>2, Zenon DEF Withdrawn
    <3> QED
      BY <1>0, <2>3, <2>5, <3>2, <3>3, <3>4, SMTT(30) DEF OnOfferOnce
  <2>6. \A m \in Messages \ (Poison \cup ackLost') : OnOfferOnce(m)'
    <3>1. ackLost \subseteq ackLost' /\ (chan[w] # "open" => c.msg \in ackLost')
      BY <1>14, Zenon
    <3> QED
      BY <2>4, <2>5, <3>1, Zenon DEF WorkerInv, OneOffer
  <2> QED
    BY <1>0, <2>1, <2>2, <2>6, Zenon DEF OneOffer
<1> QED
  BY <1>3, <1>5, <1>7, <1>8, <1>9, <1>10, <1>11, Zenon DEF WorkerInv

\* A delivery leaves the buffer: poison is put aside, a good one is handled.
LEMMA DispatchKeeps ==
    ASSUME WorkerInv, NEW w \in Workers, NEW c \in Copies,
           job[w][c] \in {"buffered", "held"}, Dispatch(w, c)
    PROVE  WorkerInv'
<1>0. /\ UNCHANGED <<mode, queue, wait, chan, loop, cancelled, faults, cancels,
                     sent, handled, buried, hopeless>>
      /\ c.msg \in Messages /\ faults' \in Nat
  BY CopyFields, Zenon DEF Dispatch, WorkerInv, TypeOK
<1>1. mode = "Unacknowledged" => c \notin unacked[w]
  BY Zenon DEF WorkerInv, WorkerShape
<1>2. CASE ~Decodes(c) /\ HandlePoison(w, c)
  <2> DEFINE p == IF HasDeadLetter THEN "burying"
                  ELSE IF mode = "Unacknowledged" THEN "none" ELSE "settling"
  <2>1. /\ SetJob(w, c, p) /\ runs' = runs
        /\ UNCHANGED <<mode, brokerVars, chan, loop, cancelled, cancels, sent, ackLost>>
        /\ excused' = IF HasDeadLetter THEN excused ELSE excused \cup {c.msg}
    BY <1>0, <1>2, Zenon DEF HandlePoison, brokerVars
  <2>2. GhostsGrow
    BY <1>0, <2>1 DEF GhostsGrow, WorkerInv, TypeOK
  <2>3. c.msg \in Poison
    BY <1>2, Zenon DEF Decodes
  <2>4. Suits(w, c, p) /\ p \in Phases
    BY <1>1, <2>1, <2>3, Zenon DEF Suits, Phases
  <2>5. RunsSuit(w, c, p)
    BY <2>1, Zenon DEF RunsSuit
  <2>6. \A m \in (buried' \cup excused') \ (buried \cup excused) : m \in Poison
    BY <1>0, <2>1, <2>3, Zenon
  <2> HIDE DEF p
  <2> QED
    BY <1>0, <2>1, <2>2, <2>4, <2>5, <2>6, JobMoves, Zenon
<1>3. CASE /\ Decodes(c) /\ mode # "AckOnReceive" /\ RunHandler(w, c)
           /\ UNCHANGED <<unacked, acks, ackLost>>
  <2>1. /\ SetJob(w, c, "handling") /\ runs' = [runs EXCEPT ![c.msg] = @ + 1]
        /\ UNCHANGED <<mode, brokerVars, chan, loop, cancelled, cancels, sent, ackLost>>
        /\ excused' = excused /\ c.msg \notin Poison
    BY <1>0, <1>3, Zenon DEF RunHandler, brokerVars, Decodes
  <2>2. GhostsGrow
    BY <1>0, <2>1 DEF GhostsGrow, WorkerInv, TypeOK
  <2>3. c.deaths + 1 <= runs'[c.msg]
    <3>1. runs[c.msg] \in Nat /\ c.deaths \in Nat /\ c.deaths <= runs[c.msg]
      BY HandlingWasCounted, Zenon
    <3>2. runs'[c.msg] = runs[c.msg] + 1
      BY <1>0, <2>1, Zenon DEF WorkerInv, TypeOK
    <3> QED
      BY <3>1, <3>2
  <2>4. Suits(w, c, "handling") /\ "handling" \in Phases
    BY <1>3, <2>3, Zenon DEF Suits, Phases
  <2>5. RunsSuit(w, c, "handling")
    BY <2>1, Zenon DEF RunsSuit
  <2> QED
    BY <1>0, <2>1, <2>2, <2>4, <2>5, JobMoves, Zenon
<1>4. CASE Decodes(c) /\ mode = "AckOnReceive" /\ AckOnReceive(w, c)
  <2>1. job[w][c] = "buffered"
    BY <1>4, Zenon DEF WorkerInv, WorkerShape
  <2>2. CASE chan[w] # "closed"
    <3>1. Settle(w, c) /\ RunHandler(w, c)
      BY <1>4, <2>2, Zenon DEF AckOnReceive
    <3> QED
      BY <1>0, <1>4, <2>1, <2>2, <3>1, AckedRunKeeps, Zenon
  <2>3. CASE chan[w] = "closed"
    <3>1. /\ SetJob(w, c, "none") /\ runs' = runs
          /\ UNCHANGED <<mode, brokerVars, chan, loop, cancelled, cancels, sent, ackLost>>
          /\ excused' = excused
      BY <1>0, <1>4, <2>3, Zenon DEF AckOnReceive, LeaveForRedelivery, brokerVars
    <3>2. GhostsGrow
      BY <1>0, <3>1 DEF GhostsGrow, WorkerInv, TypeOK
    <3>3. Suits(w, c, "none") /\ "none" \in Phases
      BY <1>4, <2>3, Zenon DEF Suits, Phases, Waiting
    <3>4. RunsSuit(w, c, "none")
      BY <3>1, Zenon DEF RunsSuit
    <3> QED
      BY <1>0, <3>1, <3>2, <3>3, <3>4, JobMoves, Zenon
  <2> QED
    BY <2>2, <2>3, Zenon
<1> QED
  BY <1>2, <1>3, <1>4, Zenon DEF Dispatch

\* The loop takes a delivery, and dispatches it now or with a permit.
LEMMA TakeKeeps ==
    ASSUME WorkerInv, NEW w \in Workers, NEW c \in Copies, Take(w, c) \/ AcquirePermit(w, c)
    PROVE  WorkerInv'
<1>1. CASE Take(w, c) /\ Bounded
  <2>1. /\ SetJob(w, c, "held") /\ runs' = runs /\ job[w][c] = "buffered"
        /\ UNCHANGED <<mode, brokerVars, chan, loop, cancelled, cancels, sent, ackLost>>
        /\ UNCHANGED <<handled, buried, excused, hopeless, faults>>
    BY <1>1, Zenon DEF Take, ghostVars
  <2>2. GhostsGrow /\ faults' \in Nat
    BY <2>1 DEF GhostsGrow, WorkerInv, TypeOK
  <2>3. Suits(w, c, "held") /\ "held" \in Phases
    BY <1>1, <2>1, Zenon DEF Suits, Phases, Bounded, Waiting
  <2>4. RunsSuit(w, c, "held")
    BY <2>1, Zenon DEF RunsSuit
  <2> QED
    BY <2>1, <2>2, <2>3, <2>4, JobMoves, Zenon
<1>2. CASE Take(w, c) /\ ~Bounded
  <2>1. job[w][c] = "buffered" /\ Dispatch(w, c)
    BY <1>2, Zenon DEF Take
  <2> QED
    BY <2>1, DispatchKeeps, Zenon
<1>3. CASE AcquirePermit(w, c)
  <2>1. job[w][c] = "held" /\ Dispatch(w, c)
    BY <1>3, Zenon DEF AcquirePermit
  <2> QED
    BY <2>1, DispatchKeeps, Zenon
<1> QED
  BY <1>1, <1>2, <1>3, Zenon

-----------------------------------------------------------------------------
(* What a step of the broker has to keep.                                  *)

\* The types a step may change without a handler returning.
PlacesTyped ==
    /\ queue \subseteq Copies /\ wait \subseteq Copies
    /\ unacked \in [Workers -> SUBSET Copies] /\ acks \in [Workers -> SUBSET Copies]
    /\ chan \in [Workers -> {"open", "cut", "closed"}]
    /\ loop \in [Workers -> {"running", "draining", "stopped"}]
    /\ cancelled \subseteq Workers /\ job \in [Workers -> [Copies -> Phases]]
    /\ faults \in Nat /\ cancels \in Nat /\ sent \subseteq Messages /\ ackLost \subseteq Messages

\* No handler returns and no message is given up.
Quiet == UNCHANGED <<mode, runs, handled, buried, excused, hopeless>>

\* Where copies and deliveries come from.
CopiesComeFrom ==
    /\ \A c \in queue' :
          \/ c \in queue \/ \E v \in Workers : c \in unacked[v] \cup acks[v] \cup Jobs(v)
          \/ \E d \in wait : c.msg = d.msg /\ c.deaths = d.deaths + 1
          \/ c.deaths = 0
    /\ \A c \in wait' :
          \/ c \in wait
          \/ \E v \in Workers, d \in Copies :
                job[v][d] = "retrying" /\ c.msg = d.msg /\ c.deaths = d.deaths
    /\ \A v \in Workers : \A c \in unacked'[v] \cup acks'[v] \cup Jobs(v)' :
          c \in queue \cup unacked[v] \cup acks[v] \cup Jobs(v)
    /\ \A v \in Workers, c \in Copies :
          job'[v][c] \in {"handling", "retrying", "burying"} => job'[v][c] = job[v][c]

\* Copies keep their counts and the runs these stand for.
LEMMA DeathsKept ==
    ASSUME WorkerInv, PlacesTyped', Quiet, CopiesComeFrom
    PROVE  (\A c \in queue' : c.deaths < MaxAttempts) /\ DeathsWithinBudget' /\ DeathsWereRuns'
<1>0. /\ runs' = runs /\ hopeless' = hopeless /\ MaxAttempts \in Nat /\ MaxAttempts > 0
      /\ \A c \in Copies : c.deaths \in Nat /\ runs[c.msg] \in Nat
  BY CopyFields, WorkerConstants DEF Quiet, WorkerInv, TypeOK
<1>1. /\ \A c \in queue : c.deaths < MaxAttempts /\ c.deaths <= runs[c.msg]
      /\ \A c \in wait : c.deaths + 1 < MaxAttempts /\ c.deaths + 1 <= runs[c.msg]
      /\ \A v \in Workers : \A c \in unacked[v] \cup acks[v] \cup Jobs(v) :
            c.deaths < MaxAttempts /\ c.deaths <= runs[c.msg]
      /\ \A v \in Workers, c \in Copies :
            job[v][c] = "retrying" => c.deaths + 1 < MaxAttempts /\ c.deaths + 1 <= runs[c.msg]
  BY Zenon DEF WorkerInv, TypeOK, DeathsWithinBudget, DeathsWereRuns
<1>2. \A c \in queue' : c.deaths < MaxAttempts /\ c.deaths <= runs[c.msg]
  <2> SUFFICES ASSUME NEW c \in queue' PROVE c.deaths < MaxAttempts /\ c.deaths <= runs[c.msg]
    BY Zenon
  <2>1. c \in Copies /\ c.deaths \in Nat /\ runs[c.msg] \in Nat
    BY <1>0, Zenon DEF PlacesTyped
  <2>2. CASE c \in queue \/ \E v \in Workers : c \in unacked[v] \cup acks[v] \cup Jobs(v)
    BY <1>1, <2>2, Zenon
  <2>3. CASE \E d \in wait : c.msg = d.msg /\ c.deaths = d.deaths + 1
    BY <1>1, <2>3, Zenon
  <2>4. CASE c.deaths = 0
    BY <1>0, <2>1, <2>4
  <2> QED
    BY <2>2, <2>3, <2>4, Zenon DEF CopiesComeFrom
<1>3. \A c \in wait' : c.deaths + 1 < MaxAttempts /\ c.deaths + 1 <= runs[c.msg]
  BY <1>1, Zenon DEF CopiesComeFrom
<1>4. \A v \in Workers : \A c \in unacked'[v] \cup acks'[v] \cup Jobs(v)' :
        c.deaths < MaxAttempts /\ c.deaths <= runs[c.msg]
  BY <1>1, Zenon DEF CopiesComeFrom
<1>5. DeathsWithinBudget'
  BY <1>1, <1>3, <1>4, Zenon DEF DeathsWithinBudget, CopiesComeFrom
<1>6. \A v \in Workers, c \in Copies :
        /\ job'[v][c] \in {"handling", "retrying"} => c.deaths + 1 <= runs[c.msg]
        /\ job'[v][c] = "burying" => c.msg \in Poison \cup hopeless \/ runs[c.msg] >= MaxAttempts
  BY Zenon DEF WorkerInv, DeathsWereRuns, CopiesComeFrom
<1>7. DeathsWereRuns'
  BY <1>0, <1>2, <1>3, <1>4, <1>6, Zenon DEF DeathsWereRuns
<1> QED
  BY <1>2, <1>5, <1>7, Zenon

\* The rest of the invariant, for a quiet step.
LEMMA QuietStep ==
    ASSUME WorkerInv, PlacesTyped', Quiet, CopiesComeFrom,
           mode = "Manual" => \A c \in Copies : Covered(c) => Covered(c)',
           mode = "Manual" => \A v \in Workers, c \in Copies :
               job'[v][c] \in {"confirming", "settling"} => job'[v][c] = job[v][c] \/ Covered(c)',
           WorkerShape', ManualNeverLoses', PrefetchIsWorkedOn', OneOffer'
    PROVE  WorkerInv'
<1>1. /\ mode' = mode /\ runs' = runs /\ handled' = handled /\ buried' = buried
      /\ excused' = excused /\ hopeless' = hopeless
  BY Zenon DEF Quiet
<1>2. TypeOK'
  BY <1>1, DeathsKept, Zenon DEF TypeOK, PlacesTyped, WorkerInv
<1>3. AcknowledgedIsCovered'
  BY <1>1, Zenon DEF WorkerInv, AcknowledgedIsCovered
<1>4. BudgetIsSpent'
  BY <1>1, Zenon DEF WorkerInv, BudgetIsSpent
<1> QED
  BY <1>2, <1>3, <1>4, DeathsKept, Zenon DEF WorkerInv

\* Copies that stay or come back, and retry copies that expire into a larger
\* count, keep covering what they cover.
StoredKept ==
    /\ \A d \in queue : d \in queue' \/ \E v \in Workers : d \in unacked'[v]
    /\ \A v \in Workers : \A d \in unacked[v] :
          d \in queue' \/ \E u \in Workers : d \in unacked'[u]
    /\ \A d \in wait : d \in wait' \/ \E e \in queue' : e.msg = d.msg /\ e.deaths > d.deaths

\* What covered a copy before the step covers it after.
LEMMA StoredCovers ==
    ASSUME WorkerInv, PlacesTyped', Quiet, StoredKept
    PROVE  /\ \A c \in Copies : Covered(c) => Covered(c)'
           /\ sent' = sent => ManualNeverLoses'
<1>0. mode' = mode /\ handled' = handled /\ buried' = buried /\ excused' = excused
  BY Zenon DEF Quiet
<1>1. ASSUME NEW c \in Copies, Covered(c) PROVE Covered(c)'
  <2>1. CASE c.msg \in handled \cup buried \cup excused
    BY <1>0, <2>1, Zenon DEF Covered
  <2>2. CASE \E d \in wait : d.msg = c.msg /\ d.deaths >= c.deaths
    <3>1. PICK d \in wait : d.msg = c.msg /\ d.deaths >= c.deaths
      BY <2>2, Zenon
    <3>2. CASE d \in wait'
      BY <3>1, <3>2, Zenon DEF Covered
    <3>3. CASE \E e \in queue' : e.msg = d.msg /\ e.deaths > d.deaths
      <4>1. PICK e \in queue' : e.msg = d.msg /\ e.deaths > d.deaths
        BY <3>3, Zenon
      <4>2. d.deaths \in Nat /\ e.deaths \in Nat /\ c.deaths \in Nat
        BY CopyFields, Placed, WorkerConstants DEF PlacesTyped
      <4>3. e.msg = c.msg /\ e.deaths > c.deaths
        BY <3>1, <4>1, <4>2
      <4> QED
        BY <4>1, <4>3, Zenon DEF Covered
    <3> QED
      BY <3>2, <3>3, Zenon DEF StoredKept
  <2>3. CASE \E d \in queue \cup UNION {unacked[v] : v \in Workers} :
               d.msg = c.msg /\ d.deaths > c.deaths
    <3>1. PICK d \in queue \cup UNION {unacked[v] : v \in Workers} :
               d.msg = c.msg /\ d.deaths > c.deaths
      BY <2>3, Zenon
    <3>2. d \in queue' \cup UNION {unacked'[v] : v \in Workers}
      BY <3>1 DEF StoredKept
    <3> QED
      BY <3>1, <3>2, Zenon DEF Covered
  <2> QED
    BY <1>1, <2>1, <2>2, <2>3, Zenon DEF Covered
<1>2. ASSUME sent' = sent, mode = "Manual", NEW m \in sent
      PROVE  m \in handled' \cup buried' \cup excused' \/ \E c \in Held' : c.msg = m
  <2>1. CASE m \in handled \cup buried \cup excused
    BY <1>0, <2>1, Zenon
  <2>2. CASE \E c \in Held : c.msg = m
    <3>1. PICK c \in Held : c.msg = m
      BY <2>2, Zenon
    <3>2. CASE c \in wait
      BY <3>1, <3>2, Zenon DEF StoredKept, Held
    <3>3. CASE c \in queue \cup UNION {unacked[v] : v \in Workers}
      BY <3>1, <3>3 DEF StoredKept, Held
    <3> QED
      BY <3>2, <3>3, Zenon DEF Held
  <2> QED
    BY <1>2, <2>1, <2>2, Zenon DEF WorkerInv, ManualNeverLoses
<1> QED
  BY <1>0, <1>1, <1>2, Zenon DEF ManualNeverLoses

\* A message is offered no more often when copies are only taken away, or
\* given back to the queue by a worker that keeps none of them.
LEMMA OfferGivenBack ==
    ASSUME NEW m \in Messages, NEW w \in Workers, OnOfferOnce(m), runs' = runs, sent \subseteq sent',
           \A v \in Workers : Offered(v)' \subseteq Offered(v),
           \/ \A c \in queue' : c.msg = m => c \in queue
           \/ /\ \A c \in queue' : c.msg = m => c \in queue \cup Offered(w)
              /\ Offered(w)' = {}
    PROVE  OnOfferOnce(m)'
<1>1. Withdrawn(m) => Withdrawn(m)'
  BY Zenon DEF Withdrawn
<1>2. \A c, d \in queue' : c.msg = m /\ d.msg = m => c = d
  BY Zenon DEF OnOfferOnce
<1>3. \A c \in queue', v \in Workers : c.msg = m => \A d \in Offered(v)' : d.msg # m
  BY Zenon DEF OnOfferOnce
<1>4. \A u, v \in Workers : \A c \in Offered(u)', d \in Offered(v)' :
          c.msg = m /\ d.msg = m => u = v /\ c = d
  BY Zenon DEF OnOfferOnce
<1> QED
  BY <1>1, <1>2, <1>3, <1>4, Zenon DEF OnOfferOnce

\* OneOffer, for a quiet step that puts nothing on offer.
LEMMA OneOfferKept ==
    ASSUME WorkerInv, Quiet, NEW w \in Workers, sent \subseteq sent', ackLost \subseteq ackLost',
           mode # "Manual" => wait' = {},
           \A v \in Workers, d \in Copies : job'[v][d] \in Waiting \/ job'[v][d] = job[v][d],
           \A v \in Workers, d \in Copies :
               mode = "AckOnReceive" /\ job'[v][d] = "buffered" /\ chan'[v] = "open"
               => d \in unacked'[v],
           mode # "Manual" => \A v \in Workers : Offered(v)' \subseteq Offered(v),
           mode # "Manual" => \A m \in Messages \ (Poison \cup ackLost') :
               \/ \A c \in queue' : c.msg = m => c \in queue
               \/ /\ \A c \in queue' : c.msg = m => c \in queue \cup Offered(w)
                  /\ Offered(w)' = {}
    PROVE  OneOffer'
<1>1. mode' = mode /\ runs' = runs
  BY Zenon DEF Quiet
<1> SUFFICES ASSUME mode # "Manual" PROVE OneOffer'
  BY <1>1, Zenon DEF OneOffer
<1>2. \A v \in Workers, d \in Copies : d.msg \notin Poison => job'[v][d] \in Waiting \cup {"handling"}
  BY Zenon DEF WorkerInv, OneOffer
<1>3. \A m \in Messages \ (Poison \cup ackLost') : OnOfferOnce(m)'
  <2> SUFFICES ASSUME NEW m \in Messages \ (Poison \cup ackLost') PROVE OnOfferOnce(m)'
    BY Zenon
  <2>1. OnOfferOnce(m)
    BY Zenon DEF WorkerInv, OneOffer
  <2> QED
    BY <1>1, <2>1, OfferGivenBack, Zenon
<1> QED
  BY <1>1, <1>2, <1>3, Zenon DEF OneOffer

\* The invariant, for a quiet step after which every stored copy is stored.
LEMMA BrokerMoves ==
    ASSUME WorkerInv, PlacesTyped', Quiet, CopiesComeFrom, sent' = sent,
           mode = "Manual" => StoredKept,
           mode = "Manual" => \A v \in Workers, c \in Copies :
               job'[v][c] \in {"confirming", "settling"} => job'[v][c] = job[v][c] \/ Covered(c)',
           WorkerShape', PrefetchIsWorkedOn', OneOffer'
    PROVE  WorkerInv'
<1>1. mode' = mode
  BY Zenon DEF Quiet
<1>2. mode = "Manual" => \A c \in Copies : Covered(c) => Covered(c)'
  BY StoredCovers, Zenon
<1>3. ManualNeverLoses'
  <2>1. CASE mode = "Manual"
    BY <2>1, StoredCovers, Zenon
  <2>2. CASE mode # "Manual"
    BY <1>1, <2>2, Zenon DEF ManualNeverLoses
  <2> QED
    BY <2>1, <2>2, Zenon
<1> QED
  BY <1>2, <1>3, QuietStep, Zenon

-----------------------------------------------------------------------------
(* The steps of the broker.                                                *)

\* The broker forgets an acknowledged copy, which nobody counts on any more.
LEMMA AckArrivesKeeps ==
    ASSUME WorkerInv, NEW w \in Workers, NEW c \in acks[w], AckArrives(w, c)
    PROVE  WorkerInv'
<1>0. /\ Quiet /\ queue' = queue /\ wait' = wait /\ unacked' = unacked /\ chan' = chan
      /\ loop' = loop /\ cancelled' = cancelled /\ job' = job /\ faults' = faults
      /\ cancels' = cancels /\ sent' = sent /\ ackLost' = ackLost /\ mode' = mode
  BY Zenon DEF AckArrives, workerVars, ghostVars, Quiet
<1>1. /\ acks' \in [Workers -> SUBSET Copies]
      /\ \A v \in Workers : acks'[v] \subseteq acks[v]
  BY Zenon DEF AckArrives, WorkerInv, TypeOK
<1>2. PlacesTyped'
  BY <1>0, <1>1, Zenon DEF PlacesTyped, WorkerInv, TypeOK
<1>3. \A v \in Workers : Jobs(v)' = Jobs(v) /\ Offered(v)' = Offered(v)
  BY <1>0, Zenon DEF Jobs, Offered
<1>4. CopiesComeFrom
  BY <1>0, <1>1, <1>3, Zenon DEF CopiesComeFrom
<1>5. StoredKept
  BY <1>0, ZenonT(60) DEF StoredKept
<1>6. WorkerShape'
  BY <1>0, <1>1, <1>3 DEF WorkerInv, WorkerShape
<1>7. PrefetchIsWorkedOn'
  BY <1>0, <1>3, Zenon DEF WorkerInv, PrefetchIsWorkedOn
<1>8. OneOffer'
  BY <1>0, <1>3, OneOfferKept, Zenon DEF WorkerInv, OneOffer
<1> QED
  BY <1>0, <1>2, <1>4, <1>5, <1>6, <1>7, <1>8, BrokerMoves, Zenon

\* What the client learns about a lost channel changes nothing at the broker.
LEMMA ConnectionNoticedKeeps ==
    ASSUME WorkerInv, NEW w \in Workers, ConnectionNoticed(w)
    PROVE  WorkerInv'
<1>0. /\ Quiet /\ queue' = queue /\ wait' = wait /\ unacked' = unacked /\ acks' = acks
      /\ loop' = loop /\ cancelled' = cancelled /\ job' = job /\ faults' = faults
      /\ cancels' = cancels /\ sent' = sent /\ ackLost' = ackLost /\ mode' = mode
  BY Zenon DEF ConnectionNoticed, brokerVars, ghostVars, Quiet
<1>1. /\ chan' \in [Workers -> {"open", "cut", "closed"}]
      /\ chan[w] = "cut" /\ chan'[w] = "closed"
      /\ \A v \in Workers : v # w => chan'[v] = chan[v]
  BY Zenon DEF ConnectionNoticed, WorkerInv, TypeOK
<1>2. PlacesTyped'
  BY <1>0, <1>1, Zenon DEF PlacesTyped, WorkerInv, TypeOK
<1>3. \A v \in Workers : Jobs(v)' = Jobs(v) /\ Offered(v)' = Offered(v)
  BY <1>0, Zenon DEF Jobs, Offered
<1>4. CopiesComeFrom
  BY <1>0, <1>3, Zenon DEF CopiesComeFrom
<1>5. StoredKept
  BY <1>0, Zenon DEF StoredKept
<1>6. WorkerShape'
  BY <1>0, <1>1, <1>3 DEF WorkerInv, WorkerShape
<1>7. PrefetchIsWorkedOn'
  BY <1>0, <1>1, <1>3, Zenon DEF WorkerInv, PrefetchIsWorkedOn
<1>8. OneOffer'
  <2>1. \A v \in Workers, d \in Copies :
            mode = "AckOnReceive" /\ job'[v][d] = "buffered" /\ chan'[v] = "open"
            => d \in unacked'[v]
    BY <1>0, <1>1, Zenon DEF WorkerInv, OneOffer
  <2>2. mode # "Manual" => wait' = {}
    BY <1>0, Zenon DEF WorkerInv, OneOffer
  <2> QED
    BY <1>0, <1>3, <2>1, <2>2, OneOfferKept, Zenon
<1> QED
  BY <1>0, <1>2, <1>4, <1>5, <1>6, <1>7, <1>8, BrokerMoves, Zenon

\* Delivery takes a copy from the queue and offers it to one worker.
LEMMA DeliverKeeps ==
    ASSUME WorkerInv, NEW w \in Workers, NEW c \in queue, Deliver(w, c)
    PROVE  WorkerInv'
<1>0. /\ Quiet /\ wait' = wait /\ acks' = acks /\ chan' = chan /\ chan[w] = "open"
      /\ loop' = loop /\ cancelled' = cancelled /\ queue' = queue \ {c} /\ faults' = faults
      /\ cancels' = cancels /\ sent' = sent /\ ackLost' = ackLost /\ mode' = mode
      /\ runs' = runs /\ c \in Copies
  BY Placed, Zenon DEF Deliver, ghostVars, Quiet
<1>1. /\ job' \in [Workers -> [Copies -> Phases]] /\ job'[w][c] = "buffered"
      /\ \A v \in Workers, d \in Copies : v # w \/ d # c => job'[v][d] = job[v][d]
  <2>1. "buffered" \in Phases /\ SetJob(w, c, "buffered") /\ TypeOK
    BY Zenon DEF Phases, Deliver, WorkerInv
  <2> QED
    BY <1>0, <2>1, JobSet
<1>2. /\ unacked' \in [Workers -> SUBSET Copies]
      /\ mode = "Unacknowledged" => unacked' = unacked
      /\ mode # "Unacknowledged" => unacked'[w] = unacked[w] \cup {c}
      /\ \A v \in Workers : v # w => unacked'[v] = unacked[v]
  <2>1. unacked \in [Workers -> SUBSET Copies]
    BY Zenon DEF WorkerInv, TypeOK
  <2>2. CASE mode = "Unacknowledged"
    BY <2>1, <2>2, Zenon DEF Deliver
  <2>3. CASE mode # "Unacknowledged"
    <3>1. unacked' = [unacked EXCEPT ![w] = @ \cup {c}]
      BY <2>3, Zenon DEF Deliver
    <3> QED
      BY <1>0, <2>1, <2>3, <3>1, Zenon
  <2> QED
    BY <2>2, <2>3, Zenon
<1>3. PlacesTyped'
  BY <1>0, <1>1, <1>2, Zenon DEF PlacesTyped, WorkerInv, TypeOK
<1>4. /\ Jobs(w)' = Jobs(w) \cup {c}
      /\ \A v \in Workers : v # w => Jobs(v)' = Jobs(v)
  BY <1>0, <1>1, Zenon DEF Jobs
<1>5. CopiesComeFrom
  <2>1. \A v \in Workers : \A d \in unacked'[v] \cup acks'[v] \cup Jobs(v)' :
          d \in queue \cup unacked[v] \cup acks[v] \cup Jobs(v)
    BY <1>0, <1>2, <1>4, Zenon
  <2>2. \A v \in Workers, d \in Copies :
          job'[v][d] \in {"handling", "retrying", "burying"} => job'[v][d] = job[v][d]
    BY <1>1, Zenon
  <2> QED
    BY <1>0, <2>1, <2>2, Zenon DEF CopiesComeFrom
<1>6. mode = "Manual" => StoredKept
  BY <1>0, <1>2, Zenon DEF StoredKept
<1>7. \A v \in Workers, d \in Copies :
        job'[v][d] \in {"confirming", "settling"} => job'[v][d] = job[v][d]
  BY <1>1, Zenon
<1>8. WorkerShape'
  <2>1. \A v \in Workers : chan'[v] # "open" => unacked'[v] = {} /\ acks'[v] = {}
    BY <1>0, <1>2, Zenon DEF WorkerInv, WorkerShape
  <2>2. \A v \in Workers : loop'[v] = "stopped" => chan'[v] = "closed" /\ Jobs(v)' = {}
    BY <1>0, <1>4, ZenonT(60) DEF WorkerInv, WorkerShape
  <2>3. \A v \in Workers, d \in Copies :
          /\ job'[v][d] = "held" => mode' = "Unacknowledged"
          /\ job'[v][d] = "settling" => mode' # "Unacknowledged"
    BY <1>0, <1>1, ShapeOfJobs, ZenonT(60)
  <2>4. mode' = "Unacknowledged" => \A v \in Workers : unacked'[v] = {} /\ acks'[v] = {}
    BY <1>0, <1>2, Zenon DEF WorkerInv, WorkerShape
  <2>5. mode' = "AckOnReceive" =>
          \A v \in Workers : \A d \in unacked'[v] : job'[v][d] # "handling"
    <3> SUFFICES ASSUME mode' = "AckOnReceive", NEW v \in Workers, NEW d \in unacked'[v]
                 PROVE  job'[v][d] # "handling"
      BY Zenon
    <3>1. (v = w /\ d = c) \/ (d \in unacked[v] /\ d \in Copies)
      BY <1>0, <1>2, Placed, Zenon
    <3> QED
      BY <1>0, <1>1, <3>1, ReceivedIsNotHandled, ZenonT(60)
  <2> QED
    BY <2>1, <2>2, <2>3, <2>4, <2>5, Zenon DEF WorkerShape
<1>9. PrefetchIsWorkedOn'
  BY <1>0, <1>2, <1>4, Zenon DEF WorkerInv, PrefetchIsWorkedOn
<1>10. OneOffer'
  <2> SUFFICES ASSUME mode # "Manual" PROVE OneOffer'
    BY <1>0, Zenon DEF OneOffer
  <2>1. /\ wait' = {}
        /\ \A v \in Workers, d \in Copies :
              d.msg \notin Poison => job'[v][d] \in Waiting \cup {"handling"}
    BY <1>0, <1>1, ZenonT(60) DEF WorkerInv, OneOffer, Waiting
  <2>2. \A v \in Workers, d \in Copies :
          mode = "AckOnReceive" /\ job'[v][d] = "buffered" /\ chan'[v] = "open"
          => d \in unacked'[v]
    BY <1>0, <1>1, <1>2, BufferedIsUnacked, ZenonT(60)
  <2>3. /\ Offered(w)' \subseteq Offered(w) \cup {c}
        /\ \A v \in Workers : v # w => Offered(v)' = Offered(v)
    BY <1>0, <1>1, <1>2, Zenon DEF Offered
  <2>4. ASSUME NEW m \in Messages, OnOfferOnce(m) PROVE OnOfferOnce(m)'
    <3>1. Withdrawn(m) => Withdrawn(m)'
      BY <1>0, <2>3, Zenon DEF Withdrawn
    <3>2. \A d, e \in queue' : d.msg = m /\ e.msg = m => d = e
      BY <1>0, <2>4, Zenon DEF OnOfferOnce
    <3>3. \A d \in queue', v \in Workers : d.msg = m => \A e \in Offered(v)' : e.msg # m
      BY <1>0, <2>3, <2>4, ZenonT(60) DEF OnOfferOnce
    <3>4. \A u, v \in Workers : \A d \in Offered(u)', e \in Offered(v)' :
            d.msg = m /\ e.msg = m => u = v /\ d = e
      BY <1>0, <2>3, <2>4 DEF OnOfferOnce
    <3> QED
      BY <1>0, <2>4, <3>1, <3>2, <3>3, <3>4, Zenon DEF OnOfferOnce
  <2> QED
    BY <1>0, <2>1, <2>2, <2>4, Zenon DEF WorkerInv, OneOffer
<1> QED
  BY <1>0, <1>3, <1>5, <1>6, <1>7, <1>8, <1>9, <1>10, BrokerMoves, Zenon

\* A retry copy comes back with one death more, so it still covers what it
\* covered.
LEMMA ExpireKeeps ==
    ASSUME WorkerInv, NEW c \in wait, Expire(c)
    PROVE  WorkerInv'
<1>0. /\ Quiet /\ unacked' = unacked /\ acks' = acks /\ chan' = chan /\ wait' = wait \ {c}
      /\ loop' = loop /\ cancelled' = cancelled /\ job' = job /\ faults' = faults
      /\ cancels' = cancels /\ sent' = sent /\ ackLost' = ackLost /\ mode' = mode
  BY Zenon DEF Expire, workerVars, ghostVars, Quiet
<1>1. PICK d \in Copies : d.msg = c.msg /\ d.deaths = c.deaths + 1 /\ queue' = queue \cup {d}
  BY Zenon DEF Expire, Fresh
<1>2. mode = "Manual"
  BY Zenon DEF WorkerInv, OneOffer
<1>3. PlacesTyped'
  BY <1>0, <1>1, Zenon DEF PlacesTyped, WorkerInv, TypeOK
<1>4. \A v \in Workers : Jobs(v)' = Jobs(v)
  BY <1>0, Zenon DEF Jobs
<1>5. CopiesComeFrom
  BY <1>0, <1>1, <1>4, Zenon DEF CopiesComeFrom
<1>6. StoredKept
  <2>1. c.deaths \in Nat
    BY Placed, CopyFields, WorkerConstants
  <2>2. d.deaths > c.deaths
    BY <1>1, <2>1, SMTT(30)
  <2> QED
    BY <1>0, <1>1, <2>2, Zenon DEF StoredKept
<1>7. WorkerShape' /\ PrefetchIsWorkedOn' /\ OneOffer'
  BY <1>0, <1>2, <1>4, Zenon DEF WorkerInv, WorkerShape, PrefetchIsWorkedOn, OneOffer
<1> QED
  BY <1>0, <1>3, <1>5, <1>6, <1>7, BrokerMoves, Zenon

\* A published message is stored once and was on offer nowhere before.
LEMMA PublishKeeps ==
    ASSUME WorkerInv, NEW m \in Messages, Publish(m)
    PROVE  WorkerInv'
<1>0. /\ Quiet /\ unacked' = unacked /\ acks' = acks /\ chan' = chan /\ wait' = wait
      /\ loop' = loop /\ cancelled' = cancelled /\ job' = job /\ faults' = faults
      /\ cancels' = cancels /\ sent' = sent \cup {m} /\ ackLost' = ackLost /\ mode' = mode
      /\ m \notin sent /\ runs' = runs /\ handled' = handled /\ buried' = buried
      /\ excused' = excused
  BY Zenon DEF Publish, workerVars, Quiet
<1>1. PICK c \in Copies : c.msg = m /\ c.deaths = 0 /\ queue' = queue \cup {c}
  BY Zenon DEF Publish, Fresh
<1>2. PlacesTyped'
  BY <1>0, <1>1, Zenon DEF PlacesTyped, WorkerInv, TypeOK
<1>3. \A v \in Workers : Jobs(v)' = Jobs(v) /\ Offered(v)' = Offered(v)
  BY <1>0, Zenon DEF Jobs, Offered
<1>4. CopiesComeFrom
  BY <1>0, <1>1, <1>3, Zenon DEF CopiesComeFrom
<1>5. StoredKept
  BY <1>0, <1>1, Zenon DEF StoredKept
<1>6. WorkerShape' /\ PrefetchIsWorkedOn'
  BY <1>0, <1>3, Zenon DEF WorkerInv, WorkerShape, PrefetchIsWorkedOn
<1>7. ManualNeverLoses'
  <2>1. Held \subseteq Held' /\ c \in Held'
    BY <1>0, <1>1, Zenon DEF Held
  <2> QED
    BY <1>0, <1>1, <2>1, Zenon DEF WorkerInv, ManualNeverLoses
<1>8. OneOffer'
  <2> SUFFICES ASSUME mode # "Manual" PROVE OneOffer'
    BY <1>0, ZenonT(60) DEF OneOffer
  <2>1. ASSUME NEW n \in Messages, OnOfferOnce(n), n # m PROVE OnOfferOnce(n)'
    <3>1. \A d \in queue' : d.msg = n => d \in queue
      BY <1>1, <2>1, Zenon
    <3>2. Withdrawn(n) => Withdrawn(n)'
      BY <1>1, <1>3, <2>1, Zenon DEF Withdrawn
    <3>3. \A v \in Workers : Offered(v)' = Offered(v)
      BY <1>3, Zenon
    <3>4. /\ \A d, e \in queue' : d.msg = n /\ e.msg = n => d = e
          /\ \A d \in queue', v \in Workers : d.msg = n => \A e \in Offered(v)' : e.msg # n
      BY <2>1, <3>1, <3>3, ZenonT(60) DEF OnOfferOnce
    <3>5. \A u, v \in Workers : \A d \in Offered(u)', e \in Offered(v)' :
            d.msg = n /\ e.msg = n => u = v /\ d = e
      <4> SUFFICES ASSUME NEW u \in Workers, NEW v \in Workers, NEW d \in Offered(u)',
                          NEW e \in Offered(v)', d.msg = n, e.msg = n
                   PROVE  u = v /\ d = e
        BY Zenon
      <4>1. d \in Offered(u) /\ e \in Offered(v)
        BY <3>3, Zenon
      <4> QED
        BY <2>1, <4>1, Zenon DEF OnOfferOnce
    <3>6. /\ n \notin sent' => Withdrawn(n)' /\ runs'[n] = 0
          /\ runs'[n] > 0 => Withdrawn(n)' /\ runs'[n] = 1
      BY <1>0, <2>1, <3>2, ZenonT(60) DEF OnOfferOnce
    <3> QED
      BY <3>4, <3>5, <3>6, Zenon DEF OnOfferOnce
  <2>2. ASSUME OnOfferOnce(m) PROVE OnOfferOnce(m)'
    <3>1. Withdrawn(m) /\ runs[m] = 0
      BY <1>0, <2>2, Zenon DEF OnOfferOnce
    <3>2. \A d \in queue' : d.msg = m => d = c
      BY <1>1, <3>1, Zenon DEF Withdrawn
    <3>3. \A v \in Workers : \A d \in Offered(v)' : d.msg # m
      BY <1>3, <3>1, Zenon DEF Withdrawn
    <3>4. m \in sent' /\ runs'[m] = 0 /\ ~(runs'[m] > 0)
      <4>1. ~(0 > 0)
        OBVIOUS
      <4> QED
        BY <1>0, <3>1, <4>1, Zenon
    <3> QED
      BY <3>2, <3>3, <3>4, ZenonT(60) DEF OnOfferOnce
  <2> QED
    BY <1>0, <2>1, <2>2, Zenon DEF WorkerInv, OneOffer
<1>9. \A e \in Copies : Covered(e) => Covered(e)'
  BY <1>0, <1>2, <1>5, StoredCovers, Zenon
<1> QED
  BY <1>0, <1>2, <1>4, <1>6, <1>7, <1>8, <1>9, QuietStep, Zenon

\* The broker takes back what the worker has not settled.
LEMMA ConnectionLostKeeps ==
    ASSUME WorkerInv, NEW w \in Workers, ConnectionLost(w)
    PROVE  WorkerInv'
<1>0. /\ Quiet /\ wait' = wait /\ chan[w] = "open" /\ queue' = queue \cup unacked[w] \cup acks[w]
      /\ loop' = loop /\ cancelled' = cancelled /\ faults' = faults - 1 /\ faults > 0
      /\ cancels' = cancels /\ sent' = sent /\ mode' = mode
      /\ ackLost' = ackLost \cup {c.msg : c \in acks[w]}
  BY Zenon DEF ConnectionLost, Redeliver, Fault, Quiet
<1>1. /\ chan' \in [Workers -> {"open", "cut", "closed"}] /\ chan'[w] = "cut"
      /\ \A v \in Workers : v # w => chan'[v] = chan[v]
      /\ unacked' \in [Workers -> SUBSET Copies] /\ unacked'[w] = {}
      /\ \A v \in Workers : v # w => unacked'[v] = unacked[v]
      /\ acks' \in [Workers -> SUBSET Copies] /\ acks'[w] = {}
      /\ \A v \in Workers : v # w => acks'[v] = acks[v]
  BY Zenon DEF ConnectionLost, Redeliver, WorkerInv, TypeOK
<1>2. /\ job' \in [Workers -> [Copies -> Phases]]
      /\ \A v \in Workers, d \in Copies : v # w => job'[v][d] = job[v][d]
      /\ \A d \in Copies : job'[w][d] = job[w][d] \/ job'[w][d] = "none"
  <2>1. PICK lost \in SUBSET {c \in Copies : job[w][c] = "buffered"} :
          job' = [job EXCEPT ![w] = [c \in Copies |-> IF c \in lost THEN "none" ELSE @[c]]]
    BY Zenon DEF ConnectionLost
  <2>2. job \in [Workers -> [Copies -> Phases]] /\ "none" \in Phases
    BY Zenon DEF WorkerInv, TypeOK, Phases
  <2> QED
    BY <2>1, <2>2, Zenon
<1>3. PlacesTyped'
  <2>1. queue' \subseteq Copies /\ wait' \subseteq Copies
    BY <1>0, Placed, Zenon
  <2>2. ackLost' \subseteq Messages
    BY <1>0, Placed, CopyFields, ZenonT(60) DEF WorkerInv, TypeOK
  <2>3. faults' \in Nat
    BY <1>0 DEF WorkerInv, TypeOK
  <2> QED
    BY <1>0, <1>1, <1>2, <2>1, <2>2, <2>3, ZenonT(60) DEF PlacesTyped, WorkerInv, TypeOK
<1>4. \A v \in Workers : Jobs(v)' \subseteq Jobs(v)
  BY <1>2, Zenon DEF Jobs
<1>5. \A v \in Workers : unacked'[v] \subseteq unacked[v] /\ acks'[v] \subseteq acks[v]
  BY <1>1, Zenon
<1>6. CopiesComeFrom
  <2>1. \A v \in Workers, d \in Copies :
          job'[v][d] \in {"handling", "retrying", "burying"} => job'[v][d] = job[v][d]
    BY <1>2, Zenon
  <2> QED
    BY <1>0, <1>4, <1>5, <2>1, Zenon DEF CopiesComeFrom
<1>7. StoredKept
  BY <1>0, <1>1, Zenon DEF StoredKept
<1>8. WorkerShape'
  <2>1. \A v \in Workers : chan'[v] # "open" => unacked'[v] = {} /\ acks'[v] = {}
    BY <1>1, Zenon DEF WorkerInv, WorkerShape
  <2>2. \A v \in Workers : loop'[v] = "stopped" => chan'[v] = "closed" /\ Jobs(v)' = {}
    BY <1>0, <1>1, <1>4, ZenonT(60) DEF WorkerInv, WorkerShape
  <2>3. \A v \in Workers, d \in Copies :
          /\ job'[v][d] = "held" => mode' = "Unacknowledged"
          /\ job'[v][d] = "settling" => mode' # "Unacknowledged"
    BY <1>0, <1>2, ShapeOfJobs, ZenonT(60)
  <2>4. mode' = "Unacknowledged" => \A v \in Workers : unacked'[v] = {} /\ acks'[v] = {}
    BY <1>0, <1>1, ZenonT(60) DEF WorkerInv, WorkerShape
  <2>5. mode' = "AckOnReceive" =>
          \A v \in Workers : \A d \in unacked'[v] : job'[v][d] # "handling"
    <3> SUFFICES ASSUME mode' = "AckOnReceive", NEW v \in Workers, NEW d \in unacked'[v]
                 PROVE  job'[v][d] # "handling"
      BY Zenon
    <3>1. d \in unacked[v] /\ d \in Copies
      BY <1>1, Placed, Zenon
    <3>2. job[v][d] # "handling"
      BY <1>0, <3>1, ReceivedIsNotHandled, Zenon
    <3> QED
      BY <1>2, <3>1, <3>2, Zenon
  <2> QED
    BY <2>1, <2>2, <2>3, <2>4, <2>5, Zenon DEF WorkerShape
<1>9. PrefetchIsWorkedOn'
  <2>1. \A v \in Workers : v # w => Jobs(v)' = Jobs(v)
    BY <1>2, Zenon DEF Jobs
  <2> QED
    BY <1>1, <2>1, Zenon DEF WorkerInv, PrefetchIsWorkedOn
<1>10. OneOffer'
  <2>1. mode # "Manual" => wait' = {}
    BY <1>0, Zenon DEF WorkerInv, OneOffer
  <2>2. \A v \in Workers, d \in Copies : job'[v][d] \in Waiting \/ job'[v][d] = job[v][d]
    BY <1>2, Zenon DEF Waiting
  <2>3. \A v \in Workers, d \in Copies :
          mode = "AckOnReceive" /\ job'[v][d] = "buffered" /\ chan'[v] = "open"
          => d \in unacked'[v]
    BY <1>1, <1>2, BufferedIsUnacked, ZenonT(60)
  <2>4. \A v \in Workers : Offered(v)' \subseteq Offered(v)
    BY <1>0, <1>2, <1>5, Zenon DEF Offered
  <2>5. CASE mode = "Unacknowledged"
    <3>1. queue' = queue
      BY <1>0, <2>5, Zenon DEF WorkerInv, WorkerShape
    <3> QED
      BY <1>0, <2>1, <2>2, <2>3, <2>4, <3>1, OneOfferKept, Zenon
  <2>6. CASE mode # "Unacknowledged"
    <3>1. Offered(w) = unacked[w] /\ Offered(w)' = {}
      BY <1>0, <1>1, <2>6, Zenon DEF Offered
    <3>2. \A m \in Messages \ (Poison \cup ackLost') :
            \A c \in queue' : c.msg = m => c \in queue \cup Offered(w)
      BY <1>0, <3>1, Zenon
    <3> QED
      BY <1>0, <2>1, <2>2, <2>3, <2>4, <3>1, <3>2, OneOfferKept, Zenon
  <2> QED
    BY <2>5, <2>6, Zenon
<1>11. \A v \in Workers, d \in Copies :
        job'[v][d] \in {"confirming", "settling"} => job'[v][d] = job[v][d]
  BY <1>2, Zenon
<1> QED
  BY <1>0, <1>3, <1>6, <1>7, <1>8, <1>9, <1>10, <1>11, BrokerMoves, Zenon

-----------------------------------------------------------------------------
(* The steps of a worker's loop.                                           *)

\* A worker that ends, in order or by a crash, keeps no delivery; the broker
\* takes back what it had not settled.
LEMMA StopKeeps ==
    ASSUME WorkerInv, NEW w \in Workers, Quiet, NoJobs(w),
           loop' = [loop EXCEPT ![w] = "stopped"], chan' = [chan EXCEPT ![w] = "closed"],
           unacked' = [unacked EXCEPT ![w] = {}], acks' = [acks EXCEPT ![w] = {}],
           queue \cup unacked[w] \subseteq queue',
           queue' \subseteq queue \cup unacked[w] \cup acks[w],
           ackLost \subseteq ackLost', ackLost' \subseteq Messages,
           \A c \in queue' : c \in queue \cup unacked[w] \/ c.msg \in ackLost',
           wait' = wait, cancelled' = cancelled, cancels' = cancels, sent' = sent,
           faults' \in Nat
    PROVE  WorkerInv'
<1>0. mode' = mode
  BY Zenon DEF Quiet
<1>1. /\ chan' \in [Workers -> {"open", "cut", "closed"}] /\ chan'[w] = "closed"
      /\ \A v \in Workers : v # w => chan'[v] = chan[v]
      /\ loop' \in [Workers -> {"running", "draining", "stopped"}]
      /\ \A v \in Workers : v # w => loop'[v] = loop[v]
  BY Zenon DEF WorkerInv, TypeOK
<1>2. /\ unacked' \in [Workers -> SUBSET Copies] /\ unacked'[w] = {}
      /\ \A v \in Workers : v # w => unacked'[v] = unacked[v]
      /\ acks' \in [Workers -> SUBSET Copies] /\ acks'[w] = {}
      /\ \A v \in Workers : v # w => acks'[v] = acks[v]
  BY Zenon DEF WorkerInv, TypeOK
<1>3. /\ job' \in [Workers -> [Copies -> Phases]]
      /\ \A v \in Workers, d \in Copies : v # w => job'[v][d] = job[v][d]
      /\ \A d \in Copies : job'[w][d] = "none"
  <2>1. job \in [Workers -> [Copies -> Phases]] /\ "none" \in Phases
    BY Zenon DEF WorkerInv, TypeOK, Phases
  <2> QED
    BY <2>1, Zenon DEF NoJobs
<1>4. PlacesTyped'
  <2>1. queue' \subseteq Copies /\ wait' \subseteq Copies
    BY Placed, Zenon
  <2> QED
    BY <1>1, <1>2, <1>3, <2>1, Zenon DEF PlacesTyped, WorkerInv, TypeOK
<1>5. Jobs(w)' = {} /\ \A v \in Workers : v # w => Jobs(v)' = Jobs(v)
  BY <1>3, Zenon DEF Jobs
<1>6. CopiesComeFrom
  <2>1. \A v \in Workers, d \in Copies :
          job'[v][d] \in {"handling", "retrying", "burying"} => job'[v][d] = job[v][d]
    BY <1>3, Zenon
  <2>2. \A v \in Workers : \A c \in unacked'[v] \cup acks'[v] \cup Jobs(v)' :
          c \in queue \cup unacked[v] \cup acks[v] \cup Jobs(v)
    BY <1>2, <1>5, Zenon
  <2> QED
    BY <2>1, <2>2, Zenon DEF CopiesComeFrom
<1>7. StoredKept
  BY <1>2, Zenon DEF StoredKept
<1>8. WorkerShape'
  <2>1. \A v \in Workers : chan'[v] # "open" => unacked'[v] = {} /\ acks'[v] = {}
    BY <1>1, <1>2, ZenonT(60) DEF WorkerInv, WorkerShape
  <2>2. \A v \in Workers : loop'[v] = "stopped" => chan'[v] = "closed" /\ Jobs(v)' = {}
    BY <1>1, <1>5, StoppedIsIdle, ZenonT(60)
  <2>3. \A v \in Workers, d \in Copies :
          /\ job'[v][d] = "held" => mode' = "Unacknowledged"
          /\ job'[v][d] = "settling" => mode' # "Unacknowledged"
    BY <1>0, <1>3, ShapeOfJobs, ZenonT(60)
  <2>4. mode' = "Unacknowledged" => \A v \in Workers : unacked'[v] = {} /\ acks'[v] = {}
    BY <1>0, <1>2, ZenonT(60) DEF WorkerInv, WorkerShape
  <2>5. mode' = "AckOnReceive" =>
          \A v \in Workers : \A d \in unacked'[v] : job'[v][d] # "handling"
    <3> SUFFICES ASSUME mode' = "AckOnReceive", NEW v \in Workers, NEW d \in unacked'[v]
                 PROVE  job'[v][d] # "handling"
      BY Zenon
    <3>1. v # w /\ d \in unacked[v] /\ d \in Copies
      BY <1>2, Placed, Zenon
    <3>2. job[v][d] # "handling"
      BY <1>0, <3>1, ReceivedIsNotHandled, Zenon
    <3> QED
      BY <1>3, <3>1, <3>2, Zenon
  <2> QED
    BY <2>1, <2>2, <2>3, <2>4, <2>5, ZenonT(60) DEF WorkerShape
<1>9. PrefetchIsWorkedOn'
  BY <1>1, <1>2, <1>5 DEF WorkerInv, PrefetchIsWorkedOn
<1>10. OneOffer'
  <2>1. mode # "Manual" => wait' = {}
    BY Zenon DEF WorkerInv, OneOffer
  <2>2. \A v \in Workers, d \in Copies : job'[v][d] \in Waiting \/ job'[v][d] = job[v][d]
    BY <1>3, ZenonT(60) DEF Waiting
  <2>3. \A v \in Workers, d \in Copies :
          mode = "AckOnReceive" /\ job'[v][d] = "buffered" /\ chan'[v] = "open"
          => d \in unacked'[v]
    <3> SUFFICES ASSUME NEW v \in Workers, NEW d \in Copies, mode = "AckOnReceive",
                        job'[v][d] = "buffered", chan'[v] = "open"
                 PROVE  d \in unacked'[v]
      BY Zenon
    <3>1. v # w
      BY <1>1, Zenon
    <3>2. job[v][d] = "buffered"
      BY <1>3, <3>1, Zenon
    <3>3. chan[v] = "open"
      BY <1>1, <3>1, Zenon
    <3>4. unacked'[v] = unacked[v]
      BY <1>2, <3>1, Zenon
    <3> QED
      BY <3>2, <3>3, <3>4, BufferedIsUnacked, Zenon
  <2>4. Offered(w)' = {} /\ \A v \in Workers : v # w => Offered(v)' = Offered(v)
    BY <1>0, <1>2, <1>3, ZenonT(60) DEF Offered
  <2>5. \A v \in Workers : Offered(v)' \subseteq Offered(v)
    BY <2>4, Zenon
  <2>6. mode # "Manual" => unacked[w] \subseteq Offered(w)
    BY Zenon DEF Offered, WorkerInv, WorkerShape
  <2>7. mode # "Manual" => \A m \in Messages \ (Poison \cup ackLost') :
          \A c \in queue' : c.msg = m => c \in queue \cup Offered(w)
    BY <2>6, Zenon
  <2> QED
    BY <2>1, <2>2, <2>3, <2>4, <2>5, <2>7, OneOfferKept, Zenon
<1>11. \A v \in Workers, d \in Copies :
        job'[v][d] \in {"confirming", "settling"} => job'[v][d] = job[v][d]
  BY <1>3, Zenon
<1> QED
  BY <1>4, <1>6, <1>7, <1>8, <1>9, <1>10, <1>11, BrokerMoves, Zenon

\* run() returns: acknowledgements sent before are read, the rest comes back.
LEMMA ReturnKeeps ==
    ASSUME WorkerInv, NEW w \in Workers, Return(w)
    PROVE  WorkerInv'
<1>1. /\ Quiet /\ ackLost' = ackLost /\ wait' = wait /\ cancelled' = cancelled
      /\ cancels' = cancels /\ sent' = sent /\ faults' = faults /\ NoJobs(w)
  BY Zenon DEF Return, Quiet, ghostVars
<1>2. ackLost' \subseteq Messages /\ faults' \in Nat
  BY <1>1, Zenon DEF WorkerInv, TypeOK
<1>3. /\ loop' = [loop EXCEPT ![w] = "stopped"] /\ chan' = [chan EXCEPT ![w] = "closed"]
      /\ unacked' = [unacked EXCEPT ![w] = {}] /\ acks' = [acks EXCEPT ![w] = {}]
      /\ queue' = queue \cup unacked[w]
  BY Zenon DEF Return
<1> QED
  BY <1>1, <1>2, <1>3, StopKeeps, Zenon

\* A crash: acknowledgements under way may be lost and count as lost.
LEMMA CrashKeeps ==
    ASSUME WorkerInv, NEW w \in Workers, Crash(w)
    PROVE  WorkerInv'
<1>1. /\ Quiet /\ ackLost' = ackLost \cup {c.msg : c \in acks[w]} /\ wait' = wait
      /\ cancelled' = cancelled /\ cancels' = cancels /\ sent' = sent /\ faults' = faults - 1
      /\ faults > 0 /\ NoJobs(w)
  BY Zenon DEF Crash, Redeliver, Fault, Quiet
<1>2. ackLost' \subseteq Messages /\ faults' \in Nat
  <2>1. ackLost \subseteq Messages /\ faults \in Nat
    BY Zenon DEF WorkerInv, TypeOK
  <2>2. ackLost' \subseteq Messages
    BY <1>1, <2>1, Placed, CopyFields, Zenon
  <2>3. faults' \in Nat
    BY <1>1, <2>1
  <2> QED
    BY <2>2, <2>3, Zenon
<1>3. /\ loop' = [loop EXCEPT ![w] = "stopped"] /\ chan' = [chan EXCEPT ![w] = "closed"]
      /\ unacked' = [unacked EXCEPT ![w] = {}] /\ acks' = [acks EXCEPT ![w] = {}]
      /\ queue' = queue \cup unacked[w] \cup acks[w]
  BY Zenon DEF Crash, Redeliver
<1> QED
  BY <1>1, <1>2, <1>3, StopKeeps, Zenon
=============================================================================
