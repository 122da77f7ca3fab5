---------------------------- MODULE RadioTx_proofs ----------------------------
(***************************************************************************)
(* Proofs about RadioTx, for every set of frames and every choice of Coex, *)
(* Dmp and Overlap: the flags of miscRadioState agree with one another and *)
(* the driver implements TxService.  Nothing is assumed of RAIL so far:    *)
(* these proofs use no fact about which events it raises when.             *)
(*                                                                         *)
(* The section that follows takes RAIL as modelled and a stack that does   *)
(* not ask for a window while it has a frame or a window in the driver: no *)
(* assertion fails, the ACK decides and no frame is cut off by             *)
(* radioSetIdle.  The last one is about builds without coexistence, where  *)
(* there is one schedule request at a time.                                *)
(***************************************************************************)
EXTENDS RadioTx, TLAPS

\* The states the callbacks work on.
State == [flags : SUBSET Flags, em : BOOLEAN, sent : BOOLEAN,
          yieldedOnAck : BOOLEAN, failed : BOOLEAN, idle : BOOLEAN,
          pta : BOOLEAN]

\* A set of flags that fits together.
Good(F) ==
    /\ \A e1, e2 \in F \cap TxEvents : e1 = e2
    /\ "ONGOING_TX_DATA" \in F => F \cap TxEvents = {}
    /\ "WAITING_FOR_ACK" \in F
          => "ONGOING_TX_DATA" \in F /\ sCurrentTxPacket.ack

\* How the interrupt may take one set of flags to another: a frame that is
\* not ongoing keeps its outcome, an ongoing one goes on or gets an outcome.
Evolves(F, G) ==
    /\ "ONGOING_TX_DATA" \in G => "ONGOING_TX_DATA" \in F
    /\ "ONGOING_TX_DATA" \notin F => G \cap TxEvents = F \cap TxEvents
    /\ "ONGOING_TX_DATA" \in F /\ "ONGOING_TX_DATA" \notin G
          => G \cap TxEvents # {}

GoodStep(s, t) == t \in State /\ Good(t.flags) /\ Evolves(s.flags, t.flags)

-----------------------------------------------------------------------------
(* The operators on flags.                                                 *)

LEMMA NowIsState ==
    ASSUME TypeOK PROVE Now \in State /\ Now.flags = miscRadioState
BY DEF TypeOK, Now, State

LEMMA SetState ==
    ASSUME NEW s \in State, NEW F \in SUBSET Flags
    PROVE  /\ Set(s, F) \in State
           /\ Set(s, F).flags = s.flags \cup F
BY DEF State, Set

LEMMA ClearState ==
    ASSUME NEW s \in State, NEW F
    PROVE  /\ Clear(s, F) \in State
           /\ Clear(s, F).flags = s.flags \ F
BY DEF State, Clear

LEMMA AssertState ==
    ASSUME NEW s \in State, NEW ok
    PROVE  /\ Assert(s, ok) \in State
           /\ Assert(s, ok).flags = s.flags
BY DEF State, Assert

\* The fields that are not flags.
LEMMA OtherFields ==
    ASSUME NEW s \in State, NEW b \in BOOLEAN
    PROVE  /\ [s EXCEPT !.em = b] \in State
           /\ [s EXCEPT !.em = b].flags = s.flags
           /\ [s EXCEPT !.sent = b] \in State
           /\ [s EXCEPT !.sent = b].flags = s.flags
           /\ [s EXCEPT !.yieldedOnAck = b] \in State
           /\ [s EXCEPT !.yieldedOnAck = b].flags = s.flags
           /\ [s EXCEPT !.idle = b] \in State
           /\ [s EXCEPT !.idle = b].flags = s.flags
           /\ [s EXCEPT !.pta = b] \in State
           /\ [s EXCEPT !.pta = b].flags = s.flags
BY DEF State

LEMMA StepReflexive ==
    ASSUME NEW s \in State, Good(s.flags) PROVE GoodStep(s, s)
BY DEF GoodStep, Evolves

LEMMA StepTransitive ==
    ASSUME NEW s \in State, NEW t, NEW u, Good(s.flags),
           GoodStep(s, t), GoodStep(t, u)
    PROVE  GoodStep(s, u)
BY DEF GoodStep, Evolves, Good

\* Taking away flags other than ONGOING_TX_DATA and the outcomes does no harm.
LEMMA ClearStep ==
    ASSUME NEW s \in State, Good(s.flags), NEW F,
           F \cap (TxEvents \cup {"ONGOING_TX_DATA"}) = {}
    PROVE  GoodStep(s, Clear(s, F))
<1>1. Clear(s, F) \in State /\ Clear(s, F).flags = s.flags \ F
  BY ClearState
<1>2. (s.flags \ F) \cap TxEvents = s.flags \cap TxEvents
  OBVIOUS
<1>3. Good(s.flags \ F)
  BY <1>2 DEF Good
<1>4. Evolves(s.flags, s.flags \ F)
  BY <1>2 DEF Evolves
<1> QED BY <1>1, <1>3, <1>4 DEF GoodStep

-----------------------------------------------------------------------------
(* The callbacks.                                                          *)

\* How an ongoing frame ends: with one outcome, and nothing awaited.
LEMMA EndStep ==
    ASSUME NEW s \in State, Good(s.flags), "ONGOING_TX_DATA" \in s.flags,
           NEW t \in State, NEW e \in TxEvents,
           t.flags \cap TxEvents = {e},
           "ONGOING_TX_DATA" \notin t.flags,
           "WAITING_FOR_ACK" \notin t.flags,
           t.flags \subseteq s.flags \cup {e}
    PROVE  GoodStep(s, t)
<1>1. Good(t.flags)
  BY DEF Good, TxEvents
<1>2. Evolves(s.flags, t.flags)
  BY DEF Evolves
<1> QED BY <1>1, <1>2 DEF GoodStep

LEMMA SentStep ==
    ASSUME NEW s \in State, Good(s.flags)
    PROVE  GoodStep(s, packetSentCallback(s))
<1>1. CASE ~Has(s, "ONGOING_TX_DATA")
  BY <1>1, StepReflexive DEF packetSentCallback
<1>2. CASE Has(s, "ONGOING_TX_DATA")
  <2> DEFINE c == Clear(s, {"CURRENT_TX_USE_CSMA"})
             t == [c EXCEPT !.sent = TRUE]
             w == Set(t, {"WAITING_FOR_ACK"})
             v == Set(t, {"TX_SUCCESS"})
             u == Clear(v, {"ONGOING_TX_DATA", "SCHEDULED_TX_STARTED"})
  <2>1. c \in State /\ c.flags = s.flags \ {"CURRENT_TX_USE_CSMA"}
    BY ClearState
  <2>2. t \in State /\ t.flags = c.flags
    <3> HIDE DEF c
    <3> QED BY <2>1, OtherFields
  <2> HIDE DEF c, t
  <2>3. w \in State /\ w.flags = t.flags \cup {"WAITING_FOR_ACK"}
    BY <2>2, SetState DEF Flags
  <2>4. v \in State /\ v.flags = t.flags \cup {"TX_SUCCESS"}
    BY <2>2, SetState DEF Flags, TxEvents
  <2> HIDE DEF w, v
  <2>5. u \in State
        /\ u.flags = v.flags \ {"ONGOING_TX_DATA", "SCHEDULED_TX_STARTED"}
    BY <2>4, ClearState
  <2> HIDE DEF u
  <2>6. packetSentCallback(s) = IF txWaitingForAck(t) THEN w ELSE u
    BY <1>2 DEF packetSentCallback, c, t, w, v, u
  <2>7. CASE txWaitingForAck(t)
    <3>1. "ONGOING_TX_DATA" \in t.flags /\ sCurrentTxPacket.ack
      BY <2>7 DEF txWaitingForAck, Has
    <3>2. w.flags \cap TxEvents = s.flags \cap TxEvents
      BY <2>1, <2>2, <2>3 DEF TxEvents
    <3>3. Good(w.flags)
      BY <2>1, <2>2, <2>3, <3>1, <3>2 DEF Good
    <3>4. Evolves(s.flags, w.flags)
      BY <2>1, <2>2, <2>3, <3>1, <3>2 DEF Evolves
    <3> QED BY <2>3, <2>6, <2>7, <3>3, <3>4 DEF GoodStep
  <2>8. CASE ~txWaitingForAck(t)
    <3>1. "ONGOING_TX_DATA" \in s.flags /\ s.flags \cap TxEvents = {}
      BY <1>2 DEF Has, Good
    <3>2. ~sCurrentTxPacket.ack
      BY <2>1, <2>2, <2>8, <3>1 DEF txWaitingForAck, Has
    <3>3. "WAITING_FOR_ACK" \notin s.flags
      BY <3>2 DEF Good
    <3>4. u.flags \cap TxEvents = {"TX_SUCCESS"}
      BY <2>1, <2>2, <2>4, <2>5, <3>1 DEF TxEvents
    <3>5. "TX_SUCCESS" \in TxEvents
      BY DEF TxEvents
    <3>6. /\ "ONGOING_TX_DATA" \notin u.flags
          /\ "WAITING_FOR_ACK" \notin u.flags
          /\ u.flags \subseteq s.flags \cup {"TX_SUCCESS"}
      BY <2>1, <2>2, <2>4, <2>5, <3>3
    <3>7. GoodStep(s, u)
      BY <2>5, <3>1, <3>4, <3>5, <3>6, EndStep
    <3> QED BY <2>6, <2>8, <3>7
  <2> QED BY <2>7, <2>8
<1> QED BY <1>1, <1>2

LEMMA FailedStep ==
    ASSUME NEW s \in State, Good(s.flags), NEW status
    PROVE  GoodStep(s, txFailedCallback(s, status))
<1>1. CASE ~Has(s, "ONGOING_TX_DATA")
  BY <1>1, StepReflexive DEF txFailedCallback
<1>2. CASE Has(s, "ONGOING_TX_DATA")
  <2> DEFINE ended == {"ONGOING_TX_DATA", "WAITING_FOR_ACK",
                       "SCHEDULED_TX_STARTED"}
             b == Set(s, {"TX_CCA_FAILED"})
             a == Clear(b, {"CURRENT_TX_USE_CSMA"})
             c == Set(s, {"TX_FAILED"})
             t == IF status = "TX_CCA_FAILED" THEN a ELSE c
             p == [t EXCEPT !.pta = FALSE]
             u == Clear(p, ended)
             e == IF status = "TX_CCA_FAILED" THEN "TX_CCA_FAILED"
                                              ELSE "TX_FAILED"
  <2>1. b \in State /\ b.flags = s.flags \cup {"TX_CCA_FAILED"}
    BY SetState DEF Flags, TxEvents
  <2>2. c \in State /\ c.flags = s.flags \cup {"TX_FAILED"}
    BY SetState DEF Flags, TxEvents
  <2> HIDE DEF b, c
  <2>3. a \in State /\ a.flags = b.flags \ {"CURRENT_TX_USE_CSMA"}
    BY <2>1, ClearState
  <2> HIDE DEF a
  <2>4. t \in State /\ t.flags \subseteq s.flags \cup {e} /\ e \in t.flags
    BY <2>1, <2>2, <2>3
  <2>5. p \in State /\ p.flags = t.flags
    <3> HIDE DEF t
    <3> QED BY <2>4, OtherFields
  <2> HIDE DEF p
  <2>6. u \in State /\ u.flags = p.flags \ ended
    <3> HIDE DEF ended
    <3> QED BY <2>5, ClearState
  <2>7. txFailedCallback(s, status) = u
    BY <1>2 DEF txFailedCallback, b, a, c, p
  <2> HIDE DEF t, u
  <2>8. "ONGOING_TX_DATA" \in s.flags /\ s.flags \cap TxEvents = {}
    BY <1>2 DEF Has, Good
  <2>9. e \in TxEvents
    BY DEF TxEvents
  <2>10. /\ u.flags \cap TxEvents = {e}
         /\ "ONGOING_TX_DATA" \notin u.flags
         /\ "WAITING_FOR_ACK" \notin u.flags
         /\ u.flags \subseteq s.flags \cup {e}
    BY <2>4, <2>5, <2>6, <2>8, <2>9 DEF TxEvents
  <2> HIDE DEF e
  <2>11. GoodStep(s, u)
    BY <2>6, <2>8, <2>9, <2>10, EndStep
  <2> QED BY <2>7, <2>11
<1> QED BY <1>1, <1>2

\* The timeout is only taken while an ACK is awaited.
LEMMA TimeoutStep ==
    ASSUME NEW s \in State, Good(s.flags), Has(s, "WAITING_FOR_ACK")
    PROVE  GoodStep(s, ackTimeoutCallback(s))
<1> DEFINE ended == {"ONGOING_TX_DATA", "SCHEDULED_TX_STARTED",
                     "WAITING_FOR_ACK"}
           a == Assert(s, txWaitingForAck(s) /\ Has(s, "WAITING_FOR_ACK"))
           b == Set(a, {"TX_NO_ACK"})
           c == Clear(b, ended)
           u == [c EXCEPT !.em = FALSE]
<1>1. a \in State /\ a.flags = s.flags
  BY AssertState
<1> HIDE DEF a
<1>2. b \in State /\ b.flags = s.flags \cup {"TX_NO_ACK"}
  BY <1>1, SetState DEF Flags, TxEvents
<1> HIDE DEF b
<1>3. c \in State /\ c.flags = b.flags \ ended
  <2> HIDE DEF ended
  <2> QED BY <1>2, ClearState
<1> HIDE DEF c
<1>4. u \in State /\ u.flags = c.flags
  BY <1>3, OtherFields
<1>5. ackTimeoutCallback(s) = u
  BY DEF ackTimeoutCallback, a, b, c
<1> HIDE DEF u
<1>6. "ONGOING_TX_DATA" \in s.flags /\ s.flags \cap TxEvents = {}
  BY DEF Has, Good
<1>7. "TX_NO_ACK" \in TxEvents
  BY DEF TxEvents
<1>8. /\ u.flags \cap TxEvents = {"TX_NO_ACK"}
      /\ "ONGOING_TX_DATA" \notin u.flags
      /\ "WAITING_FOR_ACK" \notin u.flags
      /\ u.flags \subseteq s.flags \cup {"TX_NO_ACK"}
  BY <1>2, <1>3, <1>4, <1>6, <1>7 DEF TxEvents
<1>9. GoodStep(s, u)
  BY <1>4, <1>6, <1>7, <1>8, EndStep
<1> QED BY <1>5, <1>9

LEMMA AckReceivedStep ==
    ASSUME NEW s \in State, Good(s.flags), NEW fp \in BOOLEAN
    PROVE  GoodStep(s, ackReceived(s, fp))
<1> DEFINE ended == {"WAITING_FOR_ACK", "ONGOING_TX_DATA",
                     "SCHEDULED_TX_STARTED"}
           a == Set(s, {"TX_SUCCESS"})
           b == Clear(a, ended)
           t == IF txWaitingForAck(s) THEN b ELSE s
           m == [t EXCEPT !.em = TRUE]
           u == IF txWaitingForAck(s) /\ txIsDataRequest(t) /\ fp
                THEN m ELSE t
           y == [u EXCEPT !.yieldedOnAck = TRUE]
           r == IF txIsDataRequest(u) THEN u ELSE y
<1>1. GoodStep(s, t)
  <2>1. CASE ~txWaitingForAck(s)
    BY <2>1, StepReflexive
  <2>2. CASE txWaitingForAck(s)
    <3>1. a \in State /\ a.flags = s.flags \cup {"TX_SUCCESS"}
      BY SetState DEF Flags, TxEvents
    <3> HIDE DEF a
    <3>2. b \in State /\ b.flags = a.flags \ ended
      <4> HIDE DEF ended
      <4> QED BY <3>1, ClearState
    <3> HIDE DEF b
    <3>3. "ONGOING_TX_DATA" \in s.flags /\ s.flags \cap TxEvents = {}
      BY <2>2 DEF txWaitingForAck, Has, Good
    <3>4. "TX_SUCCESS" \in TxEvents
      BY DEF TxEvents
    <3>5. /\ b.flags \cap TxEvents = {"TX_SUCCESS"}
          /\ "ONGOING_TX_DATA" \notin b.flags
          /\ "WAITING_FOR_ACK" \notin b.flags
          /\ b.flags \subseteq s.flags \cup {"TX_SUCCESS"}
      BY <3>1, <3>2, <3>3, <3>4 DEF TxEvents
    <3>6. GoodStep(s, b)
      BY <3>2, <3>3, <3>4, <3>5, EndStep
    <3> QED BY <2>2, <3>6
  <2> QED BY <2>1, <2>2
<1>2. ackReceived(s, fp) = r
  BY DEF ackReceived
<1> HIDE DEF t
<1>3. t \in State
  BY <1>1 DEF GoodStep
<1>4. m \in State /\ m.flags = t.flags
  BY <1>3, OtherFields
<1> HIDE DEF m
<1>5. u \in State /\ u.flags = t.flags
  BY <1>3, <1>4
<1> HIDE DEF u
<1>6. y \in State /\ y.flags = u.flags
  BY <1>5, OtherFields
<1> HIDE DEF y
<1>7. r \in State /\ r.flags = t.flags
  BY <1>5, <1>6
<1> HIDE DEF r
<1> QED BY <1>1, <1>2, <1>7 DEF GoodStep

\* The two callbacks about an ACK of ours.
LEMMA AckSentStep ==
    ASSUME NEW s \in State, Good(s.flags)
    PROVE  /\ GoodStep(s, ackSentCallback(s))
           /\ GoodStep(s, ackFailedCallback(s))
<1> DEFINE c == Clear(s, {"ONGOING_TX_ACK"})
<1>1. GoodStep(s, c)
  BY ClearStep DEF TxEvents
<1> HIDE DEF c
<1>2. c \in State
  BY <1>1 DEF GoodStep
<1>3. /\ [c EXCEPT !.em = FALSE] \in State
      /\ [c EXCEPT !.em = FALSE].flags = c.flags
  BY <1>2, OtherFields
<1>4. GoodStep(s, [c EXCEPT !.em = FALSE])
  BY <1>1, <1>3 DEF GoodStep
<1>5. /\ ackSentCallback(s) = [c EXCEPT !.em = FALSE]
      /\ ackFailedCallback(s) = c
  BY DEF ackSentCallback, ackFailedCallback, c
<1> QED BY <1>1, <1>4, <1>5

LEMMA ReceivedStep ==
    ASSUME NEW s \in State, Good(s.flags), NEW fp \in BOOLEAN,
           NEW keep \in BOOLEAN
    PROVE  GoodStep(s, packetReceivedCallback(s, fp, keep))
<1> DEFINE m == [s EXCEPT !.em = FALSE]
           w == Set(s, {"ONGOING_TX_ACK"})
<1>1. GoodStep(s, m)
  <2>1. m \in State /\ m.flags = s.flags
    BY OtherFields
  <2> HIDE DEF m
  <2> QED BY <2>1, StepReflexive DEF GoodStep
<1>2. GoodStep(s, w)
  <2>1. w \in State /\ w.flags = s.flags \cup {"ONGOING_TX_ACK"}
    BY SetState DEF Flags
  <2> HIDE DEF w
  <2>2. w.flags \cap TxEvents = s.flags \cap TxEvents
    BY <2>1 DEF TxEvents
  <2>3. Good(w.flags) /\ Evolves(s.flags, w.flags)
    BY <2>1, <2>2 DEF Good, Evolves
  <2> QED BY <2>1, <2>3 DEF GoodStep
<1>3. GoodStep(s, ackReceived(s, fp)) /\ GoodStep(s, s)
  BY AckReceivedStep, StepReflexive
<1>4. packetReceivedCallback(s, fp, keep) \in {ackReceived(s, fp), m, w, s}
  BY DEF packetReceivedCallback
<1> HIDE DEF m, w
<1> QED BY <1>1, <1>2, <1>3, <1>4

LEMMA SchedulerStep ==
    ASSUME NEW s \in State, Good(s.flags)
    PROVE  GoodStep(s, schedulerEventCallback(s))
<1> DEFINE t == Clear(s, {"SCHEDULED_RX_PENDING", "SCHEDULED_TX_PENDING",
                          "SCHEDULED_TX_STARTED"})
           u == IF Has(t, "ONGOING_TX_ACK") THEN ackFailedCallback(t) ELSE t
           v == IF Has(u, "ONGOING_TX_DATA")
                THEN txFailedCallback(u, "TX_CCA_FAILED") ELSE u
           w == IF Has(v, "WAITING_FOR_ACK") THEN ackTimeoutCallback(v) ELSE v
<1>1. GoodStep(s, t)
  BY ClearStep DEF TxEvents
<1>2. schedulerEventCallback(s) = IF ~schedulerError THEN s ELSE w
  BY DEF schedulerEventCallback
<1> HIDE DEF t
<1>3. t \in State /\ Good(t.flags)
  BY <1>1 DEF GoodStep
<1>4. GoodStep(t, u)
  BY <1>3, AckSentStep, StepReflexive
<1> HIDE DEF u
<1>5. u \in State /\ Good(u.flags)
  BY <1>4 DEF GoodStep
<1>6. GoodStep(u, v)
  BY <1>5, FailedStep, StepReflexive
<1> HIDE DEF v
<1>7. v \in State /\ Good(v.flags)
  BY <1>6 DEF GoodStep
<1>8. GoodStep(v, w)
  BY <1>7, TimeoutStep, StepReflexive
<1> HIDE DEF w
<1>9. GoodStep(s, w)
  <2>1. GoodStep(s, u)
    BY <1>1, <1>4, StepTransitive
  <2>2. GoodStep(s, v)
    BY <1>6, <2>1, StepTransitive
  <2> QED BY <1>8, <2>2, StepTransitive
<1> QED BY <1>2, <1>9, StepReflexive

-----------------------------------------------------------------------------
(* RAILCb_Generic.                                                         *)

LEMMA CompletionStep ==
    ASSUME NEW s \in State, Good(s.flags), NEW es
    PROVE  GoodStep(s, completionPart(s, es))
BY SentStep, FailedStep, StepReflexive DEF completionPart

LEMMA ScheduledStep ==
    ASSUME NEW s \in State, Good(s.flags), NEW es
    PROVE  GoodStep(s, scheduledPart(s, es))
<1>1. CASE Has(s, "SCHEDULED_RX_PENDING")
  <2> DEFINE w == Set(s, {"SCHEDULED_RX_STARTED"})
             t == IF "SCHEDULED_STARTED" \in es THEN w ELSE s
             c == Clear(t, {"SCHEDULED_RX_PENDING", "SCHEDULED_RX_STARTED"})
             u == [c EXCEPT !.idle = TRUE]
  <2>1. GoodStep(s, w)
    <3>1. w \in State /\ w.flags = s.flags \cup {"SCHEDULED_RX_STARTED"}
      BY SetState DEF Flags
    <3> HIDE DEF w
    <3>2. w.flags \cap TxEvents = s.flags \cap TxEvents
      BY <3>1 DEF TxEvents
    <3>3. Good(w.flags) /\ Evolves(s.flags, w.flags)
      BY <3>1, <3>2 DEF Good, Evolves
    <3> QED BY <3>1, <3>3 DEF GoodStep
  <2>2. scheduledPart(s, es) = IF "SCHEDULED_RX_OVER" \in es THEN u ELSE t
    BY <1>1 DEF scheduledPart
  <2> HIDE DEF w
  <2>3. GoodStep(s, t)
    BY <2>1, StepReflexive
  <2> HIDE DEF t
  <2>4. t \in State /\ Good(t.flags)
    BY <2>3 DEF GoodStep
  <2>5. GoodStep(t, c)
    BY <2>4, ClearStep DEF TxEvents
  <2> HIDE DEF c
  <2>6. u \in State /\ u.flags = c.flags
    BY <2>5, OtherFields DEF GoodStep
  <2> HIDE DEF u
  <2>7. GoodStep(s, u)
    <3>1. GoodStep(s, c)
      BY <2>3, <2>5, StepTransitive
    <3> QED BY <2>6, <3>1 DEF GoodStep
  <2> QED BY <2>2, <2>3, <2>7
<1>2. CASE ~Has(s, "SCHEDULED_RX_PENDING")
  <2> DEFINE w == Set(s, {"SCHEDULED_TX_STARTED"})
             c == Clear(w, {"SCHEDULED_TX_PENDING"})
             d == Clear(s, {"SCHEDULED_TX_PENDING"})
             f == txFailedCallback(d, "TX_FAILED")
  <2>1. scheduledPart(s, es) \in {c, f, s}
    BY <1>2 DEF scheduledPart
  <2>2. GoodStep(s, w)
    <3>1. w \in State /\ w.flags = s.flags \cup {"SCHEDULED_TX_STARTED"}
      BY SetState DEF Flags
    <3> HIDE DEF w
    <3>2. w.flags \cap TxEvents = s.flags \cap TxEvents
      BY <3>1 DEF TxEvents
    <3>3. Good(w.flags) /\ Evolves(s.flags, w.flags)
      BY <3>1, <3>2 DEF Good, Evolves
    <3> QED BY <3>1, <3>3 DEF GoodStep
  <2> HIDE DEF w
  <2>3. GoodStep(w, c)
    BY <2>2, ClearStep DEF TxEvents, GoodStep
  <2>4. GoodStep(s, d)
    BY ClearStep DEF TxEvents
  <2> HIDE DEF d
  <2>5. GoodStep(d, f)
    BY <2>4, FailedStep DEF GoodStep
  <2> HIDE DEF c, f
  <2>6. GoodStep(s, c) /\ GoodStep(s, f)
    BY <2>2, <2>3, <2>4, <2>5, StepTransitive
  <2> QED BY <2>1, <2>6, StepReflexive
<1> QED BY <1>1, <1>2

LEMMA AutoAckStep ==
    ASSUME NEW s \in State, Good(s.flags), NEW es
    PROVE  GoodStep(s, autoAckPart(s, es))
<1> DEFINE t == IF "TXACK_SENT" \in es THEN ackSentCallback(s) ELSE s
<1>1. GoodStep(s, t)
  BY AckSentStep, StepReflexive
<1>2. autoAckPart(s, es)
         = IF "TXACK_FAILED" \in es THEN ackFailedCallback(t) ELSE t
  BY DEF autoAckPart
<1> HIDE DEF t
<1>3. GoodStep(t, ackFailedCallback(t))
  BY <1>1, AckSentStep DEF GoodStep
<1> QED BY <1>1, <1>2, <1>3, StepTransitive

LEMMA InterruptStep ==
    ASSUME NEW s \in State, Good(s.flags), NEW es, NEW fp \in BOOLEAN,
           NEW keep \in BOOLEAN
    PROVE  GoodStep(s, RAILCb_Generic(s, es, fp, keep))
<1> DEFINE a == completionPart(s, es)
           b == scheduledPart(a, es)
           c == packetPart(b, es, fp, keep)
           d == autoAckPart(c, es)
           e == ackTimeoutPart(d, es)
           f == schedulerPart(e, es)
<1>1. RAILCb_Generic(s, es, fp, keep) = f
  BY DEF RAILCb_Generic
<1>2. GoodStep(s, a)
  BY CompletionStep
<1> HIDE DEF a
<1>3. GoodStep(a, b)
  BY <1>2, ScheduledStep DEF GoodStep
<1> HIDE DEF b
<1>4. GoodStep(b, c)
  BY <1>3, ReceivedStep, StepReflexive DEF GoodStep, packetPart
<1> HIDE DEF c
<1>5. GoodStep(c, d)
  BY <1>4, AutoAckStep DEF GoodStep
<1> HIDE DEF d
<1>6. GoodStep(d, e)
  BY <1>5, TimeoutStep, StepReflexive DEF GoodStep, ackTimeoutPart
<1> HIDE DEF e
<1>7. GoodStep(e, f)
  BY <1>6, SchedulerStep, StepReflexive DEF GoodStep, schedulerPart
<1> HIDE DEF f
<1>8. GoodStep(s, b) BY <1>2, <1>3, StepTransitive
<1>9. GoodStep(s, c) BY <1>4, <1>8, StepTransitive
<1>10. GoodStep(s, d) BY <1>5, <1>9, StepTransitive
<1>11. GoodStep(s, e) BY <1>6, <1>10, StepTransitive
<1>12. GoodStep(s, f) BY <1>7, <1>11, StepTransitive
<1> QED BY <1>1, <1>12

-----------------------------------------------------------------------------
(* Starting a transmission.                                                *)

\* The state in which otPlatRadioTransmit starts a frame.
LEMMA StartState ==
    ASSUME TypeOK, Good(miscRadioState), miscRadioState \cap TxEvents = {}
    PROVE  LET s == Set(Now, {"ONGOING_TX_DATA"}) IN
           /\ s \in State
           /\ s.flags = miscRadioState \cup {"ONGOING_TX_DATA"}
           /\ Good(s.flags)
<1> DEFINE s == Set(Now, {"ONGOING_TX_DATA"})
<1>1. s \in State /\ s.flags = miscRadioState \cup {"ONGOING_TX_DATA"}
  BY NowIsState, SetState DEF Flags
<1>2. s.flags \cap TxEvents = {}
  BY <1>1 DEF TxEvents
<1>3. Good(s.flags)
  <2> HIDE DEF s
  <2> QED BY <1>1, <1>2 DEF Good
<1> QED BY <1>1, <1>3

LEMMA DropStep ==
    ASSUME NEW s \in State, Good(s.flags), NEW ok
    PROVE  LET t == dropScheduledRx(Assert(s, ok)) IN
           /\ GoodStep(s, t)
           /\ "SCHEDULED_RX_PENDING" \notin t.flags
<1> DEFINE a == Assert(s, ok)
           c == Clear(a, {"SCHEDULED_RX_PENDING", "SCHEDULED_RX_STARTED"})
           t == dropScheduledRx(a)
<1>1. a \in State /\ a.flags = s.flags
  BY AssertState
<1> HIDE DEF a
<1>2. GoodStep(a, c)
  BY <1>1, ClearStep DEF TxEvents
<1>3. c.flags = a.flags \ {"SCHEDULED_RX_PENDING", "SCHEDULED_RX_STARTED"}
  BY <1>1, ClearState
<1>4. t = IF Has(a, "SCHEDULED_RX_PENDING") THEN c ELSE a
  BY DEF dropScheduledRx
<1> HIDE DEF c
<1>5. GoodStep(a, t) /\ "SCHEDULED_RX_PENDING" \notin t.flags
  <2>1. CASE Has(a, "SCHEDULED_RX_PENDING")
    <3>1. t = c
      BY <1>4, <2>1
    <3> HIDE DEF t
    <3> QED BY <1>2, <1>3, <3>1
  <2>2. CASE ~Has(a, "SCHEDULED_RX_PENDING")
    <3>1. t = a
      BY <1>4, <2>2
    <3> HIDE DEF t
    <3> QED BY <1>1, <2>2, <3>1, StepReflexive DEF Has
  <2> QED BY <2>1, <2>2
<1> HIDE DEF t
<1>6. GoodStep(s, t) /\ "SCHEDULED_RX_PENDING" \notin t.flags
  BY <1>1, <1>5 DEF GoodStep
<1> QED BY <1>6 DEF t, a

LEMMA StartStep ==
    ASSUME TypeOK, NEW s \in State, Good(s.flags), NEW ok \in BOOLEAN,
           txCurrentPacket(s, ok)
    PROVE  /\ \E t : GoodStep(s, t) /\ Becomes(t)
           /\ rx' \in {"off", "listen", "waiting", "window"}
           /\ op' \in {"none", "scheduled", "csma", "air", "ackwait"}
           /\ schedulerError' \in BOOLEAN
<1> DEFINE t == dropScheduledRx(Assert(s, Has(s, "ONGOING_TX_DATA")))
           w == Set(t, {"SCHEDULED_TX_PENDING"})
           f == txFailedCallback(t, "TX_FAILED")
           u == IF ok THEN IF sCurrentTxPacket.delay THEN w ELSE t ELSE f
<1>1. GoodStep(s, t) /\ "SCHEDULED_RX_PENDING" \notin t.flags
  BY DropStep
<1>2. /\ Becomes(u)
      /\ rx' \in {"off", rx}
      /\ op' \in {"scheduled", "csma", "air", op}
      /\ schedulerError' \in {FALSE, schedulerError}
  BY DEF txCurrentPacket
<1> HIDE DEF t
<1>3. t \in State /\ Good(t.flags)
  BY <1>1 DEF GoodStep
<1>4. GoodStep(t, w)
  <2>1. w \in State /\ w.flags = t.flags \cup {"SCHEDULED_TX_PENDING"}
    BY <1>3, SetState DEF Flags
  <2> HIDE DEF w
  <2>2. w.flags \cap TxEvents = t.flags \cap TxEvents
    BY <2>1 DEF TxEvents
  <2>3. Good(w.flags) /\ Evolves(t.flags, w.flags)
    BY <1>1, <1>3, <2>1, <2>2 DEF Good, Evolves
  <2> QED BY <2>1, <2>3 DEF GoodStep
<1>5. GoodStep(t, f)
  BY <1>3, FailedStep
<1> HIDE DEF w, f
<1>6. GoodStep(s, u)
  BY <1>1, <1>4, <1>5, StepTransitive
<1> HIDE DEF u
<1> QED BY <1>2, <1>6 DEF TypeOK

-----------------------------------------------------------------------------
(* The invariant.  FlagsAgree is not inductive by itself: it does not say  *)
(* that ONGOING_TX_DATA is clear while otPlatRadioTransmit is on its way to*)
(* its critical section.                                                   *)

TxInv ==
    /\ TypeOK
    /\ Good(miscRadioState)
    /\ Ongoing \/ Decided # {} => awaiting
    /\ pc = "transmit" => awaiting /\ ~Ongoing /\ Decided = {}

LEMMA TxInvImplies ==
    ASSUME TxInv PROVE TypeOK /\ FlagsAgree
BY DEF TxInv, Good, FlagsAgree, Ongoing, Decided

LEMMA InitTxInv ==
    ASSUME Init PROVE TxInv
<1>1. TypeOK
  BY DEF Init, TypeOK, Flags, Events
<1>2. Good(miscRadioState) /\ ~Ongoing /\ Decided = {}
  BY DEF Init, Good, Ongoing, Decided
<1>3. pc # "transmit"
  BY DEF Init
<1> QED BY <1>1, <1>2, <1>3 DEF TxInv

\* What an evolution of the flags means for the invariant.
LEMMA EvolvedTxInv ==
    ASSUME TxInv, TypeOK', Good(miscRadioState)', NEW F,
           Evolves(F, miscRadioState'),
           "ONGOING_TX_DATA" \in F \/ F \cap TxEvents # {} => awaiting,
           awaiting' = awaiting, pc' = pc,
           pc = "transmit" => F = miscRadioState
    PROVE  TxInv'
<1>1. Ongoing' \/ Decided' # {} => awaiting'
  BY DEF Evolves, Ongoing, Decided
<1>2. pc' = "transmit" => awaiting' /\ ~Ongoing' /\ Decided' = {}
  BY DEF TxInv, Evolves, Ongoing, Decided
<1> QED BY <1>1, <1>2 DEF TxInv

\* RAIL's own steps.
RailTypes ==
    /\ op \in {"none", "scheduled", "csma", "air", "ackwait"}
    /\ rx \in {"off", "listen", "waiting", "window"}
    /\ autoAck \in BOOLEAN
    /\ pending \subseteq Events
    /\ packet \in {"none", "ack", "data", "dataAckRequest"}
    /\ schedulerError \in BOOLEAN
    /\ acked \in BOOLEAN

LEMMA RailTypesStep ==
    ASSUME RailTypes, Rail PROVE RailTypes'
<1>1. CASE ScheduledTimeArrives
  BY <1>1 DEF ScheduledTimeArrives, Raise, RailTypes, Events, history
<1>2. CASE ChannelAssessed
  BY <1>2 DEF ChannelAssessed, Raise, RailTypes, Events, history
<1>3. CASE FrameSent
  BY <1>3 DEF FrameSent, Raise, RailTypes, Events, history
<1>4. CASE AckWaitEnds
  BY <1>4 DEF AckWaitEnds, Raise, RailTypes, Events, history
<1>5. CASE TransmitPreempted
  BY <1>5 DEF TransmitPreempted, Raise, RailTypes, Events, history
<1>6. CASE WindowProgress
  BY <1>6 DEF WindowProgress, Raise, RailTypes, Events, history
<1>7. CASE PacketArrives
  BY <1>7 DEF PacketArrives, Raise, RailTypes, Events, history
<1>8. CASE AutoAckEnds
  BY <1>8 DEF AutoAckEnds, Raise, RailTypes, Events, history
<1> QED BY <1>1, <1>2, <1>3, <1>4, <1>5, <1>6, <1>7, <1>8
        DEF Rail, TxProgress

LEMMA RailLeavesDriver ==
    ASSUME Rail
    PROVE  UNCHANGED <<driver, pta, sent, yieldedOnAck, idledUnderTx,
                       assertFailed>>
BY DEF Rail, TxProgress, ScheduledTimeArrives, ChannelAssessed, FrameSent,
       AckWaitEnds, TransmitPreempted, WindowProgress, PacketArrives,
       AutoAckEnds, driver, history

DriverTypes ==
    /\ miscRadioState \subseteq Flags
    /\ sCurrentTxPacket \in Frames \cup {NoFrame}
    /\ emPendingData \in BOOLEAN
    /\ pc \in {"idle", "transmit", "receiveAtLoad", "receiveAt", "sleep"}
    /\ awaiting \in BOOLEAN
    /\ pta \in BOOLEAN
    /\ sent \in BOOLEAN
    /\ yieldedOnAck \in BOOLEAN
    /\ idledUnderTx \in BOOLEAN
    /\ assertFailed \in BOOLEAN

LEMMA TypeParts ==
    /\ TypeOK => RailTypes /\ DriverTypes
    /\ RailTypes' /\ DriverTypes' => TypeOK'
BY DEF TypeOK, RailTypes, DriverTypes

LEMMA RailStep ==
    ASSUME TxInv, Rail PROVE TxInv'
<1>1. RailTypes /\ DriverTypes
  BY TypeParts DEF TxInv
<1>2. RailTypes'
  BY <1>1, RailTypesStep
<1>3. DriverTypes'
  BY <1>1, RailLeavesDriver DEF DriverTypes, driver
<1>4. TypeOK'
  BY <1>2, <1>3, TypeParts
<1>5. UNCHANGED <<miscRadioState, sCurrentTxPacket, pc, awaiting>>
  BY RailLeavesDriver DEF driver
<1> QED BY <1>4, <1>5 DEF TxInv, Good, Ongoing, Decided

\* A driver left in a well-formed state has well-typed variables.
LEMMA BecomesTypes ==
    ASSUME NEW t \in State, Becomes(t)
    PROVE  /\ miscRadioState' = t.flags
           /\ miscRadioState' \subseteq Flags
           /\ emPendingData' \in BOOLEAN
           /\ sent' \in BOOLEAN
           /\ yieldedOnAck' \in BOOLEAN
           /\ assertFailed' \in BOOLEAN
           /\ pta' \in BOOLEAN
BY DEF State, Becomes

LEMMA InterruptInv ==
    ASSUME TxInv, Interrupt
    PROVE  /\ TxInv'
           /\ Evolves(miscRadioState, miscRadioState')
           /\ UNCHANGED <<pc, sCurrentTxPacket, awaiting>>
<1> PICK fp \in BOOLEAN, keep \in BOOLEAN :
      LET s == RAILCb_Generic(Now, pending, fp, keep) IN
      /\ Becomes(s)
      /\ idledUnderTx' = (idledUnderTx \/ (s.idle /\ op # "none"))
      /\ op' = IF s.idle THEN "none" ELSE op
      /\ rx' = IF s.idle THEN "off" ELSE rx
      /\ pending' = IF s.idle /\ op # "none" THEN {"TX_ABORTED"} ELSE {}
  BY DEF Interrupt
<1> DEFINE s == RAILCb_Generic(Now, pending, fp, keep)
<1>1. RailTypes /\ DriverTypes
  BY TypeParts DEF TxInv
<1>2. GoodStep(Now, s)
  BY NowIsState, InterruptStep DEF TxInv
<1>3. /\ Becomes(s)
      /\ idledUnderTx' \in BOOLEAN
      /\ op' \in {"none", op}
      /\ rx' \in {"off", rx}
      /\ pending' \in {{"TX_ABORTED"}, {}}
  BY <1>1 DEF DriverTypes
<1>4. /\ UNCHANGED <<sCurrentTxPacket, pc, awaiting, autoAck,
                     schedulerError, acked>>
      /\ packet' = "none"
  BY DEF Interrupt
<1> HIDE DEF s
<1>5. s \in State /\ Good(s.flags) /\ Evolves(miscRadioState, s.flags)
  BY <1>2, NowIsState DEF GoodStep, TxInv
<1>6. RailTypes'
  BY <1>1, <1>3, <1>4 DEF RailTypes, Events
<1>7. DriverTypes'
  BY <1>1, <1>3, <1>4, <1>5, BecomesTypes DEF DriverTypes
<1>8. TypeOK'
  BY <1>6, <1>7, TypeParts
<1>9. miscRadioState' = s.flags
  BY <1>3, <1>5, BecomesTypes
<1>10. Good(miscRadioState)'
  BY <1>4, <1>5, <1>9 DEF Good
<1>11. Evolves(miscRadioState, miscRadioState')
  BY <1>5, <1>9
<1>12. TxInv'
  BY <1>4, <1>8, <1>10, <1>11, EvolvedTxInv DEF TxInv, Ongoing, Decided
<1> QED BY <1>4, <1>11, <1>12

\* A start that leads from one point of the main loop to the next.
LEMMA StartedInv ==
    ASSUME TxInv, NEW s \in State, NEW t, Good(s.flags),
           GoodStep(s, t), Becomes(t),
           "ONGOING_TX_DATA" \in s.flags \/ s.flags \cap TxEvents # {}
              => awaiting,
           (pc' = pc /\ s.flags = miscRadioState) \/ pc' = "idle",
           rx' \in {"off", "listen", "waiting", "window"},
           op' \in {"none", "scheduled", "csma", "air", "ackwait"},
           schedulerError' \in BOOLEAN,
           UNCHANGED <<sCurrentTxPacket, awaiting, autoAck, pending, packet,
                       acked, idledUnderTx>>
    PROVE  TxInv' /\ Evolves(s.flags, miscRadioState')
<1>1. RailTypes /\ DriverTypes
  BY TypeParts DEF TxInv
<1>2. RailTypes'
  BY <1>1 DEF RailTypes
<1>3. t \in State /\ Good(t.flags) /\ Evolves(s.flags, t.flags)
  BY DEF GoodStep
<1>4. DriverTypes'
  BY <1>1, <1>3, BecomesTypes DEF DriverTypes
<1>5. TypeOK'
  BY <1>2, <1>4, TypeParts
<1>6. miscRadioState' = t.flags
  BY <1>3, BecomesTypes
<1>7. Good(miscRadioState)'
  BY <1>3, <1>6 DEF Good
<1>8. Ongoing' \/ Decided' # {} => awaiting'
  BY <1>3, <1>6 DEF Evolves, Ongoing, Decided
<1>9. pc' = "transmit" => awaiting' /\ ~Ongoing' /\ Decided' = {}
  BY <1>3, <1>6 DEF Evolves, Ongoing, Decided, TxInv
<1> QED BY <1>3, <1>5, <1>6, <1>7, <1>8, <1>9 DEF TxInv

LEMMA GrantInv ==
    ASSUME TxInv, onPtaGrantTx
    PROVE  /\ TxInv'
           /\ Evolves(miscRadioState, miscRadioState')
           /\ UNCHANGED pc
<1> DEFINE c == Clear(Now, {"CURRENT_TX_USE_CSMA"})
           s == [c EXCEPT !.pta = FALSE]
<1>1. GoodStep(Now, c)
  BY NowIsState, ClearStep DEF TxInv, TxEvents
<1>2. PICK ok \in BOOLEAN : txCurrentPacket(s, ok)
  BY DEF onPtaGrantTx
<1>3. UNCHANGED <<sCurrentTxPacket, pc, awaiting, autoAck, pending, packet,
                  acked, idledUnderTx>>
  BY DEF onPtaGrantTx
<1> HIDE DEF c
<1>4. c \in State
  BY <1>1 DEF GoodStep
<1>5. s \in State /\ s.flags = c.flags
  BY <1>4, OtherFields
<1> HIDE DEF s
<1>6. Good(s.flags) /\ Evolves(miscRadioState, s.flags)
  BY <1>1, <1>5, NowIsState DEF GoodStep, TxInv
<1>7. /\ \E t : GoodStep(s, t) /\ Becomes(t)
      /\ rx' \in {"off", "listen", "waiting", "window"}
      /\ op' \in {"none", "scheduled", "csma", "air", "ackwait"}
      /\ schedulerError' \in BOOLEAN
  BY <1>2, <1>5, <1>6, StartStep DEF TxInv
<1>8. PICK t : GoodStep(s, t) /\ Becomes(t)
  BY <1>7
<1>9. t \in State /\ Good(t.flags) /\ miscRadioState' = t.flags
  BY <1>8, BecomesTypes DEF GoodStep
<1>10. Evolves(miscRadioState, miscRadioState')
  BY <1>6, <1>8, <1>9 DEF GoodStep, Evolves, Good
<1>11. RailTypes /\ DriverTypes
  BY TypeParts DEF TxInv
<1>12. RailTypes'
  BY <1>3, <1>7, <1>11 DEF RailTypes
<1>13. DriverTypes'
  BY <1>3, <1>8, <1>9, <1>11, BecomesTypes DEF DriverTypes
<1>14. TypeOK'
  BY <1>12, <1>13, TypeParts
<1>15. Good(miscRadioState)'
  BY <1>3, <1>9 DEF Good
<1>16. TxInv'
  BY <1>3, <1>10, <1>14, <1>15, EvolvedTxInv DEF TxInv, Ongoing, Decided
<1> QED BY <1>3, <1>10, <1>16

LEMMA TransmitStartInv ==
    ASSUME TxInv, TransmitStart
    PROVE  /\ TxInv'
           /\ Ongoing' \/ Decided' # {}
           /\ pc' = "idle"
<1> DEFINE s == Set(Now, {"ONGOING_TX_DATA"})
           p == [s EXCEPT !.pta = TRUE]
<1>1. pc = "transmit" /\ awaiting /\ miscRadioState \cap TxEvents = {}
  BY DEF TransmitStart, TxInv, Decided
<1>2. /\ s \in State /\ Good(s.flags)
      /\ s.flags = miscRadioState \cup {"ONGOING_TX_DATA"}
  BY <1>1, StartState DEF TxInv
<1>3. /\ pc' = "idle"
      /\ UNCHANGED <<sCurrentTxPacket, awaiting, autoAck, pending, packet,
                     acked, idledUnderTx>>
  BY DEF TransmitStart
<1>4. \/ \E ok \in BOOLEAN : txCurrentPacket(s, ok)
      \/ Becomes(p) /\ UNCHANGED <<op, rx, schedulerError>>
      \/ /\ Becomes(txFailedCallback(s, "TX_FAILED"))
         /\ UNCHANGED <<op, rx, schedulerError>>
  BY DEF TransmitStart, tryTxCurrentPacket
<1> HIDE DEF s
<1>5. GoodStep(s, p)
  <2>1. p \in State /\ p.flags = s.flags
    BY <1>2, OtherFields
  <2> HIDE DEF p
  <2> QED BY <1>2, <2>1, StepReflexive DEF GoodStep
<1>6. GoodStep(s, txFailedCallback(s, "TX_FAILED"))
  BY <1>2, FailedStep
<1> HIDE DEF p
<1>7. /\ op \in {"none", "scheduled", "csma", "air", "ackwait"}
      /\ rx \in {"off", "listen", "waiting", "window"}
      /\ schedulerError \in BOOLEAN
  BY TypeParts DEF TxInv, RailTypes
<1>8. /\ \E t : GoodStep(s, t) /\ Becomes(t)
      /\ rx' \in {"off", "listen", "waiting", "window"}
      /\ op' \in {"none", "scheduled", "csma", "air", "ackwait"}
      /\ schedulerError' \in BOOLEAN
  <2>1. CASE \E ok \in BOOLEAN : txCurrentPacket(s, ok)
    BY <1>2, <2>1, StartStep DEF TxInv
  <2>2. CASE Becomes(p) /\ UNCHANGED <<op, rx, schedulerError>>
    BY <1>5, <1>7, <2>2
  <2>3. CASE /\ Becomes(txFailedCallback(s, "TX_FAILED"))
             /\ UNCHANGED <<op, rx, schedulerError>>
    BY <1>6, <1>7, <2>3
  <2> QED BY <1>4, <2>1, <2>2, <2>3
<1>9. PICK t : GoodStep(s, t) /\ Becomes(t)
  BY <1>8
<1>10. TxInv' /\ Evolves(s.flags, miscRadioState')
  BY <1>1, <1>2, <1>3, <1>8, <1>9, StartedInv
<1>11. Ongoing' \/ Decided' # {}
  BY <1>2, <1>10 DEF Evolves, Ongoing, Decided
<1> QED BY <1>3, <1>10, <1>11

\* The main-loop actions that leave RAIL's events, the assertions and the
\* history of the frame alone, typed together.
LEMMA TransmitBeginInv ==
    ASSUME TxInv, TransmitBegin
    PROVE  TxInv' /\ ~Ongoing /\ Decided = {} /\ pc = "idle"
                  /\ pc' = "transmit"
<1>1. ~Ongoing /\ Decided = {} /\ pc = "idle"
  BY DEF TransmitBegin, TxInv
<1>2. PICK f \in Frames :
        /\ sCurrentTxPacket' = f
        /\ miscRadioState' = (miscRadioState
                                \ (TxEvents \cup {"CURRENT_TX_USE_CSMA"}))
                             \cup (IF f.csma THEN {"CURRENT_TX_USE_CSMA"}
                                             ELSE {})
  BY DEF TransmitBegin
<1>3. /\ miscRadioState' \subseteq miscRadioState \cup {"CURRENT_TX_USE_CSMA"}
      /\ sCurrentTxPacket' \in Frames
  BY <1>2
<1>4. /\ assertFailed' = (assertFailed \/ "ONGOING_TX_DATA" \in miscRadioState)
      /\ pc' = "transmit" /\ awaiting' = TRUE
      /\ sent' = FALSE /\ yieldedOnAck' = FALSE /\ acked' = FALSE
      /\ UNCHANGED <<emPendingData, pta, idledUnderTx>>
      /\ UNCHANGED <<op, rx, autoAck, pending, packet, schedulerError>>
  BY DEF TransmitBegin, rail
<1>5. RailTypes /\ DriverTypes
  BY TypeParts DEF TxInv
<1>6. RailTypes'
  BY <1>4, <1>5 DEF RailTypes
<1>7. assertFailed' \in BOOLEAN
  BY <1>4, <1>5 DEF DriverTypes
<1>8. DriverTypes'
  BY <1>3, <1>4, <1>5, <1>7 DEF DriverTypes, Flags
<1>9. TypeOK'
  BY <1>6, <1>8, TypeParts
<1>10. "WAITING_FOR_ACK" \notin miscRadioState
  BY <1>1 DEF TxInv, Good, Ongoing
<1>11. /\ ~Ongoing' /\ Decided' = {}
       /\ "WAITING_FOR_ACK" \notin miscRadioState'
  BY <1>1, <1>3, <1>10 DEF Ongoing, Decided, TxEvents
<1>12. Good(miscRadioState)'
  BY <1>3, <1>11 DEF Good, Ongoing, Decided, TxInv
<1> QED BY <1>1, <1>4, <1>9, <1>11, <1>12 DEF TxInv

\* The steps that only touch the flag of a receive window.
LEMMA WindowRequestInv ==
    ASSUME TxInv, Receive \/ ReceiveAtLooks \/ ReceiveAtBegin
                     \/ ReceiveAtStart \/ SleepBegin \/ SleepIdle
    PROVE  /\ TxInv'
           /\ Evolves(miscRadioState, miscRadioState')
           /\ pc # "transmit" /\ pc' # "transmit"
<1>1. RailTypes /\ DriverTypes
  BY TypeParts DEF TxInv
<1>2. RailTypes'
  <2>1. CASE Receive
    BY <1>1, <2>1 DEF RailTypes, Receive, history
  <2>2. CASE ReceiveAtLooks \/ ReceiveAtBegin
    BY <1>1, <2>2
       DEF RailTypes, ReceiveAtLooks, ReceiveAtBegin, rail, history
  <2>3. CASE ReceiveAtStart
    BY <1>1, <2>3 DEF RailTypes, ReceiveAtStart, history
  <2>4. CASE SleepBegin
    BY <1>1, <2>4 DEF RailTypes, SleepBegin, rail, history
  <2>5. CASE SleepIdle
    BY <1>1, <2>5 DEF RailTypes, SleepIdle
  <2> QED BY <2>1, <2>2, <2>3, <2>4, <2>5
<1>3. /\ UNCHANGED <<sCurrentTxPacket, emPendingData, awaiting, pta, sent,
                     yieldedOnAck, assertFailed>>
      /\ pc # "transmit"
      /\ pc' \in {"idle", "receiveAtLoad", "receiveAt", "sleep"}
  BY DEF Receive, ReceiveAtLooks, ReceiveAtBegin, ReceiveAtStart,
         SleepBegin, SleepIdle,
         history
<1>4. idledUnderTx' \in BOOLEAN
  BY <1>1 DEF DriverTypes, Receive, ReceiveAtLooks, ReceiveAtBegin,
              ReceiveAtStart,
              SleepBegin, SleepIdle, history
<1>5. \/ miscRadioState' \subseteq miscRadioState
         /\ miscRadioState \ miscRadioState' \subseteq {"SCHEDULED_RX_PENDING"}
      \/ miscRadioState' = miscRadioState \cup {"SCHEDULED_RX_PENDING"}
  BY DEF Receive, ReceiveAtLooks, ReceiveAtBegin, ReceiveAtStart,
         SleepBegin, SleepIdle
<1>6. DriverTypes'
  BY <1>1, <1>3, <1>4, <1>5 DEF DriverTypes, Flags
<1>7. TypeOK'
  BY <1>2, <1>6, TypeParts
<1>8. miscRadioState' \cap TxEvents = miscRadioState \cap TxEvents
  BY <1>5 DEF TxEvents
<1>9. Evolves(miscRadioState, miscRadioState')
  BY <1>5, <1>8 DEF Evolves
<1>10. Good(miscRadioState)'
  BY <1>3, <1>5, <1>8 DEF Good, TxInv
<1>11. Ongoing' \/ Decided' # {} => awaiting'
  BY <1>3, <1>8, <1>9 DEF Evolves, Ongoing, Decided, TxInv
<1> QED BY <1>3, <1>7, <1>9, <1>10, <1>11 DEF TxInv

LEMMA TxCompleteInv ==
    ASSUME TxInv, processTxComplete
    PROVE  /\ TxInv'
           /\ ~Ongoing /\ Decided # {} /\ pc = "idle"
           /\ ~Ongoing' /\ Decided' = {} /\ pc' = "idle"
<1>1. /\ pc = "idle" /\ pc' = "idle" /\ awaiting' = FALSE
      /\ Decided # {} /\ ~Ongoing
      /\ miscRadioState' = miscRadioState \ {Outcome(miscRadioState)}
      /\ UNCHANGED <<sCurrentTxPacket, emPendingData, pta, op, rx, autoAck,
                     pending, packet, schedulerError, acked, sent,
                     yieldedOnAck, idledUnderTx, assertFailed>>
  BY DEF processTxComplete, ReportedEvent, rail, history, Decided, Ongoing,
         TxInv, Good
<1>2. Outcome(miscRadioState) \in miscRadioState \cap TxEvents
  BY <1>1 DEF Outcome, Decided, TxEvents
<1>3. ~Ongoing' /\ Decided' = {}
  BY <1>1, <1>2 DEF TxInv, Good, Ongoing, Decided
<1>4. RailTypes /\ DriverTypes
  BY TypeParts DEF TxInv
<1>5. RailTypes'
  BY <1>1, <1>4 DEF RailTypes
<1>6. DriverTypes'
  BY <1>1, <1>4 DEF DriverTypes
<1>7. TypeOK'
  BY <1>5, <1>6, TypeParts
<1>8. Good(miscRadioState)'
  BY <1>1, <1>3 DEF Good, TxInv, Ongoing, Decided
<1> QED BY <1>1, <1>3, <1>7, <1>8 DEF TxInv

LEMMA StutterInv ==
    ASSUME TxInv, UNCHANGED vars PROVE TxInv'
<1>1. UNCHANGED <<miscRadioState, sCurrentTxPacket, pc, awaiting>>
  BY DEF vars, driver
<1>2. RailTypes' /\ DriverTypes'
  BY TypeParts
     DEF TxInv, RailTypes, DriverTypes, vars, driver, rail, history
<1> QED BY <1>1, <1>2, TypeParts DEF TxInv, Good, Ongoing, Decided

LEMMA NextTxInv ==
    ASSUME TxInv, [Next]_vars PROVE TxInv'
<1>1. CASE Rail
  BY <1>1, RailStep
<1>2. CASE Interrupt
  BY <1>2, InterruptInv
<1>3. CASE onPtaGrantTx
  BY <1>3, GrantInv
<1>4. CASE TransmitBegin
  BY <1>4, TransmitBeginInv
<1>5. CASE TransmitStart
  BY <1>5, TransmitStartInv
<1>6. CASE processTxComplete
  BY <1>6, TxCompleteInv
<1>7. CASE Receive \/ ReceiveAtLooks \/ ReceiveAtBegin
              \/ ReceiveAtStart \/ SleepBegin \/ SleepIdle
  BY <1>7, WindowRequestInv
<1>8. CASE UNCHANGED vars
  BY <1>8, StutterInv
<1> QED BY <1>1, <1>2, <1>3, <1>4, <1>5, <1>6, <1>7, <1>8 DEF Next, Main

\* TxInv is an invariant of the specification.
THEOREM TxInvariance == Spec => []TxInv
<1>1. Init => TxInv
  BY InitTxInv
<1>2. TxInv /\ [Next]_vars => TxInv'
  BY NextTxInv
<1> QED BY <1>1, <1>2, PTL DEF Spec

\* The variables of the driver keep their types.
THEOREM TypeCorrect == Spec => []TypeOK
<1>1. TxInv => TypeOK
  BY TxInvImplies
<1> QED BY <1>1, TxInvariance, PTL

\* miscRadioState never claims two outcomes, an outcome of a frame still
\* ongoing, or a wait for an ACK nobody asked for; and it never has an
\* outcome the stack does not wait for.
THEOREM FlagsAlwaysAgree == Spec => []FlagsAgree
<1>1. TxInv => FlagsAgree
  BY TxInvImplies
<1> QED BY <1>1, TxInvariance, PTL

-----------------------------------------------------------------------------
(* The driver implements TxService.                                        *)

\* What TxService sees of the driver.
Phase == IF pc = "transmit" \/ Ongoing THEN "inflight"
         ELSE IF Decided # {} THEN "decided" ELSE "idle"
Result == IF pc = "transmit" \/ Ongoing \/ Decided = {}
          THEN NoOutcome ELSE Outcome(miscRadioState)

LEMMA ServiceSteps ==
    /\ Service!Init <=> Phase = "idle" /\ Result = NoOutcome
    /\ Service!Accept <=> /\ Phase = "idle" /\ Phase' = "inflight"
                          /\ Result' = Result
    /\ Service!Decide <=> /\ Phase = "inflight" /\ Phase' = "decided"
                          /\ Result' \in TxEvents
    /\ Service!Report <=> /\ Phase = "decided" /\ Phase' = "idle"
                          /\ Result' = NoOutcome
BY DEF Service!Init, Service!Accept, Service!Decide, Service!Report,
       Phase, Result

\* An evolution of the flags is a decision or changes nothing.
LEMMA EvolvedService ==
    ASSUME Good(miscRadioState), Good(miscRadioState)',
           Evolves(miscRadioState, miscRadioState'),
           pc' = pc \/ (pc # "transmit" /\ pc' # "transmit")
    PROVE  Service!Decide \/ (Phase' = Phase /\ Result' = Result)
<1>1. CASE pc = "transmit"
  BY <1>1 DEF Phase, Result
<1>2. CASE pc # "transmit" /\ ~Ongoing
  <2>1. ~Ongoing' /\ Decided' = Decided
    BY <1>2 DEF Evolves, Ongoing, Decided
  <2>2. Outcome(miscRadioState)' = Outcome(miscRadioState)
    BY <2>1 DEF Decided, Outcome, TxEvents
  <2> QED BY <1>2, <2>1, <2>2 DEF Phase, Result
<1>3. CASE pc # "transmit" /\ Ongoing /\ Ongoing'
  BY <1>3 DEF Phase, Result
<1>4. CASE pc # "transmit" /\ Ongoing /\ ~Ongoing'
  <2>1. Decided' # {}
    BY <1>4 DEF Evolves, Ongoing, Decided
  <2>2. Outcome(miscRadioState)' \in TxEvents
    BY DEF Outcome, TxEvents
  <2>3. /\ Phase = "inflight" /\ Phase' = "decided"
        /\ Result' \in TxEvents
    BY <1>4, <2>1, <2>2 DEF Phase, Result
  <2> QED BY <2>3, ServiceSteps
<1> QED BY <1>1, <1>2, <1>3, <1>4

LEMMA ServiceStep ==
    ASSUME TxInv, TxInv', [Next]_vars
    PROVE  Service!Next \/ (Phase' = Phase /\ Result' = Result)
<1>1. CASE Rail \/ UNCHANGED vars
  <2>1. UNCHANGED <<miscRadioState, pc>>
    BY <1>1, RailLeavesDriver DEF vars, driver
  <2> QED BY <2>1 DEF Phase, Result, Ongoing, Decided, Outcome
<1>2. CASE Interrupt \/ onPtaGrantTx
  BY <1>2, InterruptInv, GrantInv, EvolvedService DEF TxInv, Service!Next
<1>3. CASE TransmitBegin
  BY <1>3, TransmitBeginInv, ServiceSteps DEF Service!Next, Phase, Result
<1>4. CASE TransmitStart
  <2>1. /\ pc = "transmit" /\ pc' = "idle"
        /\ Ongoing' \/ Decided' # {}
    BY <1>4, TransmitStartInv DEF TransmitStart
  <2>2. CASE Ongoing'
    BY <2>1, <2>2 DEF Phase, Result
  <2>3. CASE ~Ongoing'
    <3>1. Outcome(miscRadioState)' \in TxEvents
      BY DEF Outcome, TxEvents
    <3> QED BY <2>1, <2>3, <3>1, ServiceSteps
            DEF Service!Next, Phase, Result
  <2> QED BY <2>2, <2>3
<1>5. CASE processTxComplete
  BY <1>5, TxCompleteInv, ServiceSteps DEF Service!Next, Phase, Result
<1>6. CASE Receive \/ ReceiveAtLooks \/ ReceiveAtBegin
              \/ ReceiveAtStart \/ SleepBegin \/ SleepIdle
  BY <1>6, WindowRequestInv, EvolvedService DEF TxInv, Service!Next
<1> QED BY <1>1, <1>2, <1>3, <1>4, <1>5, <1>6 DEF Next, Main

\* Whatever RAIL, the coexistence arbiter and the other calls of the stack
\* do, a frame the driver accepts gets one outcome, which stays until it is
\* reported, and is reported once.
THEOREM ServiceImplemented == Spec => ServiceSafety
<1>1. Init => Service!Init
  BY ServiceSteps DEF Init, Phase, Result, Ongoing, Decided
<1>2. TxInv /\ TxInv' /\ [Next]_vars
         => [Service!Next]_<<Phase, Result>>
  BY ServiceStep
<1>3. [Service!Next]_<<Phase, Result>> <=>
         [Service!Next]_<<IF pc = "transmit" \/ Ongoing THEN "inflight"
                          ELSE IF Decided # {} THEN "decided" ELSE "idle",
                          IF pc = "transmit" \/ Ongoing \/ Decided = {}
                          THEN NoOutcome ELSE Outcome(miscRadioState)>>
  BY DEF Phase, Result
<1> QED BY <1>1, <1>2, <1>3, TxInvariance, PTL
        DEF Spec, ServiceSafety, Service!Safety
-----------------------------------------------------------------------------
(* With RAIL as modelled.                                                  *)

FrameFlags == TxEvents \cup {"ONGOING_TX_DATA", "WAITING_FOR_ACK"}

\* What every part of the interrupt does to the rest of the state.
Through(s, t, es) ==
    /\ t.failed = s.failed
    /\ t.pta => s.pta
    /\ "SCHEDULED_TX_PENDING" \in t.flags => "SCHEDULED_TX_PENDING" \in s.flags
    /\ "SCHEDULED_RX_PENDING" \in t.flags => "SCHEDULED_RX_PENDING" \in s.flags
    /\ t.idle => s.idle \/ ("SCHEDULED_RX_PENDING" \in s.flags
                               /\ "SCHEDULED_RX_OVER" \in es)
    /\ "SCHEDULED_RX_PENDING" \in s.flags =>
          \/ "SCHEDULED_RX_PENDING" \in t.flags
          \/ "SCHEDULED_RX_OVER" \in es
          \/ "SCHEDULER_STATUS" \in es /\ schedulerError
    /\ sCurrentTxPacket.ack /\ packet # "ack" /\ "TX_SUCCESS" \in t.flags
          => "TX_SUCCESS" \in s.flags

\* A part that does nothing to the frame in transmission.
Calm(s, t) == t.flags \cap FrameFlags = s.flags \cap FrameFlags /\ t.pta = s.pta

LEMMA SentThrough ==
    ASSUME NEW s \in State, NEW es
    PROVE  Through(s, packetSentCallback(s), es)
BY DEF State, Through, packetSentCallback, Set, Clear, Has, txWaitingForAck

LEMMA FailedThrough ==
    ASSUME NEW s \in State, NEW es, NEW status
    PROVE  Through(s, txFailedCallback(s, status), es)
BY DEF State, Through, txFailedCallback, Set, Clear, Has

LEMMA TimeoutThrough ==
    ASSUME NEW s \in State, Good(s.flags), Has(s, "WAITING_FOR_ACK"), NEW es
    PROVE  Through(s, ackTimeoutCallback(s), es)
BY DEF State, Through, ackTimeoutCallback, Set, Clear, Has, Good, Assert, txWaitingForAck
LEMMA AckReceivedThrough ==
    ASSUME NEW s \in State, NEW es, NEW fp \in BOOLEAN, packet = "ack"
    PROVE  Through(s, ackReceived(s, fp), es)
BY DEF State, Through, ackReceived, Set, Clear, Has, Good, txIsDataRequest, txWaitingForAck
LEMMA AutoAckThrough ==
    ASSUME NEW s \in State, NEW es
    PROVE  /\ Through(s, ackSentCallback(s), es) /\ Calm(s, ackSentCallback(s))
           /\ Through(s, ackFailedCallback(s), es) /\ Calm(s, ackFailedCallback(s))
BY DEF State, Through, Calm, FrameFlags, TxEvents, ackSentCallback, ackFailedCallback, Clear
LEMMA ThroughTransitive ==
    ASSUME NEW s, NEW t, NEW u, NEW es, Through(s, t, es), Through(t, u, es)
    PROVE  Through(s, u, es)
BY DEF Through

LEMMA CalmTransitive ==
    ASSUME NEW s, NEW t, NEW u, Calm(s, t), Calm(t, u) PROVE Calm(s, u)
BY DEF Calm

LEMMA Unmoved ==
    ASSUME NEW s, NEW es PROVE Through(s, s, es) /\ Calm(s, s)
BY DEF Through, Calm

\* Each part of RAILCb_Generic, on its own.
LEMMA CompletionThrough ==
    ASSUME NEW s \in State, NEW es
    PROVE  Through(s, completionPart(s, es), es)
BY SentThrough, FailedThrough, Unmoved DEF completionPart

LEMMA ScheduledThrough ==
    ASSUME NEW s \in State, NEW es
    PROVE  /\ Through(s, scheduledPart(s, es), es)
           /\ "SCHEDULED_TX_MISSED" \notin es => Calm(s, scheduledPart(s, es))
<1>1. CASE Has(s, "SCHEDULED_RX_PENDING")
  BY <1>1 DEF State, Through, Calm, FrameFlags, TxEvents, scheduledPart, Set, Clear, Has
<1>2. CASE ~Has(s, "SCHEDULED_RX_PENDING")
  <2>1. CASE "SCHEDULED_STARTED" \in es
    BY <1>2, <2>1 DEF State, Through, Calm, FrameFlags, TxEvents, scheduledPart, Set, Clear, Has
  <2>2. CASE "SCHEDULED_STARTED" \notin es
    <3> DEFINE d == Clear(s, {"SCHEDULED_TX_PENDING"})
    <3>1. d \in State /\ Through(s, d, es)
      BY ClearState DEF Through, Clear, State
    <3>2. Through(d, txFailedCallback(d, "TX_FAILED"), es)
      BY <3>1, FailedThrough
    <3>3. scheduledPart(s, es) = IF "SCHEDULED_TX_MISSED" \in es
                                 THEN txFailedCallback(d, "TX_FAILED") ELSE s
      BY <1>2, <2>2 DEF scheduledPart
    <3> HIDE DEF d
    <3> QED BY <3>1, <3>2, <3>3, ThroughTransitive, Unmoved
  <2> QED BY <2>1, <2>2
<1> QED BY <1>1, <1>2

LEMMA PacketThrough ==
    ASSUME NEW s \in State, NEW es, NEW fp \in BOOLEAN, NEW keep \in BOOLEAN
    PROVE  /\ Through(s, packetPart(s, es, fp, keep), es)
           /\ packet # "ack" => Calm(s, packetPart(s, es, fp, keep))
<1>1. CASE packet = "ack"
  BY <1>1, AckReceivedThrough, Unmoved DEF packetPart, packetReceivedCallback
<1>2. CASE packet # "ack"
  BY <1>2 DEF State, Through, Calm, FrameFlags, TxEvents, packetPart,
              packetReceivedCallback, Set
<1> QED BY <1>1, <1>2

LEMMA AutoAckPartThrough ==
    ASSUME NEW s \in State, NEW es
    PROVE  Through(s, autoAckPart(s, es), es) /\ Calm(s, autoAckPart(s, es))
BY DEF State, Through, Calm, FrameFlags, TxEvents, autoAckPart, ackSentCallback, ackFailedCallback, Clear

LEMMA TimeoutPartThrough ==
    ASSUME NEW s \in State, Good(s.flags), NEW es
    PROVE  /\ Through(s, ackTimeoutPart(s, es), es)
           /\ "RX_ACK_TIMEOUT" \notin es => ackTimeoutPart(s, es) = s
BY TimeoutThrough, Unmoved DEF ackTimeoutPart

\* A frame the scheduler stops is no longer due a coexistence grant.
LEMMA SchedulerPartThrough ==
    ASSUME NEW s \in State, Good(s.flags), NEW es
    PROVE  /\ Through(s, schedulerPart(s, es), es)
           /\ IF "SCHEDULER_STATUS" \in es /\ schedulerError
              THEN "ONGOING_TX_DATA" \in s.flags => ~schedulerPart(s, es).pta
              ELSE schedulerPart(s, es) = s
<1>1. CASE "SCHEDULER_STATUS" \notin es \/ ~schedulerError
  BY <1>1, Unmoved DEF schedulerPart, schedulerEventCallback
<1>2. CASE "SCHEDULER_STATUS" \in es /\ schedulerError
  <2> DEFINE t == Clear(s, {"SCHEDULED_RX_PENDING", "SCHEDULED_TX_PENDING",
                            "SCHEDULED_TX_STARTED"})
             u == IF Has(t, "ONGOING_TX_ACK") THEN ackFailedCallback(t) ELSE t
             v == IF Has(u, "ONGOING_TX_DATA")
                  THEN txFailedCallback(u, "TX_CCA_FAILED") ELSE u
             w == IF Has(v, "WAITING_FOR_ACK") THEN ackTimeoutCallback(v) ELSE v
  <2>1. schedulerPart(s, es) = w
    BY <1>2 DEF schedulerPart, schedulerEventCallback
  <2>2. GoodStep(s, t)
    BY ClearStep DEF TxEvents
  <2>3. /\ Through(s, t, es)
        /\ "ONGOING_TX_DATA" \in s.flags => "ONGOING_TX_DATA" \in t.flags
    BY <1>2 DEF Through, Clear, State
  <2> HIDE DEF t
  <2>4. t \in State /\ Good(t.flags)
    BY <2>2 DEF GoodStep
  <2>5. /\ GoodStep(t, u) /\ Through(t, u, es)
        /\ "ONGOING_TX_DATA" \in t.flags => "ONGOING_TX_DATA" \in u.flags
    BY <2>4, AckSentStep, AutoAckThrough, StepReflexive, Unmoved
       DEF Calm, FrameFlags
  <2> HIDE DEF u
  <2>6. u \in State /\ Good(u.flags)
    BY <2>5 DEF GoodStep
  <2>7. /\ GoodStep(u, v) /\ Through(u, v, es)
        /\ "ONGOING_TX_DATA" \in u.flags => ~v.pta
    BY <2>6, FailedStep, FailedThrough, StepReflexive, Unmoved
       DEF txFailedCallback, Clear, Set, Has, State
  <2> HIDE DEF v
  <2>8. v \in State /\ Good(v.flags)
    BY <2>7 DEF GoodStep
  <2>9. Through(v, w, es)
    BY <2>8, TimeoutThrough, Unmoved
  <2> HIDE DEF w
  <2>10. Through(s, w, es)
    BY <2>3, <2>5, <2>7, <2>9, ThroughTransitive
  <2>11. "ONGOING_TX_DATA" \in s.flags => ~w.pta
    BY <2>3, <2>5, <2>7, <2>9 DEF Through
  <2> QED BY <1>2, <2>1, <2>10, <2>11
<1> QED BY <1>1, <1>2
\* The events that are about a frame, but for the packet of its ACK.
FrameEvents == {"TX_PACKET_SENT", "TX_CHANNEL_BUSY", "TX_ABORTED",
                "SCHEDULED_TX_MISSED", "RX_ACK_TIMEOUT"}

LEMMA InterruptThrough ==
    ASSUME NEW s \in State, Good(s.flags), NEW es, NEW fp \in BOOLEAN,
           NEW keep \in BOOLEAN
    PROVE  Through(s, RAILCb_Generic(s, es, fp, keep), es)
<1> DEFINE a == completionPart(s, es)
           b == scheduledPart(a, es)
           c == packetPart(b, es, fp, keep)
           d == autoAckPart(c, es)
           e == ackTimeoutPart(d, es)
           f == schedulerPart(e, es)
<1>1. RAILCb_Generic(s, es, fp, keep) = f
  BY DEF RAILCb_Generic
<1>2. a \in State /\ Good(a.flags) /\ Through(s, a, es)
  BY CompletionStep, CompletionThrough DEF GoodStep
<1> HIDE DEF a
<1>3. b \in State /\ Good(b.flags) /\ Through(a, b, es)
  BY <1>2, ScheduledStep, ScheduledThrough DEF GoodStep
<1> HIDE DEF b
<1>4. c \in State /\ Good(c.flags) /\ Through(b, c, es)
  BY <1>3, ReceivedStep, StepReflexive, PacketThrough DEF GoodStep, packetPart
<1> HIDE DEF c
<1>5. d \in State /\ Good(d.flags) /\ Through(c, d, es)
  BY <1>4, AutoAckStep, AutoAckPartThrough DEF GoodStep
<1> HIDE DEF d
<1>6. e \in State /\ Good(e.flags) /\ Through(d, e, es)
  BY <1>5, TimeoutStep, StepReflexive, TimeoutPartThrough
     DEF GoodStep, ackTimeoutPart
<1> HIDE DEF e
<1>7. Through(e, f, es)
  BY <1>6, SchedulerPartThrough
<1> HIDE DEF f
<1>8. Through(s, b, es) BY <1>2, <1>3, ThroughTransitive
<1>9. Through(s, c, es) BY <1>4, <1>8, ThroughTransitive
<1>10. Through(s, d, es) BY <1>5, <1>9, ThroughTransitive
<1>11. Through(s, e, es) BY <1>6, <1>10, ThroughTransitive
<1>12. Through(s, f, es) BY <1>7, <1>11, ThroughTransitive
<1> QED BY <1>1, <1>12

\* What follows the completion is calm unless it is about the frame; a
\* scheduler error ends a grant that is due.
LEMMA CalmRest ==
    ASSUME NEW s \in State, Good(s.flags), NEW es, NEW fp \in BOOLEAN,
           NEW keep \in BOOLEAN, packet # "ack",
           "SCHEDULED_TX_MISSED" \notin es, "RX_ACK_TIMEOUT" \notin es
    PROVE  LET r == schedulerPart(ackTimeoutPart(autoAckPart(packetPart(
                       scheduledPart(s, es), es, fp, keep), es), es), es) IN
           IF "SCHEDULER_STATUS" \in es /\ schedulerError
           THEN "ONGOING_TX_DATA" \in s.flags => ~r.pta
           ELSE Calm(s, r)
<1> DEFINE b == scheduledPart(s, es)
           c == packetPart(b, es, fp, keep)
           d == autoAckPart(c, es)
           e == ackTimeoutPart(d, es)
           f == schedulerPart(e, es)
<1>1. b \in State /\ Good(b.flags) /\ Calm(s, b)
  BY ScheduledStep, ScheduledThrough DEF GoodStep
<1> HIDE DEF b
<1>2. c \in State /\ Good(c.flags) /\ Calm(b, c)
  BY <1>1, ReceivedStep, StepReflexive, PacketThrough DEF GoodStep, packetPart
<1> HIDE DEF c
<1>3. d \in State /\ Good(d.flags) /\ Calm(c, d)
  BY <1>2, AutoAckStep, AutoAckPartThrough DEF GoodStep
<1> HIDE DEF d
<1>4. e = d
  BY <1>3, TimeoutPartThrough
<1> HIDE DEF e
<1>5. Calm(s, e)
  BY <1>1, <1>2, <1>3, <1>4, CalmTransitive
<1>6. "ONGOING_TX_DATA" \in s.flags => "ONGOING_TX_DATA" \in e.flags
  BY <1>5 DEF Calm, FrameFlags
<1>7. IF "SCHEDULER_STATUS" \in es /\ schedulerError
      THEN "ONGOING_TX_DATA" \in e.flags => ~f.pta
      ELSE f = e
  BY <1>3, <1>4, SchedulerPartThrough
<1> HIDE DEF f
<1>8. IF "SCHEDULER_STATUS" \in es /\ schedulerError
      THEN "ONGOING_TX_DATA" \in s.flags => ~f.pta
      ELSE Calm(s, f)
  BY <1>5, <1>6, <1>7
<1> QED BY <1>8 DEF b, c, d, e, f

\* An interrupt that is not about the frame.
LEMMA CalmInterrupt ==
    ASSUME NEW s \in State, Good(s.flags), NEW es, NEW fp \in BOOLEAN,
           NEW keep \in BOOLEAN, packet # "ack", es \cap FrameEvents = {}
    PROVE  IF "SCHEDULER_STATUS" \in es /\ schedulerError
           THEN "ONGOING_TX_DATA" \in s.flags
                   => ~RAILCb_Generic(s, es, fp, keep).pta
           ELSE Calm(s, RAILCb_Generic(s, es, fp, keep))
<1>1. completionPart(s, es) = s
  BY DEF completionPart, FrameEvents
<1>2. "SCHEDULED_TX_MISSED" \notin es /\ "RX_ACK_TIMEOUT" \notin es
  BY DEF FrameEvents
<1> QED BY <1>1, <1>2, CalmRest DEF RAILCb_Generic

\* The end of a frame that asks for an ACK: from now on it is awaited.
LEMMA SentAwaitsAck ==
    ASSUME NEW s \in State, Good(s.flags), "ONGOING_TX_DATA" \in s.flags,
           sCurrentTxPacket.ack, NEW es,
           es \cap FrameEvents \subseteq {"TX_PACKET_SENT", "RX_ACK_TIMEOUT"}
    PROVE  LET a == completionPart(s, es) IN
           /\ a \in State /\ Good(a.flags)
           /\ "ONGOING_TX_DATA" \in a.flags
           /\ "TX_PACKET_SENT" \in es \/ "WAITING_FOR_ACK" \in s.flags
                 => "WAITING_FOR_ACK" \in a.flags
<1>1. completionPart(s, es) = IF "TX_PACKET_SENT" \in es
                              THEN packetSentCallback(s) ELSE s
  BY DEF completionPart, FrameEvents
<1>2. /\ "ONGOING_TX_DATA" \in packetSentCallback(s).flags
      /\ "WAITING_FOR_ACK" \in packetSentCallback(s).flags
  BY DEF State, packetSentCallback, Set, Clear, Has, txWaitingForAck
<1> QED BY <1>1, <1>2, CompletionStep DEF GoodStep

LEMMA AckWaitInterrupt ==
    ASSUME NEW s \in State, Good(s.flags), "ONGOING_TX_DATA" \in s.flags,
           sCurrentTxPacket.ack, NEW es, NEW fp \in BOOLEAN,
           NEW keep \in BOOLEAN, packet # "ack",
           es \cap FrameEvents \subseteq {"TX_PACKET_SENT"},
           ~("SCHEDULER_STATUS" \in es /\ schedulerError),
           "TX_PACKET_SENT" \in es \/ "WAITING_FOR_ACK" \in s.flags
    PROVE  {"ONGOING_TX_DATA", "WAITING_FOR_ACK"}
              \subseteq RAILCb_Generic(s, es, fp, keep).flags
<1> DEFINE a == completionPart(s, es)
           r == RAILCb_Generic(s, es, fp, keep)
<1>1. a \in State /\ Good(a.flags) /\ "ONGOING_TX_DATA" \in a.flags
      /\ "WAITING_FOR_ACK" \in a.flags
  BY SentAwaitsAck
<1>2. "SCHEDULED_TX_MISSED" \notin es /\ "RX_ACK_TIMEOUT" \notin es
  BY DEF FrameEvents
<1>3. r = schedulerPart(ackTimeoutPart(autoAckPart(packetPart(
             scheduledPart(a, es), es, fp, keep), es), es), es)
  BY DEF RAILCb_Generic
<1> HIDE DEF a, r
<1>4. Calm(a, r)
  BY <1>1, <1>2, <1>3, CalmRest
<1>5. {"ONGOING_TX_DATA", "WAITING_FOR_ACK"} \subseteq r.flags
  BY <1>1, <1>4 DEF Calm, FrameFlags
<1> QED BY <1>5 DEF r

\* "we want the ACK to win over the timeout"
LEMMA AckInterrupt ==
    ASSUME NEW s \in State, Good(s.flags), "ONGOING_TX_DATA" \in s.flags,
           sCurrentTxPacket.ack, NEW es, NEW fp \in BOOLEAN,
           NEW keep \in BOOLEAN, packet = "ack",
           "RX_PACKET_RECEIVED" \in es,
           es \cap FrameEvents \subseteq {"TX_PACKET_SENT", "RX_ACK_TIMEOUT"}
    PROVE  "TX_SUCCESS" \in RAILCb_Generic(s, es, fp, keep).flags
<1> DEFINE a == completionPart(s, es)
           b == scheduledPart(a, es)
           c == packetPart(b, es, fp, keep)
           d == autoAckPart(c, es)
           e == ackTimeoutPart(d, es)
           f == schedulerPart(e, es)
<1>1. RAILCb_Generic(s, es, fp, keep) = f
  BY DEF RAILCb_Generic
<1>2. a \in State /\ Good(a.flags) /\ "ONGOING_TX_DATA" \in a.flags
  BY SentAwaitsAck
<1> HIDE DEF a
<1>3. Calm(a, b) /\ b \in State /\ Good(b.flags)
  BY <1>2, ScheduledStep, ScheduledThrough DEF GoodStep, FrameEvents
<1> HIDE DEF b
<1>4. "ONGOING_TX_DATA" \in b.flags
  BY <1>2, <1>3 DEF Calm, FrameFlags
<1>5. c = ackReceived(b, fp)
  BY DEF packetPart, packetReceivedCallback
<1>6. c \in State /\ Good(c.flags)
  BY <1>3, <1>5, AckReceivedStep DEF GoodStep
<1>7. "TX_SUCCESS" \in c.flags /\ "ONGOING_TX_DATA" \notin c.flags
  BY <1>3, <1>4, <1>5 DEF State, ackReceived, Set, Clear, Has,
                          txIsDataRequest, txWaitingForAck
<1> HIDE DEF c
<1>8. GoodStep(c, d)
  BY <1>6, AutoAckStep
<1> HIDE DEF d
<1>9. GoodStep(d, e)
  BY <1>8, TimeoutStep, StepReflexive DEF GoodStep, ackTimeoutPart
<1> HIDE DEF e
<1>10. GoodStep(e, f)
  BY <1>9, SchedulerStep, StepReflexive DEF GoodStep, schedulerPart
<1> HIDE DEF f
<1>11. GoodStep(c, f)
  BY <1>6, <1>8, <1>9, <1>10, StepTransitive
<1>12. f.flags \cap TxEvents = c.flags \cap TxEvents
  BY <1>7, <1>11 DEF GoodStep, Evolves
<1> QED BY <1>1, <1>7, <1>12 DEF TxEvents
LEMMA StartEffect ==
    ASSUME TypeOK, NEW s \in State, Good(s.flags), NEW ok \in BOOLEAN,
           "ONGOING_TX_DATA" \in s.flags,
           "WAITING_FOR_ACK" \notin s.flags,
           txCurrentPacket(s, ok)
    PROVE  /\ assertFailed' = s.failed
           /\ "SCHEDULED_RX_PENDING" \notin miscRadioState'
           /\ rx' \in {"off", rx}
           /\ "SCHEDULED_RX_PENDING" \in s.flags => rx' = "off"
           /\ IF ok
              THEN /\ "ONGOING_TX_DATA" \in miscRadioState'
                   /\ "WAITING_FOR_ACK" \notin miscRadioState'
                   /\ pta' = s.pta
                   /\ op' \in {"scheduled", "csma", "air"}
                   /\ schedulerError' = FALSE
              ELSE /\ "TX_FAILED" \in miscRadioState'
                   /\ "ONGOING_TX_DATA" \notin miscRadioState'
                   /\ ~pta'
                   /\ UNCHANGED <<op, schedulerError>>
<1> DEFINE a == Assert(s, Has(s, "ONGOING_TX_DATA"))
           t == dropScheduledRx(a)
           w == Set(t, {"SCHEDULED_TX_PENDING"})
           f == txFailedCallback(t, "TX_FAILED")
<1>1. a \in State /\ a.flags = s.flags /\ a.failed = s.failed /\ a.pta = s.pta
  BY DEF Assert, Has, State
<1>2. /\ rx' \in {"off", rx}
      /\ "SCHEDULED_RX_PENDING" \in s.flags => rx' = "off"
      /\ IF ok
         THEN /\ Becomes(IF sCurrentTxPacket.delay THEN w ELSE t)
              /\ op' \in {"scheduled", "csma", "air"}
              /\ schedulerError' = FALSE
         ELSE Becomes(f) /\ UNCHANGED <<op, schedulerError>>
  BY DEF txCurrentPacket, Has
<1> HIDE DEF a
<1>3. /\ t \in State /\ t.failed = s.failed /\ t.pta = s.pta
      /\ t.flags \cap FrameFlags = s.flags \cap FrameFlags
      /\ "SCHEDULED_RX_PENDING" \notin t.flags
  BY <1>1 DEF dropScheduledRx, Clear, Has, State, FrameFlags, TxEvents
<1> HIDE DEF t
<1>4. /\ w \in State /\ w.failed = s.failed /\ w.pta = s.pta
      /\ w.flags = t.flags \cup {"SCHEDULED_TX_PENDING"}
  BY <1>3 DEF Set, State, Flags
<1>5. /\ f.failed = s.failed /\ ~f.pta
      /\ "TX_FAILED" \in f.flags /\ "ONGOING_TX_DATA" \notin f.flags
      /\ "SCHEDULED_RX_PENDING" \notin f.flags
  BY <1>3 DEF txFailedCallback, Set, Clear, Has, State, FrameFlags
<1> HIDE DEF w, f
<1>6. "ONGOING_TX_DATA" \in t.flags /\ "WAITING_FOR_ACK" \notin t.flags
  BY <1>3 DEF FrameFlags
<1>7. CASE ok
  BY <1>2, <1>3, <1>4, <1>6, <1>7 DEF Becomes
<1>8. CASE ~ok
  BY <1>2, <1>5, <1>8 DEF Becomes
<1> QED BY <1>7, <1>8

-----------------------------------------------------------------------------
(* The invariant that relates the driver to RAIL.                          *)

WaitsForAck == "WAITING_FOR_ACK" \in miscRadioState
RxPending   == "SCHEDULED_RX_PENDING" \in miscRadioState
Stopped     == "SCHEDULER_STATUS" \in pending /\ schedulerError
Window      == rx \in {"waiting", "window"}

\* While RAIL has the frame, the driver knows the frame to be ongoing, and
\* nothing is raised that ends the frame or the radio's use for it.
RailHasFrame ==
    op # "none" =>
       /\ Ongoing /\ ~pta /\ ~RxPending /\ ~Stopped /\ ~Window
       /\ packet # "ack" /\ ~acked
       /\ pending \cap FrameEvents \subseteq {"TX_PACKET_SENT"}
       /\ IF op = "ackwait"
          THEN /\ sCurrentTxPacket.ack
               /\ "TX_PACKET_SENT" \in pending \/ WaitsForAck
          ELSE "TX_PACKET_SENT" \notin pending /\ ~WaitsForAck

\* A grant is only due for a frame RAIL has not seen yet.
GrantDue ==
    pta => /\ Ongoing /\ ~WaitsForAck /\ ~acked /\ packet # "ack"
           /\ pending \cap FrameEvents = {}

\* Events about a frame find it ongoing, the ACK before any other end of it.
EventsDue == pending \cap FrameEvents # {} => Ongoing
AckIsDue ==
    /\ packet = "ack" =>
          /\ Ongoing /\ sCurrentTxPacket.ack /\ acked
          /\ "RX_PACKET_RECEIVED" \in pending
          /\ pending \cap FrameEvents
                \subseteq {"TX_PACKET_SENT", "RX_ACK_TIMEOUT"}
    /\ acked /\ Ongoing => packet = "ack"
    /\ pc = "transmit" => ~acked

\* The calls that are split in two, and the window the flag stands for.
SplitCalls ==
    /\ pc = "sleep" => ~Ongoing
    /\ pc = "receiveAt" => RxPending
    /\ pc \in {"receiveAtLoad", "receiveAt"} =>
          /\ ~awaiting /\ ~Window
          /\ pending \cap {"SCHEDULED_RX_OVER", "SCHEDULER_STATUS"} = {}
WindowKnown ==
    /\ pc \in {"idle", "transmit"} /\ Window => RxPending
    /\ Window => "SCHEDULED_RX_OVER" \notin pending /\ ~Stopped

RailInv ==
    /\ RailHasFrame /\ GrantDue /\ EventsDue /\ AckIsDue
    /\ SplitCalls /\ WindowKnown
    /\ NoAssertFails /\ AckDecides /\ NeverIdledUnderTx

LEMMA InitRailInv ==
    ASSUME Init PROVE RailInv
BY DEF Init, RailInv, RailHasFrame, GrantDue, EventsDue, AckIsDue, SplitCalls,
       WindowKnown, NoAssertFails, AckDecides, NeverIdledUnderTx, Ongoing,
       Decided, Window, FrameEvents

\* RAIL's own steps leave the driver's variables alone.
LEMMA RailDriverParts ==
    ASSUME Rail
    PROVE  /\ UNCHANGED <<miscRadioState, sCurrentTxPacket, pc, awaiting, pta>>
           /\ Ongoing' = Ongoing /\ Decided' = Decided
           /\ WaitsForAck' = WaitsForAck /\ RxPending' = RxPending
           /\ NoAssertFails' = NoAssertFails
           /\ NeverIdledUnderTx' = NeverIdledUnderTx
           /\ Outcome(miscRadioState)' = Outcome(miscRadioState)
BY RailLeavesDriver DEF driver, Ongoing, Decided, WaitsForAck, RxPending,
       NoAssertFails, NeverIdledUnderTx
LEMMA RailRailInv ==
    ASSUME TxInv, RailInv, Rail PROVE RailInv'
<1> USE DEF RailInv, RailHasFrame, GrantDue, EventsDue, AckIsDue, SplitCalls,
            WindowKnown, AckDecides, Stopped, Window, FrameEvents, Raise
<1>1. /\ UNCHANGED <<miscRadioState, sCurrentTxPacket, pc, awaiting, pta>>
      /\ Ongoing' = Ongoing /\ Decided' = Decided
      /\ WaitsForAck' = WaitsForAck /\ RxPending' = RxPending
      /\ NoAssertFails' = NoAssertFails
      /\ NeverIdledUnderTx' = NeverIdledUnderTx
      /\ Outcome(miscRadioState)' = Outcome(miscRadioState)
  BY RailDriverParts
<1>2. ~awaiting => ~Ongoing
  BY DEF TxInv
<1>3. Ongoing => Decided = {}
  BY DEF TxInv, Good, Ongoing, Decided
<1>4. CASE ScheduledTimeArrives
  BY <1>1, <1>2, <1>4 DEF ScheduledTimeArrives, history
<1>5. CASE ChannelAssessed
  BY <1>1, <1>2, <1>5 DEF ChannelAssessed, history
<1>6. CASE FrameSent
  BY <1>1, <1>2, <1>6 DEF FrameSent, history
<1>7. CASE AckWaitEnds
  <2>1. /\ Ongoing /\ ~pta /\ ~Window /\ sCurrentTxPacket.ack /\ ~acked
        /\ packet # "ack" /\ Decided = {} /\ pc # "transmit"
        /\ pending \cap FrameEvents \subseteq {"TX_PACKET_SENT"}
    BY <1>3, <1>7 DEF AckWaitEnds, TxInv
  <2>2. /\ op' = "none" /\ UNCHANGED <<rx, schedulerError>>
        /\ \/ /\ pending' = pending \cup {"RX_ACK_TIMEOUT"}
              /\ UNCHANGED <<packet, acked>>
           \/ /\ packet' = "ack" /\ acked' = TRUE
              /\ "RX_PACKET_RECEIVED" \in pending'
              /\ pending' \subseteq pending
                    \cup {"RX_PACKET_RECEIVED", "RX_ACK_TIMEOUT"}
    BY <1>7 DEF AckWaitEnds
  <2>3. AckIsDue'
    BY <1>1, <2>1, <2>2
  <2>4. RailHasFrame' /\ GrantDue' /\ EventsDue' /\ AckDecides'
    BY <1>1, <2>1, <2>2
  <2>5. pc \notin {"sleep", "receiveAtLoad", "receiveAt"}
    BY <1>2, <2>1
  <2>6. SplitCalls' /\ WindowKnown'
    BY <1>1, <2>1, <2>2, <2>5
  <2> QED BY <1>1, <2>3, <2>4, <2>6
<1>8. CASE TransmitPreempted
  BY <1>1, <1>2, <1>8 DEF TransmitPreempted, history
<1>9. CASE WindowProgress
  BY <1>1, <1>2, <1>9 DEF WindowProgress, history
<1>10. CASE PacketArrives
  BY <1>1, <1>2, <1>10 DEF PacketArrives, history
<1>11. CASE AutoAckEnds
  BY <1>1, <1>2, <1>11 DEF AutoAckEnds, history
<1> QED BY <1>4, <1>5, <1>6, <1>7, <1>8, <1>9, <1>10, <1>11
        DEF Rail, TxProgress

LEMMA InterruptRailInv ==
    ASSUME TxInv, RailInv, Interrupt PROVE RailInv'
<1> PICK fp \in BOOLEAN, keep \in BOOLEAN :
      LET s == RAILCb_Generic(Now, pending, fp, keep) IN
      /\ Becomes(s)
      /\ idledUnderTx' = (idledUnderTx \/ (s.idle /\ op # "none"))
      /\ op' = IF s.idle THEN "none" ELSE op
      /\ rx' = IF s.idle THEN "off" ELSE rx
      /\ pending' = IF s.idle /\ op # "none" THEN {"TX_ABORTED"} ELSE {}
  BY DEF Interrupt
<1> DEFINE s == RAILCb_Generic(Now, pending, fp, keep)
<1>1. /\ Becomes(s)
      /\ idledUnderTx' = (idledUnderTx \/ (s.idle /\ op # "none"))
      /\ op' = IF s.idle THEN "none" ELSE op
      /\ rx' = IF s.idle THEN "off" ELSE rx
      /\ pending' = IF s.idle /\ op # "none" THEN {"TX_ABORTED"} ELSE {}
      /\ packet' = "none"
      /\ UNCHANGED <<sCurrentTxPacket, pc, awaiting, schedulerError, acked>>
  BY DEF Interrupt
<1>2. /\ Now \in State /\ Now.flags = miscRadioState /\ Good(Now.flags)
      /\ Now.failed = assertFailed /\ Now.pta = pta /\ Now.idle = FALSE
  BY NowIsState DEF TxInv, Now
<1>3. Through(Now, s, pending)
  BY <1>2, InterruptThrough
<1>4. GoodStep(Now, s)
  BY <1>2, InterruptStep
<1>5. ~Stopped /\ packet # "ack" /\ pending \cap FrameEvents = {}
         => Calm(Now, s)
  BY <1>2, CalmInterrupt DEF Stopped
<1>6. Stopped /\ packet # "ack" /\ pending \cap FrameEvents = {} /\ Ongoing
         => ~s.pta
  BY <1>2, CalmInterrupt DEF Stopped, Ongoing
<1>7. op = "ackwait" => {"ONGOING_TX_DATA", "WAITING_FOR_ACK"} \subseteq s.flags
  BY <1>2, AckWaitInterrupt
     DEF RailInv, RailHasFrame, Stopped, Ongoing, WaitsForAck
<1>8. packet = "ack" => "TX_SUCCESS" \in s.flags
  BY <1>2, AckInterrupt DEF RailInv, AckIsDue, Ongoing
<1> HIDE DEF s
<1>9. /\ s \in State /\ Good(s.flags) /\ Evolves(miscRadioState, s.flags)
      /\ miscRadioState' = s.flags /\ assertFailed' = s.failed /\ pta' = s.pta
  BY <1>1, <1>2, <1>4 DEF GoodStep, Becomes
<1>10. /\ s.failed = assertFailed
       /\ s.pta => pta
       /\ RxPending' => RxPending
       /\ s.idle => RxPending /\ "SCHEDULED_RX_OVER" \in pending
       /\ RxPending => RxPending' \/ "SCHEDULED_RX_OVER" \in pending \/ Stopped
       /\ sCurrentTxPacket.ack /\ packet # "ack" /\ "TX_SUCCESS" \in s.flags
             => "TX_SUCCESS" \in miscRadioState
  BY <1>2, <1>3, <1>9 DEF Through, RxPending, Stopped
<1>11. op # "none" => ~s.idle
  BY <1>10 DEF RailInv, RailHasFrame
<1>12. pending' = {}
  BY <1>1, <1>11
<1>13. Ongoing' => Ongoing
  BY <1>9 DEF Evolves, Ongoing
<1>14. RailHasFrame'
  <2> SUFFICES ASSUME op' # "none" PROVE RailHasFrame'
    BY DEF RailHasFrame
  <2>1. op' = op /\ op # "none" /\ rx' = rx
    BY <1>1
  <2>2. /\ Ongoing /\ ~pta /\ ~RxPending /\ ~Window /\ packet # "ack" /\ ~acked
        /\ ~Stopped
        /\ pending \cap FrameEvents \subseteq {"TX_PACKET_SENT"}
        /\ op # "ackwait" => "TX_PACKET_SENT" \notin pending /\ ~WaitsForAck
        /\ op = "ackwait" => sCurrentTxPacket.ack
    BY <2>1 DEF RailInv, RailHasFrame
  <2>3. Ongoing' /\ (IF op = "ackwait" THEN WaitsForAck' ELSE ~WaitsForAck')
    <3>1. CASE op = "ackwait"
      BY <1>7, <1>9, <3>1 DEF Ongoing, WaitsForAck
    <3>2. CASE op # "ackwait"
      <4>1. Calm(Now, s)
        BY <1>5, <2>2, <3>2
      <4>2. Ongoing' /\ ~WaitsForAck'
        BY <1>2, <1>9, <2>2, <3>2, <4>1
           DEF Calm, FrameFlags, Ongoing, WaitsForAck
      <4> QED BY <3>2, <4>2
    <3> QED BY <3>1, <3>2
  <2>4. ~pta' /\ ~RxPending' /\ ~Window' /\ ~Stopped'
    BY <1>9, <1>10, <1>12, <2>1, <2>2 DEF Window, Stopped
  <2> QED BY <1>1, <1>12, <2>1, <2>2, <2>3, <2>4 DEF RailHasFrame
<1>15. GrantDue'
  <2> SUFFICES ASSUME pta' PROVE GrantDue'
    BY DEF GrantDue
  <2>1. /\ Ongoing /\ ~WaitsForAck /\ ~acked /\ packet # "ack"
        /\ pending \cap FrameEvents = {}
    BY <1>9, <1>10 DEF RailInv, GrantDue
  <2>2. ~Stopped
    BY <1>6, <1>9, <2>1
  <2>3. Calm(Now, s)
    BY <1>5, <2>1, <2>2
  <2>4. Ongoing' /\ ~WaitsForAck'
    BY <1>2, <1>9, <2>1, <2>3 DEF Calm, FrameFlags, Ongoing, WaitsForAck
  <2> QED BY <1>1, <1>12, <2>1, <2>4 DEF GrantDue
<1>16. EventsDue'
  BY <1>12 DEF EventsDue
<1>17. packet = "ack" => ~Ongoing'
  BY <1>8, <1>9 DEF Good, Ongoing, TxEvents
<1>18. AckIsDue'
  BY <1>1, <1>13, <1>17 DEF RailInv, AckIsDue
<1>19. SplitCalls'
  <2>1. Window' => Window
    BY <1>1 DEF Window
  <2>2. pc = "receiveAt" => RxPending'
    BY <1>10 DEF RailInv, SplitCalls, Stopped
  <2> QED BY <1>1, <1>12, <1>13, <2>1, <2>2 DEF RailInv, SplitCalls
<1>20. WindowKnown'
  <2> SUFFICES ASSUME Window' PROVE WindowKnown'
    BY DEF WindowKnown
  <2>1. Window
    BY <1>1 DEF Window
  <2> QED BY <1>1, <1>10, <1>12, <2>1 DEF RailInv, WindowKnown, Stopped
<1>21. AckDecides'
  <2> SUFFICES ASSUME Decided' # {}, sCurrentTxPacket.ack
               PROVE  acked' <=> Outcome(miscRadioState)' = "TX_SUCCESS"
    BY <1>1 DEF AckDecides
  <2>1. CASE ~Ongoing
    <3>1. Decided' = Decided
      BY <1>9, <2>1 DEF Evolves, Ongoing, Decided
    <3>2. Outcome(miscRadioState)' = Outcome(miscRadioState)
      BY <3>1 DEF Outcome, Decided, TxEvents
    <3> QED BY <1>1, <3>1, <3>2 DEF RailInv, AckDecides
  <2>2. CASE Ongoing
    <3>1. "TX_SUCCESS" \notin miscRadioState
      BY <2>2 DEF TxInv, Good, Ongoing, TxEvents
    <3>2. acked <=> packet = "ack"
      BY <2>2 DEF RailInv, AckIsDue
    <3>3. acked <=> "TX_SUCCESS" \in s.flags
      BY <1>8, <1>10, <3>1, <3>2
    <3> QED BY <1>1, <1>9, <3>3 DEF Outcome
  <2> QED BY <2>1, <2>2
<1>22. NoAssertFails' /\ NeverIdledUnderTx'
  BY <1>1, <1>9, <1>10, <1>11
     DEF RailInv, NoAssertFails, NeverIdledUnderTx
<1> QED BY <1>14, <1>15, <1>16, <1>18, <1>19, <1>20, <1>21, <1>22 DEF RailInv
\* Handing a frame to RAIL, from the main loop or on a grant.  RAIL has no
\* other frame and no event of one.
LEMMA StartRailInv ==
    ASSUME TxInv, RailInv, TxInv', NEW s \in State, Good(s.flags),
           NEW ok \in BOOLEAN, txCurrentPacket(s, ok),
           "ONGOING_TX_DATA" \in s.flags, "WAITING_FOR_ACK" \notin s.flags,
           RxPending => "SCHEDULED_RX_PENDING" \in s.flags,
           s.failed = assertFailed, ~s.pta,
           op = "none", pending \cap FrameEvents = {}, packet # "ack", ~acked,
           pc \in {"idle", "transmit"}, pc' = "idle",
           UNCHANGED <<sCurrentTxPacket, awaiting, pending, packet, acked,
                       idledUnderTx>>
    PROVE  RailInv'
<1>1. /\ assertFailed' = assertFailed
      /\ ~RxPending'
      /\ rx' \in {"off", rx}
      /\ RxPending => rx' = "off"
      /\ IF ok
         THEN /\ Ongoing' /\ ~WaitsForAck' /\ ~pta'
              /\ op' \in {"scheduled", "csma", "air"}
              /\ schedulerError' = FALSE
         ELSE /\ "TX_FAILED" \in miscRadioState'
              /\ ~Ongoing' /\ ~pta' /\ op' = "none"
              /\ UNCHANGED schedulerError
  BY StartEffect DEF TxInv, RxPending, WaitsForAck, Ongoing
<1>2. ~Window'
  BY <1>1 DEF RailInv, WindowKnown, Window
<1>3. RailHasFrame' /\ GrantDue' /\ EventsDue' /\ AckIsDue'
  <2>1. CASE ok
    BY <1>1, <1>2, <2>1
       DEF RailHasFrame, GrantDue, EventsDue, AckIsDue, Stopped, FrameEvents
  <2>2. CASE ~ok
    BY <1>1, <2>2 DEF RailHasFrame, GrantDue, EventsDue, AckIsDue
  <2> QED BY <2>1, <2>2
<1>4. SplitCalls' /\ WindowKnown'
  BY <1>2 DEF SplitCalls, WindowKnown
<1>5. AckDecides'
  <2>1. Ongoing' => Decided' = {}
    BY DEF TxInv, Good, Ongoing, Decided
  <2>2. "TX_FAILED" \in miscRadioState'
           => Outcome(miscRadioState)' # "TX_SUCCESS"
    BY DEF TxInv, Good, Outcome, TxEvents
  <2> QED BY <1>1, <2>1, <2>2 DEF AckDecides
<1>6. NoAssertFails' /\ NeverIdledUnderTx'
  BY <1>1 DEF RailInv, NoAssertFails, NeverIdledUnderTx
<1> QED BY <1>3, <1>4, <1>5, <1>6 DEF RailInv

LEMMA GrantRailInv ==
    ASSUME TxInv, RailInv, onPtaGrantTx PROVE RailInv'
<1> DEFINE c == Clear(Now, {"CURRENT_TX_USE_CSMA"})
           s == [c EXCEPT !.pta = FALSE]
<1>1. PICK ok \in BOOLEAN : txCurrentPacket(s, ok)
  BY DEF onPtaGrantTx
<1>2. /\ pta
      /\ UNCHANGED <<sCurrentTxPacket, pc, awaiting, pending, packet, acked,
                     idledUnderTx>>
  BY DEF onPtaGrantTx
<1>3. /\ s \in State /\ s.flags = miscRadioState \ {"CURRENT_TX_USE_CSMA"}
      /\ s.failed = assertFailed /\ ~s.pta
  BY NowIsState DEF Now, Clear, State, TxInv
<1>4. GoodStep(Now, c)
  BY NowIsState, ClearStep DEF TxInv, TxEvents
<1>5. Good(s.flags)
  BY <1>3, <1>4, ClearState, NowIsState DEF GoodStep, TxInv
<1> HIDE DEF s
<1>6. /\ Ongoing /\ ~WaitsForAck /\ ~acked /\ packet # "ack"
      /\ pending \cap FrameEvents = {} /\ op = "none"
  BY <1>2 DEF RailInv, GrantDue, RailHasFrame
<1>7. pc = "idle"
  BY <1>6 DEF TxInv, TypeOK, RailInv, SplitCalls
<1>8. /\ "ONGOING_TX_DATA" \in s.flags /\ "WAITING_FOR_ACK" \notin s.flags
      /\ RxPending => "SCHEDULED_RX_PENDING" \in s.flags
  BY <1>3, <1>6 DEF Ongoing, WaitsForAck, RxPending
<1>9. TxInv'
  BY GrantInv
<1> QED BY <1>1, <1>2, <1>3, <1>5, <1>6, <1>7, <1>8, <1>9, StartRailInv

LEMMA TransmitStartRailInv ==
    ASSUME TxInv, RailInv, TransmitStart PROVE RailInv'
<1> DEFINE s == Set(Now, {"ONGOING_TX_DATA"})
           p == [s EXCEPT !.pta = TRUE]
           f == txFailedCallback(s, "TX_FAILED")
<1>1. /\ pc = "transmit" /\ awaiting /\ miscRadioState \cap TxEvents = {}
      /\ ~Ongoing
  BY DEF TransmitStart, TxInv, Decided
<1>2. /\ op = "none" /\ ~pta /\ pending \cap FrameEvents = {}
      /\ packet # "ack" /\ ~acked
  BY <1>1 DEF RailInv, RailHasFrame, GrantDue, EventsDue, AckIsDue
<1>3. ~WaitsForAck
  BY <1>1 DEF TxInv, Good, WaitsForAck, Ongoing
<1>4. /\ s \in State /\ Good(s.flags)
      /\ s.flags = miscRadioState \cup {"ONGOING_TX_DATA"}
      /\ s.failed = assertFailed /\ s.pta = pta
  BY <1>1, StartState DEF TxInv, Set, Now
<1>5. TxInv'
  BY TransmitStartInv
<1>6. /\ pc' = "idle"
      /\ UNCHANGED <<sCurrentTxPacket, awaiting, pending, packet, acked,
                     idledUnderTx>>
      /\ \/ \E ok \in BOOLEAN : txCurrentPacket(s, ok)
         \/ Becomes(p) /\ UNCHANGED <<op, rx, schedulerError>>
         \/ Becomes(f) /\ UNCHANGED <<op, rx, schedulerError>>
  BY DEF TransmitStart, tryTxCurrentPacket
<1>7. /\ p.flags = s.flags /\ p.pta /\ p.failed = s.failed
      /\ ~f.pta /\ f.failed = s.failed /\ "TX_FAILED" \in f.flags
      /\ "ONGOING_TX_DATA" \notin f.flags
      /\ "SCHEDULED_RX_PENDING" \in s.flags
            => "SCHEDULED_RX_PENDING" \in f.flags
  BY <1>4 DEF State, txFailedCallback, Set, Clear, Has
<1> HIDE DEF s, p, f
<1>8. CASE \E ok \in BOOLEAN : txCurrentPacket(s, ok)
  <2>1. /\ "ONGOING_TX_DATA" \in s.flags /\ "WAITING_FOR_ACK" \notin s.flags
        /\ RxPending => "SCHEDULED_RX_PENDING" \in s.flags
    BY <1>3, <1>4 DEF WaitsForAck, RxPending
  <2>2. PICK ok \in BOOLEAN : txCurrentPacket(s, ok)
    BY <1>8
  <2> QED BY <1>1, <1>2, <1>4, <1>5, <1>6, <2>1, <2>2, StartRailInv
<1>9. CASE \/ Becomes(p) /\ UNCHANGED <<op, rx, schedulerError>>
           \/ Becomes(f) /\ UNCHANGED <<op, rx, schedulerError>>
  <2>1. /\ UNCHANGED <<op, rx, schedulerError, assertFailed>>
        /\ RxPending => RxPending'
        /\ \/ Ongoing' /\ ~WaitsForAck' /\ Decided' = {}
           \/ ~Ongoing' /\ ~pta' /\ "TX_FAILED" \in miscRadioState'
    <3>1. CASE Becomes(p)
      <4>1. /\ miscRadioState' = miscRadioState \cup {"ONGOING_TX_DATA"}
            /\ UNCHANGED <<op, rx, schedulerError, assertFailed>>
        BY <1>4, <1>7, <1>9, <3>1 DEF Becomes
      <4> QED BY <1>1, <1>3, <4>1
              DEF RxPending, Ongoing, WaitsForAck, Decided, TxEvents
    <3>2. CASE Becomes(f)
      BY <1>4, <1>7, <1>9, <3>2 DEF Becomes, RxPending, Ongoing
    <3> QED BY <1>9, <3>1, <3>2
  <2>2. RailHasFrame' /\ GrantDue' /\ EventsDue' /\ AckIsDue'
    BY <1>2, <1>6, <2>1 DEF RailHasFrame, GrantDue, EventsDue, AckIsDue
  <2>3. SplitCalls' /\ WindowKnown'
    BY <1>1, <1>6, <2>1 DEF RailInv, SplitCalls, WindowKnown, Window, Stopped
  <2>4. "TX_FAILED" \in miscRadioState'
           => Outcome(miscRadioState)' # "TX_SUCCESS"
    BY <1>5 DEF TxInv, Good, Outcome, TxEvents
  <2>5. AckDecides' /\ NoAssertFails' /\ NeverIdledUnderTx'
    BY <1>2, <1>6, <2>1, <2>4
       DEF RailInv, AckDecides, NoAssertFails, NeverIdledUnderTx
  <2> QED BY <2>2, <2>3, <2>5 DEF RailInv
<1> QED BY <1>6, <1>8, <1>9
\* The calls of the main loop that hand nothing to RAIL.
LEMMA BeginRailInv ==
    ASSUME TxInv, RailInv, TransmitBegin PROVE RailInv'
<1>1. /\ pc = "idle" /\ pending = {} /\ ~Ongoing /\ Decided = {}
      /\ pc' = "transmit" /\ acked' = FALSE
      /\ assertFailed' = (assertFailed \/ Ongoing)
      /\ UNCHANGED <<pta, op, rx, pending, packet, schedulerError,
                     idledUnderTx>>
  BY TransmitBeginInv DEF TransmitBegin, rail, Ongoing
<1>2. /\ RxPending => RxPending'
      /\ Ongoing' = Ongoing /\ Decided' = {}
  BY <1>1, TransmitBeginInv
     DEF TransmitBegin, RxPending, Ongoing, Decided, TxEvents, TxInv
<1>3. op = "none" /\ ~pta /\ packet # "ack"
  BY <1>1 DEF RailInv, RailHasFrame, GrantDue, AckIsDue
<1>4. RailHasFrame' /\ GrantDue' /\ EventsDue' /\ AckIsDue'
  BY <1>1, <1>3 DEF RailHasFrame, GrantDue, EventsDue, AckIsDue
<1>5. SplitCalls' /\ WindowKnown'
  BY <1>1, <1>2 DEF RailInv, SplitCalls, WindowKnown, Window, Stopped
<1>6. AckDecides' /\ NoAssertFails' /\ NeverIdledUnderTx'
  BY <1>1, <1>2 DEF RailInv, AckDecides, NoAssertFails, NeverIdledUnderTx
<1> QED BY <1>4, <1>5, <1>6 DEF RailInv

LEMMA CompleteRailInv ==
    ASSUME TxInv, RailInv, processTxComplete PROVE RailInv'
<1>1. /\ pc = "idle" /\ pc' = "idle" /\ pending = {} /\ ~Ongoing /\ ~Ongoing'
      /\ Decided' = {}
      /\ UNCHANGED <<pta, op, rx, pending, packet, schedulerError, acked,
                     assertFailed, idledUnderTx>>
  BY TxCompleteInv DEF processTxComplete, rail, history
<1>2. RxPending' = RxPending
  BY DEF processTxComplete, RxPending, ReportedEvent, Outcome
<1>3. op = "none" /\ ~pta /\ packet # "ack"
  BY <1>1 DEF RailInv, RailHasFrame, GrantDue, AckIsDue
<1> QED BY <1>1, <1>2, <1>3
        DEF RailInv, RailHasFrame, GrantDue, EventsDue, AckIsDue, SplitCalls,
            WindowKnown, Window, Stopped, AckDecides, NoAssertFails,
            NeverIdledUnderTx

LEMMA RequestRailInv ==
    ASSUME ~Overlap, TxInv, RailInv,
           Receive \/ ReceiveAtLooks \/ ReceiveAtBegin
              \/ ReceiveAtStart \/ SleepBegin \/ SleepIdle
    PROVE  RailInv'
<1>1. /\ pending = {} /\ ~Ongoing /\ op = "none" /\ ~pta /\ packet # "ack"
      /\ UNCHANGED <<sCurrentTxPacket, awaiting, op, pending, packet, pta,
                     acked, assertFailed>>
  <2>1. pending = {} /\ ~Ongoing
    BY DEF Receive, ReceiveAtLooks, ReceiveAtBegin, ReceiveAtStart,
           SleepBegin, SleepIdle,
           Ongoing, RailInv, SplitCalls, TxInv
  <2>2. op = "none" /\ ~pta /\ packet # "ack"
    BY <2>1 DEF RailInv, RailHasFrame, GrantDue, AckIsDue
  <2>3. UNCHANGED <<sCurrentTxPacket, awaiting, op, pending, packet, pta,
                    acked, assertFailed>>
    BY DEF Receive, ReceiveAtLooks, ReceiveAtBegin, ReceiveAtStart,
           SleepBegin, SleepIdle,
           rail, history
  <2> QED BY <2>1, <2>2, <2>3
<1>2. miscRadioState' \in {miscRadioState,
                           miscRadioState \ {"SCHEDULED_RX_PENDING"},
                           miscRadioState \cup {"SCHEDULED_RX_PENDING"}}
  BY DEF Receive, ReceiveAtLooks, ReceiveAtBegin, ReceiveAtStart,
         SleepBegin, SleepIdle
<1>3. /\ ~Ongoing' /\ Decided' = Decided
      /\ Outcome(miscRadioState)' = Outcome(miscRadioState)
  BY <1>1, <1>2 DEF Ongoing, Decided, TxEvents, Outcome
<1>4. RailHasFrame' /\ GrantDue' /\ EventsDue' /\ AckDecides'
  BY <1>1, <1>3 DEF RailInv, RailHasFrame, GrantDue, EventsDue, AckDecides
<1>5. pc' # "transmit"
  BY DEF Receive, ReceiveAtLooks, ReceiveAtBegin, ReceiveAtStart,
         SleepBegin, SleepIdle
<1>6. AckIsDue' /\ NoAssertFails'
  BY <1>1, <1>3, <1>5 DEF RailInv, AckIsDue, NoAssertFails
<1>7. NeverIdledUnderTx'
  BY <1>1 DEF RailInv, NeverIdledUnderTx, Receive, ReceiveAtLooks, ReceiveAtBegin,
              ReceiveAtStart, SleepBegin, SleepIdle, history
<1>8. SplitCalls' /\ WindowKnown'
  <2> USE DEF RailInv, SplitCalls, WindowKnown, Window, RxPending, Stopped
  <2>1. CASE Receive
    BY <1>1, <1>3, <2>1 DEF Receive
  <2>2. CASE ReceiveAtLooks \/ ReceiveAtBegin
    BY <1>1, <1>3, <2>2 DEF ReceiveAtLooks, ReceiveAtBegin, rail
  <2>3. CASE ReceiveAtStart
    BY <1>1, <1>3, <2>3 DEF ReceiveAtStart
  <2>4. CASE SleepBegin
    BY <1>1, <1>3, <2>4 DEF SleepBegin, rail
  <2>5. CASE SleepIdle
    BY <1>1, <1>3, <2>5 DEF SleepIdle
  <2> QED BY <2>1, <2>2, <2>3, <2>4, <2>5
<1> QED BY <1>4, <1>6, <1>7, <1>8 DEF RailInv

LEMMA StutterRailInv ==
    ASSUME RailInv, UNCHANGED vars PROVE RailInv'
BY DEF vars, driver, rail, history, RailInv, RailHasFrame, GrantDue, EventsDue,
       AckIsDue, SplitCalls, WindowKnown, NoAssertFails, AckDecides,
       NeverIdledUnderTx, Ongoing, Decided, WaitsForAck, RxPending, Stopped,
       Window

LEMMA NextRailInv ==
    ASSUME ~Overlap, TxInv, RailInv, [Next]_vars PROVE RailInv'
<1>1. CASE Rail
  BY <1>1, RailRailInv
<1>2. CASE Interrupt
  BY <1>2, InterruptRailInv
<1>3. CASE onPtaGrantTx
  BY <1>3, GrantRailInv
<1>4. CASE TransmitBegin
  BY <1>4, BeginRailInv
<1>5. CASE TransmitStart
  BY <1>5, TransmitStartRailInv
<1>6. CASE processTxComplete
  BY <1>6, CompleteRailInv
<1>7. CASE Receive \/ ReceiveAtLooks \/ ReceiveAtBegin
              \/ ReceiveAtStart \/ SleepBegin \/ SleepIdle
  BY <1>7, RequestRailInv
<1>8. CASE UNCHANGED vars
  BY <1>8, StutterRailInv
<1> QED BY <1>1, <1>2, <1>3, <1>4, <1>5, <1>6, <1>7, <1>8 DEF Next, Main

\* RailInv is an invariant of a stack that asks for one thing at a time.
THEOREM RailInvariance == ~Overlap /\ Spec => []RailInv
<1>1. Init => RailInv
  BY InitRailInv
<1>2. ~Overlap /\ TxInv /\ RailInv /\ [Next]_vars => RailInv'
  BY NextRailInv
<1>3. CASE ~Overlap
  <2>1. TxInv /\ RailInv /\ [Next]_vars => RailInv'
    BY <1>2, <1>3
  <2> QED BY <1>1, <2>1, TxInvariance, PTL DEF Spec
<1>4. CASE Overlap
  BY <1>4, PTL
<1> QED BY <1>3, <1>4

\* No OT_ASSERT of the transmit path fails: a coexistence grant only comes
\* for a frame that is still ongoing, and an ACK timeout is only acted upon
\* while an ACK is awaited.
THEOREM AssertsHold == ~Overlap /\ Spec => []NoAssertFails
<1>1. RailInv => NoAssertFails
  BY DEF RailInv
<1> QED BY <1>1, RailInvariance, PTL

\* A frame whose ACK RAIL received is reported as sent, also when the same
\* mask holds its timeout, and one that asks for an ACK only with it.
THEOREM AckWins == ~Overlap /\ Spec => []AckDecides
<1>1. RailInv => AckDecides
  BY DEF RailInv
<1> QED BY <1>1, RailInvariance, PTL

\* The end of a receive window and otPlatRadioSleep never idle the radio
\* under the stack's frame.
THEOREM FrameNeverCut == ~Overlap /\ Spec => []NeverIdledUnderTx
<1>1. RailInv => NeverIdledUnderTx
  BY DEF RailInv
<1> QED BY <1>1, RailInvariance, PTL
-----------------------------------------------------------------------------
(* Builds without coexistence.  A transmission is then handed to RAIL by   *)
(* the main loop only, never between the check of otPlatRadioReceiveAt and *)
(* the flag it sets.                                                       *)

OneRequestInv ==
    /\ OneScheduleRequest
    /\ pc = "receiveAtLoad" => "SCHEDULED_TX_PENDING" \notin miscRadioState
    /\ ~pta

LEMMA InterruptOneRequest ==
    ASSUME TxInv, OneRequestInv, Interrupt PROVE OneRequestInv'
<1>1. PICK fp \in BOOLEAN, keep \in BOOLEAN :
        Becomes(RAILCb_Generic(Now, pending, fp, keep))
  BY DEF Interrupt
<1> DEFINE s == RAILCb_Generic(Now, pending, fp, keep)
<1>2. Through(Now, s, pending)
  BY NowIsState, InterruptThrough DEF TxInv
<1>3. miscRadioState' = s.flags /\ pta' = s.pta /\ pc' = pc
  BY <1>1 DEF Becomes, Interrupt
<1>4. Now.flags = miscRadioState /\ Now.pta = pta
  BY DEF Now
<1> HIDE DEF s
<1> QED BY <1>2, <1>3, <1>4
        DEF Through, OneRequestInv, OneScheduleRequest

LEMMA TransmitStartOneRequest ==
    ASSUME ~Coex, TxInv, OneRequestInv, TransmitStart PROVE OneRequestInv'
<1> DEFINE s == Set(Now, {"ONGOING_TX_DATA"})
<1>1. PICK ok \in BOOLEAN : txCurrentPacket(s, ok)
  BY DEF TransmitStart, tryTxCurrentPacket
<1>2. pc' = "idle" /\ pc = "transmit" /\ miscRadioState \cap TxEvents = {}
  BY DEF TransmitStart, TxInv, Decided
<1>3. /\ s \in State /\ Good(s.flags) /\ s.pta = pta
      /\ s.flags = miscRadioState \cup {"ONGOING_TX_DATA"}
  BY <1>2, StartState DEF TxInv, Set, Now
<1>4. "ONGOING_TX_DATA" \in s.flags /\ "WAITING_FOR_ACK" \notin s.flags
  BY <1>2, <1>3 DEF TxInv, Good, Ongoing
<1> HIDE DEF s
<1>5. "SCHEDULED_RX_PENDING" \notin miscRadioState' /\ ~pta'
  BY <1>1, <1>3, <1>4, StartEffect DEF TxInv, OneRequestInv
<1> QED BY <1>2, <1>5 DEF OneRequestInv, OneScheduleRequest

LEMMA NextOneRequest ==
    ASSUME ~Coex, TxInv, OneRequestInv, [Next]_vars PROVE OneRequestInv'
<1> USE DEF OneRequestInv, OneScheduleRequest
<1>1. CASE Rail \/ UNCHANGED vars
  BY <1>1, RailLeavesDriver DEF vars, driver
<1>2. CASE Interrupt
  BY <1>2, InterruptOneRequest
<1>3. CASE onPtaGrantTx
  BY <1>3 DEF onPtaGrantTx
<1>4. CASE TransmitBegin
  <2>1. /\ {"SCHEDULED_RX_PENDING", "SCHEDULED_TX_PENDING"}
              \cap miscRadioState' \subseteq miscRadioState
        /\ pc' = "transmit" /\ pta' = pta
    BY <1>4 DEF TransmitBegin
  <2> QED BY <2>1
<1>5. CASE TransmitStart
  BY <1>5, TransmitStartOneRequest
<1>6. CASE processTxComplete
  BY <1>6 DEF processTxComplete
<1>7. CASE Receive \/ SleepBegin
  BY <1>7 DEF Receive, SleepBegin
<1>8. CASE ReceiveAtLooks \/ ReceiveAtBegin
  BY <1>8 DEF ReceiveAtLooks, ReceiveAtBegin, NothingScheduled
<1>9. CASE ReceiveAtStart \/ SleepIdle
  BY <1>9 DEF ReceiveAtStart, SleepIdle
<1> QED BY <1>1, <1>2, <1>3, <1>4, <1>5, <1>6, <1>7, <1>8, <1>9
        DEF Next, Main

\* In a build without coexistence a receive window and a transmission are
\* never asked for together, whatever the stack asks for and when.  With
\* coexistence a grant between the check and the flag breaks it.
THEOREM OneRequestWithoutCoex == ~Coex /\ Spec => []OneScheduleRequest
<1>1. Init => OneRequestInv
  BY DEF Init, OneRequestInv, OneScheduleRequest
<1>2. ~Coex /\ TxInv /\ OneRequestInv /\ [Next]_vars => OneRequestInv'
  BY NextOneRequest
<1>3. OneRequestInv => OneScheduleRequest
  BY DEF OneRequestInv
<1>4. CASE ~Coex
  <2>1. TxInv /\ OneRequestInv /\ [Next]_vars => OneRequestInv'
    BY <1>2, <1>4
  <2> QED BY <1>1, <1>3, <2>1, TxInvariance, PTL DEF Spec
<1>5. CASE Coex
  BY <1>5, PTL
<1> QED BY <1>4, <1>5
=============================================================================
