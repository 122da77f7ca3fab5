-------------------------------- MODULE Coex --------------------------------
(***************************************************************************)
(* The coexistence metrics of radio_coex.c.  The arbiter reports of each   *)
(* request that it was made and how it ended.  Transmit and receive        *)
(* requests have counters of their own and one time stamp between them.    *)
(***************************************************************************)
EXTENDS Naturals

CONSTANTS
    MaxCount,    \* the largest value of a counter (2^32 - 1)
    LateAfter    \* a grant later than this is delayed (50 us)

ASSUME CoexAssumption == MaxCount \in Nat /\ LateAfter \in Nat

VARIABLES
    metrics, mStopped,
    stampAge,    \* time since sl_coex_counter.timestamp was taken
    request,     \* per direction: the age of its request, or Nothing
    lateGrants,        \* per direction: grants that came late
    restamped    \* the time stamp of a waiting request was once replaced

coexVars == <<metrics, mStopped, stampAge, request, lateGrants, restamped>>

Directions == {"tx", "rx"}
Counters   == {"requests", "immediate", "wait", "activated", "timeout",
               "deactivated", "delayed"}
Nothing    == LateAfter + 2
Ages       == 0..(LateAfter + 1)
Older(age) == IF age <= LateAfter THEN age + 1 ELSE age

CoexInit ==
    /\ metrics = [d \in Directions |-> [c \in Counters |-> 0]]
    /\ mStopped = FALSE
    /\ stampAge = LateAfter + 1
    /\ request = [d \in Directions |-> Nothing]
    /\ lateGrants = [d \in Directions |-> 0]
    /\ restamped = FALSE

TimeGoesOn ==
    /\ stampAge' = Older(stampAge)
    /\ request' = [d \in Directions |-> Older(request[d])]
    /\ UNCHANGED <<metrics, mStopped, lateGrants, restamped>>

\* SL_INCREMENT_IF_NO_OVERFLOW: a counter at its end stops everything.
\* GRANT_WAIT is worked out anew by every event.  Mutation: only by a denial.
AllWaits(m)  == m.timeout + m.activated
Denials(m)   == m.timeout
GrantWait(m) == AllWaits(m)

Count(d, counters) ==
    IF mStopped \/ \E c \in counters : metrics[d][c] = MaxCount
    THEN mStopped' = TRUE /\ UNCHANGED metrics
    ELSE LET m == [c \in Counters |-> metrics[d][c] + IF c \in counters THEN 1 ELSE 0]
         IN  /\ metrics' = [metrics EXCEPT ![d] = [m EXCEPT !.wait = GrantWait(m)]]
             /\ UNCHANGED mStopped

\* REQUESTED.
Asks(d) ==
    /\ request[d] = Nothing
    /\ request' = [request EXCEPT ![d] = 0]
    /\ stampAge' = IF mStopped THEN stampAge ELSE 0
    /\ restamped' = (restamped \/ \E e \in Directions : request[e] \in 1..(LateAfter + 1))
    /\ Count(d, {"requests"})
    /\ UNCHANGED lateGrants

Ends(d) ==
    /\ request[d] # Nothing
    /\ request' = [request EXCEPT ![d] = Nothing]
    /\ UNCHANGED <<stampAge, restamped>>

\* GRANTED_IMMEDIATE and DENIED.
GrantedAtOnce(d) == Ends(d) /\ Count(d, {"immediate"}) /\ UNCHANGED lateGrants
Denied(d)        == Ends(d) /\ Count(d, {"timeout"}) /\ UNCHANGED lateGrants

\* GRANTED.
IsDelayed == stampAge > LateAfter
Granted(d) ==
    /\ Ends(d)
    /\ Count(d, {"activated"} \cup IF IsDelayed THEN {"delayed"} ELSE {})
    /\ lateGrants' = IF ~mStopped /\ request[d] > LateAfter THEN [lateGrants EXCEPT ![d] = @ + 1] ELSE lateGrants

\* GRANT_ABORTED, of a grant that is used.
GrantAborted(d) ==
    /\ Count(d, {"deactivated"})
    /\ UNCHANGED <<stampAge, request, lateGrants, restamped>>

CoexNext ==
    \/ TimeGoesOn
    \/ \E d \in Directions :
          Asks(d) \/ GrantedAtOnce(d) \/ Denied(d) \/ Granted(d) \/ GrantAborted(d)

-----------------------------------------------------------------------------
CoexTypeOK ==
    /\ metrics \in [Directions -> [Counters -> Nat]]
    /\ \A d \in Directions : \A c \in Counters : metrics[d][c] <= MaxCount
    /\ mStopped \in BOOLEAN
    /\ stampAge \in Ages
    /\ request \in [Directions -> Ages \cup {Nothing}]
    /\ restamped \in BOOLEAN

\* "mNumTxRequest = mNumTxGrantImmediate + mNumTxGrantWait", but for the
\* request under way, and the delayed grants are those that came late, until
\* a counter is at its end: while only one direction waits at a time.
MetricsAddUp ==
    ~mStopped =>
        \A d \in Directions :
            /\ metrics[d].requests = metrics[d].immediate + metrics[d].wait
                                       + IF request[d] = Nothing THEN 0 ELSE 1
            /\ ~restamped => metrics[d].delayed = lateGrants[d]
=============================================================================
