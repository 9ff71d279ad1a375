----------------------------- MODULE SignalProofs -----------------------------
(***************************************************************************)
(* Theorems about Signal, for every set of values and of timeouts and for  *)
(* any bound on the times.                                                 *)
(***************************************************************************)
EXTENDS Signal, TLAPS

\* A value that refresh() has marked stale is older than the timeout it was
\* judged by, and stays so until it is replaced.
StaleInv ==
  status = "Stale" => /\ now >= last_update_us
                      /\ judged_by # Unconfigured =>
                           now - last_update_us > judged_by

IInv == TypeOK /\ NewestWins /\ StaleInv

\* The invariant holds before the first call.
LEMMA InitEstablishes == Init => IInv
<1> SUFFICES ASSUME Init PROVE IInv
  OBVIOUS
<1>1. 0 \in Times
  BY TimeAssumption DEF Times
<1>2. TypeOK
  BY <1>1 DEF Init, TypeOK
<1>3. NewestWins
  BY DEF Init, NewestWins
<1>4. StaleInv
  BY DEF Init, StaleInv
<1> QED
  BY <1>2, <1>3, <1>4 DEF IInv

\* Every step preserves the invariant: a value is replaced only by a newer one.
LEMMA StepPreserves == IInv /\ [Next]_vars => IInv'
<1> SUFFICES ASSUME IInv, [Next]_vars PROVE IInv'
  OBVIOUS
<1> USE TimeAssumption DEF IInv, TypeOK, Times, Unconfigured
<1>1. CASE UNCHANGED vars
  BY <1>1 DEF vars, accepted, history, NewestWins, StaleInv, Observations
<1>2. ASSUME NEW v \in Values, NEW t \in Times, Update(v, t) PROVE IInv'
  <2>1. TypeOK'
    <3>1. offered' \subseteq Observations
      BY <1>2 DEF Update, Observations
    <3>2. CASE Supersedes(t)
      BY <1>2, <3>1, <3>2 DEF Update
    <3>3. CASE ~Supersedes(t)
      BY <1>2, <3>1, <3>3 DEF Update, accepted
    <3> QED BY <3>2, <3>3
  <2>2. NewestWins'
    <3>1. CASE Supersedes(t)
      BY <1>2, <3>1 DEF Update, Supersedes, NewestWins, Observations
    <3>2. CASE ~Supersedes(t)
      BY <1>2, <3>2 DEF Update, Supersedes, NewestWins, Observations, accepted
    <3> QED BY <3>1, <3>2
  <2>3. StaleInv'
    BY <1>2 DEF Update, StaleInv, accepted
  <2> QED BY <2>1, <2>2, <2>3
<1>3. ASSUME NEW t \in Times, Invalidate(t) PROVE IInv'
  BY <1>3 DEF Invalidate, NewestWins, StaleInv, accepted, Observations
<1>4. ASSUME NEW timeout \in Timeouts \cup {Unconfigured},
             SetFreshnessTimeout(timeout)
      PROVE IInv'
  BY <1>4 DEF SetFreshnessTimeout, NewestWins, StaleInv, accepted, history,
              Observations
<1>5. CASE Refresh
  BY <1>5 DEF Refresh, Expired, Age, NewestWins, StaleInv, accepted,
              Observations
<1>6. CASE Tick
  BY <1>6 DEF Tick, NewestWins, StaleInv, accepted, history, Observations
<1> QED
  BY <1>1, <1>2, <1>3, <1>4, <1>5, <1>6 DEF Next

\* The inductive invariant holds always.
THEOREM Invariance == Spec => []IInv
BY InitEstablishes, StepPreserves, PTL DEF Spec

\* Every variable keeps its type.
THEOREM TypeCorrect == Spec => []TypeOK
BY Invariance, PTL DEF IInv

\* Whatever the order of arrival, the accepted value was observed at the newest
\* time ever offered.
THEOREM NewestAlwaysWins == Spec => []NewestWins
BY Invariance, PTL DEF IInv

\* refresh() and status_at() agree on when a value is too old.
THEOREM ViewsAgree == Spec => []StaleInBothViews
<1>1. IInv => StaleInBothViews
  BY TimeAssumption
     DEF IInv, TypeOK, Times, Unconfigured, StaleInv, StaleInBothViews,
         StatusAt, Age
<1> QED
  BY <1>1, Invariance, PTL

\* A step makes a signal that has a value actionable only by accepting a newer
\* observation or by changing the timeout.
LEMMA StepDoesNotRevive ==
  ASSUME IInv, [Next]_vars, has_value, ~Actionable, Actionable'
  PROVE \/ last_update_us' > last_update_us
        \/ freshness_timeout_us' # freshness_timeout_us
<1> USE TimeAssumption
    DEF IInv, TypeOK, Times, Unconfigured, Actionable, StatusAt, Age
<1>1. CASE UNCHANGED vars
  BY <1>1 DEF vars, accepted, history
<1>2. ASSUME NEW v \in Values, NEW t \in Times, Update(v, t)
      PROVE last_update_us' > last_update_us
  BY <1>2 DEF Update, Supersedes, accepted
<1>3. ASSUME NEW t \in Times, Invalidate(t) PROVE FALSE
  BY <1>3 DEF Invalidate, accepted
<1>4. ASSUME NEW timeout \in Timeouts \cup {Unconfigured},
             SetFreshnessTimeout(timeout)
      PROVE freshness_timeout_us' # freshness_timeout_us
  BY <1>4 DEF SetFreshnessTimeout, accepted, history
<1>5. CASE Refresh
  BY <1>5 DEF Refresh, accepted
<1>6. CASE Tick
  BY <1>6 DEF Tick, accepted, history
<1> QED
  BY <1>1, <1>2, <1>3, <1>4, <1>5, <1>6 DEF Next

\* No duplicate, conflict, late frame, refresh or passing of time revives a
\* signal that was seen unavailable or stale.
THEOREM NothingRevives == Spec => NoRevival
<1>1. IInv /\ [Next]_vars =>
        [has_value /\ ~Actionable /\ Actionable'
           => \/ last_update_us' > last_update_us
              \/ freshness_timeout_us' # freshness_timeout_us]_vars
  BY StepDoesNotRevive
<1> QED
  BY <1>1, Invariance, PTL DEF Spec, NoRevival
=============================================================================
