-------------------------------- MODULE Signal --------------------------------
(***************************************************************************)
(* Signal<T> (signal.hpp): the last accepted value of a signal, with its   *)
(* time and what is known of its availability.  Decoders offer             *)
(* observations and invalidations in any order of their timestamps; the    *)
(* owner refreshes, and readers look, by a monotonic clock.                *)
(*                                                                         *)
(* Each operation is one step: a signal is confined to its owner.          *)
(***************************************************************************)
EXTENDS Integers

CONSTANTS
  Values,    \* the values observed
  Timeouts,  \* the freshness timeouts configured
  MaxTime    \* bound on the timestamps and on the clock

ASSUME TimeAssumption == Timeouts \subseteq Nat /\ MaxTime \in Nat

VARIABLES
  value,                 \* value
  has_value,             \* has_value
  last_update_us,        \* last_update_us
  freshness_timeout_us,  \* freshness_timeout_us, or Unconfigured
  status,                \* status
  now,                   \* the clock of refresh() and status_at()
  offered,               \* history: the observations of every update call
  invalidated,           \* history: the newest invalidation of a value, or -1
  judged_by              \* history: the timeout refresh() last judged by

accepted == <<value, has_value, last_update_us>>
history == <<offered, invalidated, judged_by>>
vars == <<accepted, freshness_timeout_us, status, now, history>>

Times == 0 .. MaxTime
Unconfigured == -1
Observations == [time : Times, value : Values]

TypeOK ==
  /\ value \in Values
  /\ has_value \in BOOLEAN
  /\ last_update_us \in Times
  /\ freshness_timeout_us \in Timeouts \cup {Unconfigured}
  /\ status \in {"Unknown", "Valid", "Stale"}
  /\ now \in Times
  /\ offered \subseteq Observations
  /\ invalidated \in Times \cup {-1}
  /\ judged_by \in Timeouts \cup {Unconfigured}

\* The value before the first update is value-initialised: any value.
Init ==
  /\ value \in Values
  /\ has_value = FALSE
  /\ last_update_us = 0
  /\ freshness_timeout_us \in Timeouts \cup {Unconfigured}
  /\ status = "Unknown"
  /\ now = 0
  /\ offered = {}
  /\ invalidated = -1
  /\ judged_by = Unconfigured

-----------------------------------------------------------------------------
\* Bug: the order of two observations is not looked at.
SupersedesAlways(t) == TRUE

\* Bug: an observation with the time of the accepted one replaces it.
SupersedesEqual(t) == ~has_value \/ t >= last_update_us

\* An older observation is rejected, one with the same time is a duplicate or
\* a conflict and changes nothing.
Supersedes(t) == ~has_value \/ t > last_update_us

\* update_status(), and update()
Update(v, t) ==
  /\ offered' = offered \cup {[time |-> t, value |-> v]}
  /\ IF Supersedes(t)
     THEN /\ value' = v
          /\ last_update_us' = t
          /\ has_value' = TRUE
          /\ status' = "Valid"
     ELSE UNCHANGED <<accepted, status>>
  /\ UNCHANGED <<freshness_timeout_us, now, invalidated, judged_by>>

\* invalidate(): the value and its time are kept.  One that is not newer than
\* the accepted value is refused and changes nothing.
Invalidate(t) ==
  /\ has_value => t > last_update_us
  /\ status' = "Unknown"
  /\ invalidated' = IF has_value /\ t > invalidated THEN t ELSE invalidated
  /\ UNCHANGED <<accepted, freshness_timeout_us, now, offered, judged_by>>

\* Bug: the timeout is kept as the last age that is fresh before it.
SetFreshnessTimeoutExclusive(timeout) ==
  /\ freshness_timeout_us' = timeout - 1
  /\ UNCHANGED <<accepted, status, now, history>>

SetFreshnessTimeout(timeout) ==
  /\ freshness_timeout_us' = timeout
  /\ UNCHANGED <<accepted, status, now, history>>

Age == IF now >= last_update_us THEN now - last_update_us ELSE 0

\* Bug: a value is stale for refresh() at the age status_at() accepts.
ExpiredEarly == IF freshness_timeout_us = Unconfigured
                THEN now > last_update_us
                ELSE Age >= freshness_timeout_us

Expired == IF freshness_timeout_us = Unconfigured
           THEN now > last_update_us
           ELSE Age > freshness_timeout_us

\* refresh()
Refresh ==
  /\ IF status = "Valid" /\ now >= last_update_us
     THEN /\ status' = IF Expired THEN "Stale" ELSE status
          /\ judged_by' = freshness_timeout_us
     ELSE UNCHANGED <<status, judged_by>>
  /\ UNCHANGED <<accepted, freshness_timeout_us, now, offered, invalidated>>

Tick ==
  /\ now < MaxTime
  /\ now' = now + 1
  /\ UNCHANGED <<accepted, freshness_timeout_us, status, history>>

Next == \/ \E v \in Values, t \in Times : Update(v, t)
        \/ \E t \in Times : Invalidate(t)
        \/ \E timeout \in Timeouts \cup {Unconfigured} :
             SetFreshnessTimeout(timeout)
        \/ Refresh
        \/ Tick

Spec == Init /\ [][Next]_vars

\* Bug: a clock behind the accepted value makes a huge unsigned age.
StatusAtUnguarded ==
  IF ~has_value THEN "NoData"
  ELSE IF status = "Unknown" THEN "Unavailable"
  ELSE IF freshness_timeout_us = Unconfigured THEN "FreshnessUnverified"
  ELSE IF now >= last_update_us /\ Age <= freshness_timeout_us THEN "Fresh"
  ELSE "Stale"

\* status_at(), the availability of every snapshot()
StatusAt ==
  IF ~has_value THEN "NoData"
  ELSE IF status = "Unknown" THEN "Unavailable"
  ELSE IF freshness_timeout_us = Unconfigured THEN "FreshnessUnverified"
  ELSE IF Age <= freshness_timeout_us THEN "Fresh"
  ELSE "Stale"

-----------------------------------------------------------------------------
(***************************************************************************)
(* Properties.                                                             *)
(***************************************************************************)
Actionable == StatusAt \in {"Fresh", "FreshnessUnverified"}

\* The order of arrival does not matter: the accepted value is one that was
\* observed at the newest time ever offered, whatever was invalidated,
\* refreshed or rejected in between.
NewestWins ==
  IF has_value
  THEN /\ [time |-> last_update_us, value |-> value] \in offered
       /\ \A o \in offered : o.time <= last_update_us
  ELSE offered = {}

\* A signal that readers saw unavailable or stale comes back through a
\* strictly newer observation, or a new timeout, and in no other way: no
\* duplicate, conflict, late frame, refresh or passing of time revives it.
NoRevival ==
  [][has_value /\ ~Actionable /\ Actionable'
       => \/ last_update_us' > last_update_us
          \/ freshness_timeout_us' # freshness_timeout_us]_vars

\* refresh() and status_at() draw the line at the same age: a reader never
\* sees a value as Fresh that refresh() has marked stale by the same timeout.
StaleInBothViews ==
  status = "Stale" /\ judged_by = freshness_timeout_us => StatusAt # "Fresh"

\* "A late frame is rejected and cannot revive an old value"
\* (signal.hpp:52-53), and after an invalidation "a later strictly newer update
\* is required" (60-62): a signal that is actionable has a value no older than
\* any invalidation of an earlier value.
NoLateRevival == Actionable => last_update_us >= invalidated
=============================================================================
