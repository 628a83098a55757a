---------------------------- MODULE OutboundProofs ----------------------------
(***************************************************************************)
(* What OutboundActions guarantees for any requests, handlers, attempts and *)
(* limits; no set of requests has to be finite.                             *)
(*                                                                          *)
(* KeyInv says what a handler at each of its steps relies on; CapInv counts  *)
(* the texts of this day together with those that passed the cap's check    *)
(* and are still to be counted, of which there are never more than handlers.*)
(***************************************************************************)
EXTENDS OutboundActions, FiniteSetTheorems, TLAPS

\* The steps up to the send.
Unsent == {"load", "skip", "rate", "cap", "quiet", "defer", "send"}

\* The row, and the texts its attempts allow: two for each that has reached its send.
RowSound(k) ==
    /\ job[k].state = "absent" => job[k].attempts = 0
    /\ job[k].state = "ready" => job[k].attempts < MaxAttempts
    /\ job[k].state = "running" <=> at[k] # "idle"
    /\ texts[k] <= 2 * job[k].attempts
    /\ at[k] \in Unsent => texts[k] + 2 <= 2 * job[k].attempts

\* Who is on the way to a text was subscribed since the claim.
SubscribedOnWay(k) ==
    /\ at[k] = "load" /\ ~optedOut => subscribed[k]
    /\ at[k] \in {"rate", "cap", "quiet", "defer", "send"} => subscribed[k]

\* The job's message is in the conversation.
Recorded(k) == \E m \in messages : m.job = k

\* The steps the handler reaches are those of its kind, after what they build on.
OnCourse(k) ==
    /\ at[k] \in {"rate", "cap", "quiet", "defer"} => KindOf(k) = "text"
    /\ at[k] = "quoteSent" => KindOf(k) # "text"
    /\ at[k] = "defer" => k[2] < MaxDeferrals
    /\ at[k] \in {"leadStage", "event"} => Recorded(k)

\* What the handler's result says did happen.
ResultHolds(k) ==
    /\ local[k].result # "none"
    /\ local[k].result = "sent" => Recorded(k) /\ <<KindOf(k), k>> \in events
    /\ local[k].result = "optOut" /\ KindOf(k) = "text" => <<"skip", k>> \in events
    /\ local[k].result = "deferred" =>
          k[2] < MaxDeferrals /\ job[Deferral(k)].state # "absent"

\* A handler that reports, or has, says what happened.
Truthful(k) == at[k] = "report" \/ job[k].state = "done" => ResultHolds(k)

\* What holds of each job.
KeyInv(k) == RowSound(k) /\ SubscribedOnWay(k) /\ OnCourse(k) /\ Truthful(k)

\* The texts that passed the cap's check and are still to be counted.
PastSteps == {"quiet", "defer", "send", "message", "event"}
Past == {k \in Jobs : KindOf(k) = "text" /\ at[k] \in PastSteps}

\* The handlers at work and the texts of the day are bounded.
CapInv ==
    /\ IsFiniteSet(Running) /\ Cardinality(Running) <= Handlers
    /\ IsFiniteSet(today)
    /\ Cardinality(today \cup Past) <= DailyCap + Handlers - 1

\* The inductive invariant.
OutboundInv ==
    /\ TypeOK
    /\ \A k \in Jobs : KeyInv(k)
    /\ CountedIsRecorded
    /\ CapInv
-----------------------------------------------------------------------------
(* One job moves at a time.                                                *)

\* A deferral is a job while deferrals are left.
LEMMA DeferralIsJob ==
  ASSUME NEW k \in Jobs, k[2] < MaxDeferrals
  PROVE  Deferral(k) \in Jobs /\ Deferral(k) # k
  BY LimitsAssumption DEF Jobs, Deferral

\* Messages and events stay, and the customer does nothing.
Grows ==
    /\ messages \subseteq messages'
    /\ events \subseteq events'
    /\ UNCHANGED <<optedOut, subscribed>>

\* Neither the row nor the handler of a job moves, and no text leaves for it.
Stays(i) ==
    /\ job'[i] = job[i] /\ at'[i] = at[i] /\ local'[i] = local[i]
    /\ texts'[i] = texts[i]

\* What holds of a job goes on to hold while its handler stands still.
LEMMA StandingStill ==
  ASSUME NEW i \in Jobs, KeyInv(i), Grows, Stays(i),
         i[2] < MaxDeferrals /\ job[Deferral(i)].state # "absent"
            => job'[Deferral(i)].state # "absent"
  PROVE  KeyInv(i)'
  <1>1. RowSound(i)'
    BY DEF KeyInv, RowSound, Stays
  <1>2. SubscribedOnWay(i)' /\ OnCourse(i)'
    BY DEF KeyInv, SubscribedOnWay, OnCourse, Recorded, Stays, Grows
  <1>3. ResultHolds(i) => ResultHolds(i)'
    BY DEF ResultHolds, Recorded, Stays, Grows
  <1>4. Truthful(i)'
    BY <1>3 DEF KeyInv, Truthful, Stays
  <1> QED BY <1>1, <1>2, <1>4 DEF KeyInv

\* The part of TypeOK that a handler moves, and the part about the tables.
HandlerTypes ==
    /\ job' \in [Jobs -> [state : JobStates, attempts : 0 .. MaxAttempts]]
    /\ at' \in [Jobs -> Steps]
    /\ local' \in [Jobs -> [id : MessageIds, result : Results]]
    /\ faults' \in 0 .. MaxFaults

TableTypes ==
    /\ {optedOut, recent} \subseteq BOOLEAN
    /\ texts \in [Jobs -> 0 .. 2 * MaxAttempts]
    /\ messages \subseteq [job : Jobs, id : MessageIds]
    /\ events \subseteq (Kinds \cup {"skip"}) \X Jobs
    /\ {today, quoteSent} \subseteq SUBSET Jobs
    /\ subscribed \in [Jobs -> BOOLEAN]
    /\ days \in 0 .. MaxDays

\* No job moves but this one, which remains a job.
Keeps(k) ==
    /\ HandlerTypes
    /\ \A i \in Jobs : i # k => job'[i] = job[i] /\ at'[i] = at[i] /\ local'[i] = local[i]
    /\ job'[k].state # "absent"

\* An execution that failed, or whose call is permanent, leaves a sound row.
LEMMA EndingKeeps ==
  ASSUME TypeOK, NEW k \in Jobs, RowSound(k), at[k] # "idle",
         NEW state \in {"ready", "dead"}, Ends(k, state),
         state = "ready" => job[k].attempts < MaxAttempts,
         faults' \in 0 .. MaxFaults, texts'[k] <= 2 * job[k].attempts
  PROVE  Keeps(k) /\ KeyInv(k)' /\ at'[k] = "idle"
  <1>1. job' \in [Jobs -> [state : JobStates, attempts : 0 .. MaxAttempts]]
    BY DEF TypeOK, Ends, JobStates
  <1>2. at' \in [Jobs -> Steps]
    BY DEF TypeOK, Ends, Steps
  <1>3. local' \in [Jobs -> [id : MessageIds, result : Results]]
    BY DEF TypeOK, Ends, NoLocal, MessageIds, Results
  <1>4. \A i \in Jobs : i # k => job'[i] = job[i] /\ at'[i] = at[i] /\ local'[i] = local[i]
    BY DEF TypeOK, Ends
  <1>5. job'[k].state = state /\ job'[k].attempts = job[k].attempts /\ at'[k] = "idle"
    BY DEF TypeOK, Ends
  <1>6. RowSound(k)'
    BY <1>5 DEF RowSound, Unsent
  <1>7. SubscribedOnWay(k)' /\ OnCourse(k)' /\ Truthful(k)'
    BY <1>5 DEF SubscribedOnWay, OnCourse, Truthful
  <1> QED BY <1>1, <1>2, <1>3, <1>4, <1>5, <1>6, <1>7 DEF Keeps, HandlerTypes, KeyInv

\* So does raising.
LEMMA RaisingKeeps ==
  ASSUME TypeOK, NEW k \in Jobs, RowSound(k), at[k] # "idle", Raises(k),
         faults' \in 0 .. MaxFaults, texts'[k] <= 2 * job[k].attempts
  PROVE  Keeps(k) /\ KeyInv(k)' /\ at'[k] = "idle"
  <1> DEFINE state == IF job[k].attempts >= MaxAttempts THEN "dead" ELSE "ready"
  <1>1. state \in {"ready", "dead"} /\ Ends(k, state)
    BY DEF Raises
  <1>2. state = "ready" => job[k].attempts < MaxAttempts
    BY LimitsAssumption DEF TypeOK
  <1> HIDE DEF state
  <1> QED BY <1>1, <1>2, EndingKeeps

\* A fault is counted within its bound.
LEMMA FaultCounted ==
  ASSUME TypeOK, Fault \/ UNCHANGED faults
  PROVE  faults' \in 0 .. MaxFaults
  BY LimitsAssumption DEF TypeOK, Fault

\* A call that was made moves the handler to the next step, or fails it.
LEMMA GoingOnKeeps ==
  ASSUME TypeOK, NEW k \in Jobs, RowSound(k), at[k] # "idle",
         NEW step \in Steps, NEW l \in [id : MessageIds, result : Results],
         GoesOn(k, step, l), texts'[k] <= 2 * job[k].attempts
  PROVE  /\ Keeps(k)
         /\ \/ at'[k] = step /\ local'[k] = l /\ job' = job
            \/ at'[k] = "idle" /\ KeyInv(k)'
  <1>1. CASE /\ at' = [at EXCEPT ![k] = step] /\ local' = [local EXCEPT ![k] = l]
             /\ UNCHANGED <<job, faults>>
    <2>1. HandlerTypes
      BY <1>1 DEF TypeOK, HandlerTypes
    <2>2. job[k].state # "absent"
      BY DEF RowSound
    <2> QED BY <1>1, <2>1, <2>2 DEF TypeOK, Keeps
  <1>2. CASE Fault /\ Raises(k)
    BY <1>2, FaultCounted, RaisingKeeps
  <1> QED BY <1>1, <1>2 DEF GoesOn

\* Every text past the cap's check is a running job's.
LEMMA PastRuns ==
  ASSUME \A k \in Jobs : KeyInv(k)
  PROVE  Past \subseteq Running
  BY DEF Past, Running, KeyInv, RowSound, PastSteps

\* The limits hold on while no text more is counted or under way.
LEMMA CapShrinks ==
  ASSUME CapInv, \A k \in Jobs : KeyInv(k), Running' \subseteq Running,
         (today \cup Past)' \subseteq today \cup Past
  PROVE  CapInv'
  <1>1. IsFiniteSet(Past)
    BY PastRuns, FS_Subset DEF CapInv
  <1>2. IsFiniteSet(today \cup Past)
    BY <1>1, FS_Union DEF CapInv
  <1>3. /\ IsFiniteSet(Running') /\ Cardinality(Running') <= Cardinality(Running)
        /\ Cardinality(Running') \in Nat /\ Cardinality(Running) \in Nat
    BY FS_Subset, FS_CardinalityType DEF CapInv
  <1>4. today' \subseteq today \cup Past
    OBVIOUS
  <1>5. IsFiniteSet(today')
    BY <1>2, <1>4, FS_Subset
  <1>6. /\ Cardinality((today \cup Past)') <= Cardinality(today \cup Past)
        /\ Cardinality((today \cup Past)') \in Nat /\ Cardinality(today \cup Past) \in Nat
    BY <1>2, FS_Subset, FS_CardinalityType
  <1> QED
    BY <1>3, <1>5, <1>6, LimitsAssumption DEF CapInv

\* So they do when one handler moves and does not pass the cap's check.
LEMMA CapKept ==
  ASSUME OutboundInv, NEW k \in Jobs, at[k] # "idle", Keeps(k), today' = today,
         KindOf(k) = "text" /\ at'[k] \in PastSteps => at[k] \in PastSteps
  PROVE  CapInv'
  <1>1. job[k].state = "running"
    BY DEF OutboundInv, KeyInv, RowSound
  <1>2. Running' \subseteq Running
    BY <1>1 DEF Running, Keeps
  <1>3. Past' \subseteq Past
    BY DEF Past, Keeps
  <1> QED BY <1>2, <1>3, CapShrinks DEF OutboundInv

\* What each of the lemmas below shows of its call.
StepKeeps(k) ==
    /\ Keeps(k) /\ Grows /\ TableTypes'
    /\ \A i \in Jobs : i # k => texts'[i] = texts[i]
    /\ KeyInv(k)' /\ CountedIsRecorded' /\ CapInv'

-----------------------------------------------------------------------------
(* One lemma for each call the handler makes.                              *)

\* Only a running job's handler makes calls.
LEMMA AtWork ==
  ASSUME OutboundInv, NEW k \in Jobs, at[k] # "idle"
  PROVE  /\ TypeOK /\ KeyInv(k) /\ RowSound(k) /\ TableTypes
         /\ job[k].state = "running"
         /\ local[k] \in [id : MessageIds, result : Results]
         /\ texts[k] <= 2 * job[k].attempts
         /\ KindOf(k) \in Kinds
  BY RequestsAssumption
     DEF OutboundInv, TypeOK, KeyInv, RowSound, TableTypes, KindOf, Jobs

\* A call that changes no table keeps the invariant wherever it goes on to.
LEMMA ReadKeeps ==
  ASSUME OutboundInv, NEW k \in Jobs, at[k] # "idle", UNCHANGED <<tables, world>>,
         Keeps(k), KeyInv(k)',
         KindOf(k) = "text" /\ at'[k] \in PastSteps => at[k] \in PastSteps
  PROVE  StepKeeps(k)
  <1>1. Grows /\ today' = today /\ \A i \in Jobs : texts'[i] = texts[i]
    BY DEF tables, world, Grows
  <1>2. TableTypes'
    BY AtWork DEF tables, world, TableTypes
  <1>3. CountedIsRecorded'
    BY DEF tables, OutboundInv, CountedIsRecorded
  <1> QED BY <1>1, <1>2, <1>3, CapKept DEF StepKeeps

\* A handler that raises over what it read keeps the invariant.
LEMMA ReadRaisesKeeps ==
  ASSUME OutboundInv, NEW k \in Jobs, at[k] # "idle", UNCHANGED <<tables, world>>,
         Raises(k), Fault \/ UNCHANGED faults
  PROVE  StepKeeps(k)
  <1>1. texts' = texts
    BY DEF tables
  <1>2. Keeps(k) /\ KeyInv(k)' /\ at'[k] = "idle"
    BY <1>1, AtWork, FaultCounted, RaisingKeeps
  <1> QED BY <1>2, ReadKeeps DEF PastSteps

\* A handler that made its call and goes on to a step on its course keeps its job's.
LEMMA GoingOnKeepsKey ==
  ASSUME OutboundInv, NEW k \in Jobs, at[k] # "idle", texts' = texts,
         NEW step \in Steps \ {"idle"}, NEW l \in [id : MessageIds, result : Results],
         GoesOn(k, step, l),
         step \in Unsent => at[k] \in Unsent,
         at'[k] = step /\ local'[k] = l /\ job' = job =>
            SubscribedOnWay(k)' /\ OnCourse(k)' /\ Truthful(k)'
  PROVE  Keeps(k) /\ KeyInv(k)' /\ at'[k] \in {step, "idle"}
  <1>1. /\ Keeps(k)
        /\ \/ at'[k] = step /\ local'[k] = l /\ job' = job
           \/ at'[k] = "idle" /\ KeyInv(k)'
    BY AtWork, GoingOnKeeps
  <1>2. ASSUME at'[k] = step, job' = job
        PROVE  RowSound(k)'
    BY <1>2, AtWork DEF RowSound
  <1> QED BY <1>1, <1>2 DEF KeyInv

\* And one that changed no table, the rest.
LEMMA ReadGoesOnKeeps ==
  ASSUME OutboundInv, NEW k \in Jobs, at[k] # "idle", UNCHANGED <<tables, world>>,
         NEW step \in Steps \ {"idle"}, NEW l \in [id : MessageIds, result : Results],
         GoesOn(k, step, l),
         step \in Unsent => at[k] \in Unsent,
         at'[k] = step /\ local'[k] = l /\ job' = job =>
            SubscribedOnWay(k)' /\ OnCourse(k)' /\ Truthful(k)',
         KindOf(k) = "text" /\ step \in PastSteps => at[k] \in PastSteps
  PROVE  StepKeeps(k)
  <1>1. texts' = texts
    BY DEF tables
  <1>2. Keeps(k) /\ KeyInv(k)' /\ at'[k] \in {step, "idle"}
    BY <1>1, GoingOnKeepsKey
  <1>3. KindOf(k) = "text" /\ at'[k] \in PastSteps => at[k] \in PastSteps
    BY <1>2 DEF PastSteps
  <1> QED BY <1>2, <1>3, ReadKeeps

\* The call fails, or its process dies.
LEMMA StepFailsKeeps ==
  ASSUME OutboundInv, NEW k \in Jobs, StepFails(k)
  PROVE  StepKeeps(k)
  BY ReadRaisesKeeps DEF StepFails

\* The contact is read: a handler that goes on saw it subscribed.
LEMMA LoadKeeps ==
  ASSUME OutboundInv, NEW k \in Jobs, Load(k)
  PROVE  StepKeeps(k)
  <1> DEFINE step == IF optedOut THEN "skip" ELSE IF KindOf(k) = "text" THEN "rate" ELSE "send"
  <1>1. /\ at[k] = "load" /\ GoesOn(k, step, local[k]) /\ UNCHANGED <<tables, world>>
        /\ step \in Steps \ {"idle"} /\ step \in Unsent
    BY DEF Load, Steps, Unsent
  <1>2. ASSUME at'[k] = step, local'[k] = local[k], job' = job
        PROVE  SubscribedOnWay(k)' /\ OnCourse(k)' /\ Truthful(k)'
    BY <1>1, <1>2, AtWork
       DEF world, KeyInv, SubscribedOnWay, OnCourse, Truthful
  <1>3. KindOf(k) = "text" => step \notin PastSteps
    BY DEF PastSteps
  <1> HIDE DEF step
  <1> QED BY <1>1, <1>2, <1>3, AtWork, ReadGoesOnKeeps DEF Unsent

\* check_sms_rate_limit lets the text go on, or the deferral it asks for raises.
LEMMA RateLimitKeeps ==
  ASSUME OutboundInv, NEW k \in Jobs, RateLimit(k)
  PROVE  StepKeeps(k)
  <1>1. /\ at[k] = "rate" /\ GoesOn(k, "cap", local[k]) /\ UNCHANGED <<tables, world>>
    BY DEF RateLimit
  <1>2. ASSUME at'[k] = "cap", local'[k] = local[k], job' = job
        PROVE  SubscribedOnWay(k)' /\ OnCourse(k)' /\ Truthful(k)'
    BY <1>1, <1>2, AtWork
       DEF world, KeyInv, SubscribedOnWay, OnCourse, Truthful
  <1> QED BY <1>1, <1>2, AtWork, ReadGoesOnKeeps DEF Unsent, Steps, PastSteps

\* The raise of the deferral is a retry like any other.
LEMMA RateLimitedKeeps ==
  ASSUME OutboundInv, NEW k \in Jobs, RateLimited(k)
  PROVE  StepKeeps(k)
  BY ReadRaisesKeeps DEF RateLimited

\* is_quiet_hours and next_business_open decide where a text goes that is past the cap.
LEMMA QuietHoursKeeps ==
  ASSUME OutboundInv, NEW k \in Jobs, QuietHours(k)
  PROVE  StepKeeps(k)
  <1>1. at[k] = "quiet" /\ UNCHANGED <<tables, world>>
    BY DEF QuietHours
  <1>2. ASSUME NEW step \in {"send", "defer"}, GoesOn(k, step, local[k]),
               step = "defer" => k[2] < MaxDeferrals
        PROVE  StepKeeps(k)
    <2>1. ASSUME at'[k] = step, local'[k] = local[k], job' = job
          PROVE  SubscribedOnWay(k)' /\ OnCourse(k)' /\ Truthful(k)'
      BY <1>1, <1>2, <2>1, AtWork
         DEF world, KeyInv, SubscribedOnWay, OnCourse, Truthful
    <2> QED BY <1>1, <1>2, <2>1, AtWork, ReadGoesOnKeeps DEF Unsent, Steps, PastSteps
  <1>3. ASSUME Returns(k, "noOpening")
        PROVE  StepKeeps(k)
    <2> DEFINE l == [local[k] EXCEPT !.result = "noOpening"]
    <2>1. GoesOn(k, "report", l) /\ l \in [id : MessageIds, result : Results]
      BY <1>1, <1>3, AtWork DEF Returns, Results
    <2>2. l.result = "noOpening"
      BY <1>1, AtWork
    <2>3. ASSUME at'[k] = "report", local'[k] = l, job' = job
          PROVE  SubscribedOnWay(k)' /\ OnCourse(k)' /\ Truthful(k)'
      BY <2>2, <2>3 DEF SubscribedOnWay, OnCourse, Truthful, ResultHolds
    <2> HIDE DEF l
    <2> QED BY <1>1, <2>1, <2>3, ReadGoesOnKeeps DEF Unsent, Steps, PastSteps
  <1> QED BY <1>1, <1>2, <1>3 DEF QuietHours

\* An opted-out contact: what the event of a skipped text says was so.
LEMMA SkipKeeps ==
  ASSUME OutboundInv, NEW k \in Jobs, Skip(k)
  PROVE  StepKeeps(k)
  <1> DEFINE l == [local[k] EXCEPT !.result = "optOut"]
  <1>1. /\ at[k] = "skip" /\ GoesOn(k, "report", l)
        /\ l \in [id : MessageIds, result : Results] /\ l.result = "optOut"
    BY AtWork DEF Skip, Returns, Results
  <1>2. /\ UNCHANGED <<texts, messages, recent, today, quoteSent, optedOut, subscribed, days>>
        /\ events' = IF KindOf(k) = "text" THEN events \cup {<<"skip", k>>} ELSE events
        /\ Grows
    BY DEF Skip, world, Grows
  <1>3. ASSUME at'[k] = "report", local'[k] = l, job' = job
        PROVE  SubscribedOnWay(k)' /\ OnCourse(k)' /\ Truthful(k)'
    BY <1>1, <1>2, <1>3 DEF SubscribedOnWay, OnCourse, Truthful, ResultHolds
  <1>4. Keeps(k) /\ KeyInv(k)' /\ at'[k] \in {"report", "idle"}
    <2> HIDE DEF l
    <2> QED BY <1>1, <1>2, <1>3, GoingOnKeepsKey DEF Unsent, Steps
  <1>5. TableTypes'
    BY <1>1, <1>2, AtWork DEF TableTypes
  <1>6. CountedIsRecorded'
    <2>1. \A i \in Jobs : KindOf(i) # "skip"
      BY RequestsAssumption DEF KindOf, Jobs, Kinds
    <2> QED BY <1>2, <2>1 DEF OutboundInv, CountedIsRecorded
  <1>7. CapInv'
    BY <1>1, <1>2, <1>4, CapKept DEF PastSteps
  <1> QED BY <1>2, <1>4, <1>5, <1>6, <1>7 DEF StepKeeps

\* check_daily_cap: a text passes while less than the cap is counted, and with it are
\* under way no more than the other handlers.
LEMMA CheckDailyCapKeeps ==
  ASSUME OutboundInv, NEW k \in Jobs, CheckDailyCap(k)
  PROVE  StepKeeps(k)
  <1>1. at[k] = "cap" /\ UNCHANGED <<tables, world>>
    BY DEF CheckDailyCap
  <1>2. ASSUME Cardinality(today) < DailyCap, GoesOn(k, "quiet", local[k])
        PROVE  StepKeeps(k)
    <2>1. texts' = texts /\ today' = today /\ Grows
      BY <1>1 DEF tables, world, Grows
    <2>2. ASSUME at'[k] = "quiet", local'[k] = local[k], job' = job
          PROVE  SubscribedOnWay(k)' /\ OnCourse(k)' /\ Truthful(k)'
      BY <1>1, <2>2, AtWork DEF world, KeyInv, SubscribedOnWay, OnCourse, Truthful
    <2>3. Keeps(k) /\ KeyInv(k)'
      BY <1>1, <1>2, <2>1, <2>2, AtWork, GoingOnKeepsKey DEF Unsent, Steps
    <2>4. Running' \subseteq Running
      BY <1>1, <2>3, AtWork DEF Running, Keeps
    <2>5. Past' \subseteq Running
      BY <1>1, <2>3, AtWork DEF Past, Running, Keeps, OutboundInv, KeyInv, RowSound, PastSteps
    <2>6. /\ IsFiniteSet(Running) /\ IsFiniteSet(today)
          /\ Cardinality(Running) <= Handlers
          /\ Cardinality(Running) \in Nat /\ Cardinality(today) \in Nat
      BY FS_CardinalityType DEF OutboundInv, CapInv
    <2>7. /\ IsFiniteSet(Running')
          /\ Cardinality(Running') <= Cardinality(Running)
          /\ Cardinality(Running') \in Nat
      BY <2>4, <2>6, FS_Subset, FS_CardinalityType
    <2>8. /\ IsFiniteSet(Past')
          /\ Cardinality(Past') <= Cardinality(Running)
          /\ Cardinality(Past') \in Nat
      BY <2>5, <2>6, FS_Subset, FS_CardinalityType
    <2>9. /\ Cardinality(today \cup Past')
                = Cardinality(today) + Cardinality(Past') - Cardinality(today \cap Past')
          /\ Cardinality(today \cap Past') \in Nat
      <3>1. IsFiniteSet(today \cap Past')
        BY <2>6, FS_Intersection
      <3> QED BY <2>6, <2>8, <3>1, FS_Union, FS_CardinalityType
    <2>10. CapInv'
      BY <1>2, <2>1, <2>6, <2>7, <2>8, <2>9, LimitsAssumption DEF CapInv
    <2>11. TableTypes' /\ CountedIsRecorded'
      BY <1>1, AtWork DEF tables, world, TableTypes, OutboundInv, CountedIsRecorded
    <2> QED BY <2>1, <2>3, <2>10, <2>11 DEF StepKeeps
  <1>3. ASSUME Returns(k, "capped")
        PROVE  StepKeeps(k)
    <2> DEFINE l == [local[k] EXCEPT !.result = "capped"]
    <2>1. /\ GoesOn(k, "report", l) /\ l \in [id : MessageIds, result : Results]
          /\ l.result = "capped"
      BY <1>1, <1>3, AtWork DEF Returns, Results
    <2>2. ASSUME at'[k] = "report", local'[k] = l, job' = job
          PROVE  SubscribedOnWay(k)' /\ OnCourse(k)' /\ Truthful(k)'
      BY <2>1, <2>2 DEF SubscribedOnWay, OnCourse, Truthful, ResultHolds
    <2> HIDE DEF l
    <2> QED BY <1>1, <2>1, <2>2, ReadGoesOnKeeps DEF Unsent, Steps, PastSteps
  <1> QED BY <1>1, <1>2, <1>3 DEF CheckDailyCap

\* PermanentError: the job is buried.
LEMMA UnrenderableKeeps ==
  ASSUME OutboundInv, NEW k \in Jobs, Unrenderable(k)
  PROVE  StepKeeps(k)
  <1>1. /\ at[k] = "send" /\ Fault /\ Ends(k, "dead") /\ UNCHANGED <<tables, world>>
        /\ texts' = texts
    BY DEF Unrenderable, tables
  <1>2. Keeps(k) /\ KeyInv(k)' /\ at'[k] = "idle"
    BY <1>1, AtWork, FaultCounted, EndingKeeps
  <1> QED BY <1>1, <1>2, ReadKeeps DEF PastSteps

\* The provider accepts at most two texts, which this attempt allows.
LEMMA SendKeeps ==
  ASSUME OutboundInv, NEW k \in Jobs, Send(k)
  PROVE  StepKeeps(k)
  <1>1. PICK a \in Answers :
          /\ texts' = [texts EXCEPT ![k] = @ + a.texts]
          /\ \/ GoesOn(k, AfterSend(k), [local[k] EXCEPT !.id = a.id])
             \/ /\ Fault
                /\ at' = [at EXCEPT ![k] = AfterSend(k)]
                /\ local' = [local EXCEPT ![k].id = a.id]
                /\ job' = job
    BY DEF Send
  <1>2. /\ at[k] = "send"
        /\ UNCHANGED <<messages, events, recent, today, quoteSent, optedOut, subscribed, days>>
        /\ Grows
    BY DEF Send, world, Grows
  <1>3. a.texts \in 0 .. 2 /\ a.id \in MessageIds
    BY DEF Answers, MessageIds
  <1>4. /\ texts[k] + 2 <= 2 * job[k].attempts
        /\ job[k].attempts \in 0 .. MaxAttempts /\ texts[k] \in 0 .. 2 * MaxAttempts
        /\ \A i \in Jobs : i # k => texts'[i] = texts[i]
        /\ texts'[k] = texts[k] + a.texts
    BY <1>1, <1>2, AtWork DEF RowSound, Unsent, OutboundInv, TypeOK
  <1>5. texts'[k] <= 2 * job[k].attempts /\ texts'[k] \in 0 .. 2 * MaxAttempts
    BY <1>3, <1>4, LimitsAssumption
  <1>6. TableTypes'
    BY <1>1, <1>2, <1>5, AtWork DEF TableTypes
  <1> DEFINE l == [local[k] EXCEPT !.id = a.id]
  <1>7. /\ AfterSend(k) \in {"quoteSent", "message"}
        /\ AfterSend(k) = "quoteSent" => KindOf(k) # "text"
    BY DEF AfterSend
  <1>8. l \in [id : MessageIds, result : Results]
    BY <1>2, <1>3, AtWork
  <1>9. /\ Keeps(k)
        /\ \/ at'[k] = AfterSend(k) /\ job' = job
           \/ at'[k] = "idle" /\ KeyInv(k)'
    <2>1. CASE GoesOn(k, AfterSend(k), l)
      <3> HIDE DEF l
      <3> QED BY <2>1, <1>2, <1>5, <1>7, <1>8, AtWork, GoingOnKeeps DEF Steps
    <2>2. CASE /\ Fault /\ at' = [at EXCEPT ![k] = AfterSend(k)]
               /\ local' = [local EXCEPT ![k].id = a.id] /\ job' = job
      <3>1. HandlerTypes
        BY <1>2, <1>3, <1>7, <2>2, AtWork, FaultCounted DEF HandlerTypes, TypeOK, Steps
      <3> QED BY <1>2, <2>2, <3>1, AtWork DEF Keeps, TypeOK
    <2> QED BY <1>1, <2>1, <2>2
  <1>10. ASSUME at'[k] = AfterSend(k), job' = job
         PROVE  KeyInv(k)'
    <2>1. RowSound(k)'
      BY <1>2, <1>5, <1>7, <1>10, AtWork DEF RowSound, Unsent
    <2> QED
      BY <1>2, <1>7, <1>10, <2>1, AtWork DEF KeyInv, SubscribedOnWay, OnCourse, Truthful
  <1>11. CountedIsRecorded' /\ CapInv'
    BY <1>2, <1>9, CapKept DEF OutboundInv, CountedIsRecorded, PastSteps
  <1> QED BY <1>2, <1>4, <1>6, <1>9, <1>10, <1>11 DEF StepKeeps

\* The quote's status is written by a handler that sends no text of the limits.
LEMMA QuoteSentKeeps ==
  ASSUME OutboundInv, NEW k \in Jobs, QuoteSent(k)
  PROVE  StepKeeps(k)
  <1>1. /\ at[k] = "quoteSent" /\ GoesOn(k, "message", local[k])
        /\ UNCHANGED <<texts, messages, events, recent, today, optedOut, subscribed, days>>
        /\ quoteSent' = quoteSent \cup {k}
        /\ Grows
    BY DEF QuoteSent, world, Grows
  <1>2. KindOf(k) # "text"
    BY <1>1, AtWork DEF KeyInv, OnCourse
  <1>3. ASSUME at'[k] = "message", local'[k] = local[k], job' = job
        PROVE  SubscribedOnWay(k)' /\ OnCourse(k)' /\ Truthful(k)'
    BY <1>1, <1>3, AtWork DEF KeyInv, SubscribedOnWay, OnCourse, Truthful
  <1>4. Keeps(k) /\ KeyInv(k)'
    BY <1>1, <1>3, AtWork, GoingOnKeepsKey DEF Unsent, Steps
  <1>5. TableTypes'
    BY <1>1, AtWork DEF TableTypes
  <1>6. CountedIsRecorded' /\ CapInv'
    BY <1>1, <1>2, <1>4, CapKept DEF OutboundInv, CountedIsRecorded
  <1> QED BY <1>1, <1>4, <1>5, <1>6 DEF StepKeeps

\* insert_message: from here on the job's message is there.
LEMMA InsertMessageKeeps ==
  ASSUME OutboundInv, NEW k \in Jobs, InsertMessage(k)
  PROVE  StepKeeps(k)
  <1> DEFINE step == IF KindOf(k) = "leadQuote" THEN "leadStage" ELSE "event"
             new == [job |-> k, id |-> local[k].id]
  <1>1. /\ at[k] = "message" /\ GoesOn(k, step, local[k])
        /\ UNCHANGED <<texts, events, recent, today, quoteSent, optedOut, subscribed, days>>
        /\ messages' = messages \cup {new}
        /\ Grows
        /\ step \in Steps \ {"idle"} /\ step \notin Unsent
    BY DEF InsertMessage, world, Grows, Steps, Unsent
  <1>2. new \in [job : Jobs, id : MessageIds]
    BY <1>1, AtWork
  <1>3. ASSUME at'[k] = step, local'[k] = local[k], job' = job
        PROVE  SubscribedOnWay(k)' /\ OnCourse(k)' /\ Truthful(k)'
    <2>1. Recorded(k)'
      <3>1. new \in messages' /\ new.job = k
        BY <1>1
      <3> HIDE DEF new
      <3> QED BY <3>1 DEF Recorded
    <2>2. step \in {"leadStage", "event"}
      OBVIOUS
    <2> HIDE DEF step, new
    <2> QED
      BY <1>1, <1>3, <2>1, <2>2, AtWork DEF SubscribedOnWay, OnCourse, Truthful
  <1>4. Keeps(k) /\ KeyInv(k)' /\ at'[k] \in {step, "idle"}
    <2> HIDE DEF step
    <2> QED BY <1>1, <1>3, AtWork, GoingOnKeepsKey
  <1>5. TableTypes'
    BY <1>1, <1>2, AtWork DEF TableTypes
  <1>6. CountedIsRecorded' /\ CapInv'
    BY <1>1, <1>4, CapKept DEF OutboundInv, CountedIsRecorded, PastSteps
  <1> QED BY <1>1, <1>4, <1>5, <1>6 DEF StepKeeps

\* The insert raises over a row that is there already.
LEMMA MessageExistsKeeps ==
  ASSUME OutboundInv, NEW k \in Jobs, MessageExists(k)
  PROVE  StepKeeps(k)
  BY ReadRaisesKeeps DEF MessageExists

\* advance_lead_stage raises whenever it is reached.
LEMMA LeadStageKeeps ==
  ASSUME OutboundInv, NEW k \in Jobs, LeadStage(k)
  PROVE  StepKeeps(k)
  BY ReadRaisesKeeps DEF LeadStage

\* enqueue_event: the text that is counted now was under way.
LEMMA SentEventKeeps ==
  ASSUME OutboundInv, NEW k \in Jobs, SentEvent(k)
  PROVE  StepKeeps(k)
  <1> DEFINE l == [local[k] EXCEPT !.result = "sent"]
  <1>1. /\ at[k] = "event" /\ GoesOn(k, "report", l)
        /\ l \in [id : MessageIds, result : Results] /\ l.result = "sent"
    BY AtWork DEF SentEvent, Returns, Results
  <1>2. /\ UNCHANGED <<texts, messages, quoteSent, optedOut, subscribed, days>>
        /\ events' = events \cup {<<KindOf(k), k>>}
        /\ IF KindOf(k) = "text" THEN recent' = TRUE /\ today' = today \cup {k}
                                 ELSE UNCHANGED <<recent, today>>
        /\ Grows
    BY DEF SentEvent, world, Grows
  <1>3. Recorded(k)
    BY <1>1, AtWork DEF KeyInv, OnCourse
  <1>4. ASSUME at'[k] = "report", local'[k] = l, job' = job
        PROVE  SubscribedOnWay(k)' /\ OnCourse(k)' /\ Truthful(k)'
    BY <1>1, <1>2, <1>3, <1>4
       DEF SubscribedOnWay, OnCourse, Truthful, ResultHolds, Recorded
  <1>5. Keeps(k) /\ KeyInv(k)' /\ at'[k] \in {"report", "idle"}
    <2> HIDE DEF l
    <2> QED BY <1>1, <1>2, <1>4, GoingOnKeepsKey DEF Unsent, Steps
  <1>6. TableTypes'
    <2>1. recent' \in BOOLEAN /\ today' \subseteq Jobs
      BY <1>1, <1>2, AtWork DEF TableTypes
    <2>2. events' \subseteq (Kinds \cup {"skip"}) \X Jobs
      BY <1>1, <1>2, AtWork DEF TableTypes
    <2> QED BY <1>1, <1>2, <2>1, <2>2, AtWork DEF TableTypes
  <1>7. CountedIsRecorded'
    BY <1>2, <1>3 DEF OutboundInv, CountedIsRecorded, Recorded
  <1>8. CapInv'
    <2>1. Running' \subseteq Running
      BY <1>1, <1>5, AtWork DEF Running, Keeps
    <2>2. Past' \subseteq Past
      BY <1>5 DEF Past, Keeps, PastSteps
    <2>3. KindOf(k) = "text" => k \in Past
      BY <1>1 DEF Past, PastSteps
    <2>4. today' \subseteq today \cup Past
      BY <1>2, <2>3
    <2> QED BY <2>1, <2>2, <2>4, CapShrinks DEF OutboundInv
  <1> QED BY <1>2, <1>5, <1>6, <1>7, <1>8 DEF StepKeeps

\* complete_queue_job: the job is done with the result it reports.
LEMMA CompleteKeeps ==
  ASSUME OutboundInv, NEW k \in Jobs, Complete(k)
  PROVE  StepKeeps(k)
  <1>1. /\ at[k] = "report" /\ UNCHANGED <<tables, world>>
        /\ job' = [job EXCEPT ![k].state = "done"]
        /\ at' = [at EXCEPT ![k] = "idle"]
        /\ local' = local /\ faults' = faults
    BY DEF Complete
  <1>2. Keeps(k)
    BY <1>1, AtWork DEF TypeOK, Keeps, HandlerTypes, JobStates, Steps
  <1>3. /\ job'[k].state = "done" /\ job'[k].attempts = job[k].attempts /\ at'[k] = "idle"
    BY <1>1, AtWork DEF TypeOK
  <1>4. RowSound(k)'
    BY <1>1, <1>3, AtWork DEF RowSound, tables, Unsent
  <1>5. SubscribedOnWay(k)' /\ OnCourse(k)'
    BY <1>3 DEF SubscribedOnWay, OnCourse
  <1>6. Truthful(k)'
    <2>1. ResultHolds(k)
      BY <1>1, AtWork DEF KeyInv, Truthful
    <2>2. k[2] < MaxDeferrals => job'[Deferral(k)] = job[Deferral(k)]
      BY <1>2, DeferralIsJob DEF Keeps
    <2>3. ResultHolds(k)'
      BY <1>1, <2>1, <2>2 DEF ResultHolds, Recorded, tables
    <2> QED BY <2>3 DEF Truthful
  <1> QED BY <1>1, <1>2, <1>3, <1>4, <1>5, <1>6, ReadKeeps DEF KeyInv, PastSteps

-----------------------------------------------------------------------------
(* Steps that move more than one job, or none.                             *)

\* A handler's step keeps the whole invariant, whichever call it is.
LEMMA StepKeepsInv ==
  ASSUME OutboundInv, NEW k \in Jobs, StepKeeps(k)
  PROVE  OutboundInv'
  <1>1. TypeOK'
    BY DEF StepKeeps, Keeps, HandlerTypes, TableTypes, TypeOK
  <1>2. ASSUME NEW i \in Jobs, i # k
        PROVE  KeyInv(i)'
    <2>1. i[2] < MaxDeferrals /\ job[Deferral(i)].state # "absent"
             => job'[Deferral(i)].state # "absent"
      BY DeferralIsJob DEF StepKeeps, Keeps
    <2> QED BY <1>2, <2>1, StandingStill DEF OutboundInv, StepKeeps, Keeps, Stays
  <1> QED BY <1>1, <1>2 DEF OutboundInv, StepKeeps

\* Quiet hours hand the text over to another job, which is there when this one says so.
LEMMA DeferKeepsInv ==
  ASSUME OutboundInv, NEW k \in Jobs, Defer(k)
  PROVE  OutboundInv'
  <1> DEFINE d == Deferral(k)
  <1>1. /\ at[k] = "defer" /\ UNCHANGED <<tables, world>>
        /\ Grows /\ texts' = texts /\ today' = today
    BY DEF Defer, tables, world, Grows
  <1>2. k[2] < MaxDeferrals /\ d \in Jobs /\ d # k /\ KindOf(k) = "text"
    BY <1>1, AtWork, DeferralIsJob DEF KeyInv, OnCourse
  <1> HIDE DEF d
  <1>3. Enqueued(k) = IF job[d].state = "absent" THEN [job EXCEPT ![d].state = "ready"] ELSE job
    BY DEF Enqueued, d
  <1>4. \/ /\ job' = Enqueued(k)
           /\ at' = [at EXCEPT ![k] = "report"]
           /\ local' = [local EXCEPT ![k].result = "deferred"]
           /\ faults' = faults
        \/ /\ Fault
           /\ job' = [Enqueued(k) EXCEPT
                        ![k].state = IF job[k].attempts >= MaxAttempts THEN "dead" ELSE "ready"]
           /\ at' = [at EXCEPT ![k] = "idle"]
           /\ local' = [local EXCEPT ![k] = NoLocal]
    BY DEF Defer
  <1>5. Enqueued(k) \in [Jobs -> [state : JobStates, attempts : 0 .. MaxAttempts]]
    BY <1>1, <1>2, <1>3, AtWork DEF TypeOK, JobStates
  <1>6. HandlerTypes
    <2>1. job' \in [Jobs -> [state : JobStates, attempts : 0 .. MaxAttempts]]
      BY <1>4, <1>5 DEF JobStates
    <2>2. at' \in [Jobs -> Steps]
      BY <1>1, <1>4, AtWork DEF TypeOK, Steps
    <2>3. local' \in [Jobs -> [id : MessageIds, result : Results]]
      <3>1. \/ local' = [local EXCEPT ![k].result = "deferred"]
            \/ local' = [local EXCEPT ![k] = NoLocal]
        BY <1>4
      <3>2. NoLocal \in [id : MessageIds, result : Results]
        BY DEF NoLocal, MessageIds, Results
      <3>3. CASE local' = [local EXCEPT ![k] = NoLocal]
        BY <1>1, <3>2, <3>3, AtWork DEF TypeOK
      <3>4. CASE local' = [local EXCEPT ![k].result = "deferred"]
        BY <1>1, <3>4, AtWork DEF TypeOK, Results
      <3> QED BY <3>1, <3>3, <3>4
    <2>4. faults' \in 0 .. MaxFaults
      BY <1>1, <1>4, AtWork, FaultCounted
    <2> QED BY <2>1, <2>2, <2>3, <2>4 DEF HandlerTypes
  <1>7. TableTypes' /\ CountedIsRecorded'
    BY <1>1, AtWork DEF tables, world, TableTypes, OutboundInv, CountedIsRecorded
  <1>8. TypeOK'
    BY <1>6, <1>7 DEF HandlerTypes, TableTypes, TypeOK
  <1>9. /\ \A i \in Jobs : i # k => at'[i] = at[i] /\ local'[i] = local[i]
        /\ \A i \in Jobs : i \notin {k, d} => job'[i] = job[i]
    BY <1>1, <1>2, <1>3, <1>4, AtWork DEF TypeOK
  <1>10. /\ job'[d].state = IF job[d].state = "absent" THEN "ready" ELSE job[d].state
         /\ job'[d].attempts = job[d].attempts
    <2>1. /\ Enqueued(k)[d].state = IF job[d].state = "absent" THEN "ready" ELSE job[d].state
          /\ Enqueued(k)[d].attempts = job[d].attempts
      BY <1>1, <1>2, <1>3, AtWork DEF TypeOK
    <2>2. job'[d] = Enqueued(k)[d]
      BY <1>2, <1>4, <1>5
    <2> QED BY <2>1, <2>2
  <1>11. \A i \in Jobs : job[i].state # "absent" => job'[i].state # "absent"
    <2>1. job'[k].state # "absent"
      BY <1>1, <1>2, <1>3, <1>4, <1>5, AtWork DEF TypeOK
    <2> QED BY <1>9, <1>10, <2>1
  <1>12. ASSUME NEW i \in Jobs, i \notin {k, d}
         PROVE  KeyInv(i)'
    BY <1>1, <1>9, <1>11, <1>12, DeferralIsJob, StandingStill DEF OutboundInv, Stays
  <1>13. KeyInv(d)'
    <2>1. CASE job[d].state # "absent"
      <3>1. job'[d] = job[d]
        BY <1>1, <1>2, <1>3, <1>4, <2>1, AtWork DEF TypeOK
      <3> QED BY <1>1, <1>2, <1>9, <1>11, <3>1, DeferralIsJob, StandingStill DEF OutboundInv, Stays
    <2>2. CASE job[d].state = "absent"
      <3>1. job[d].attempts = 0 /\ at[d] = "idle" /\ texts[d] <= 2 * job[d].attempts
        BY <1>2, <2>2 DEF OutboundInv, KeyInv, RowSound
      <3>2. RowSound(d)'
        BY <1>1, <1>2, <1>9, <1>10, <2>2, <3>1, LimitsAssumption DEF RowSound, Unsent
      <3> QED
        BY <1>2, <1>9, <1>10, <2>2, <3>1, <3>2
           DEF KeyInv, SubscribedOnWay, OnCourse, Truthful
    <2> QED BY <2>1, <2>2
  <1>14. KeyInv(k)'
    <2>1. CASE /\ job' = Enqueued(k)
               /\ at' = [at EXCEPT ![k] = "report"]
               /\ local' = [local EXCEPT ![k].result = "deferred"]
      <3>1. job'[k] = job[k] /\ at'[k] = "report" /\ local'[k].result = "deferred"
        BY <1>1, <1>2, <1>3, <2>1, AtWork DEF TypeOK
      <3>2. RowSound(k)'
        BY <1>1, <3>1, AtWork DEF RowSound, Unsent
      <3>3. job'[Deferral(k)].state # "absent"
        BY <1>10 DEF d
      <3> QED
        BY <1>2, <3>1, <3>2, <3>3 DEF KeyInv, SubscribedOnWay, OnCourse, Truthful, ResultHolds
    <2>2. CASE /\ job' = [Enqueued(k) EXCEPT
                            ![k].state = IF job[k].attempts >= MaxAttempts THEN "dead" ELSE "ready"]
               /\ at' = [at EXCEPT ![k] = "idle"]
      <3>1. /\ job'[k].state = IF job[k].attempts >= MaxAttempts THEN "dead" ELSE "ready"
            /\ job'[k].attempts = job[k].attempts /\ at'[k] = "idle"
        BY <1>1, <1>2, <1>3, <1>5, <2>2, AtWork DEF TypeOK
      <3>2. RowSound(k)'
        BY <1>1, <3>1, AtWork, LimitsAssumption DEF RowSound, Unsent, TypeOK
      <3> QED BY <3>1, <3>2 DEF KeyInv, SubscribedOnWay, OnCourse, Truthful
    <2> QED BY <1>4, <2>1, <2>2
  <1>15. CapInv'
    <2>1. Running' \subseteq Running
      BY <1>1, <1>2, <1>9, <1>10, AtWork DEF Running
    <2>2. Past' \subseteq Past
      BY <1>1, <1>2, <1>9 DEF Past, PastSteps
    <2> QED BY <1>1, <2>1, <2>2, CapShrinks DEF OutboundInv
  <1> QED BY <1>8, <1>12, <1>13, <1>14, <1>7, <1>15 DEF OutboundInv

\* claim_queue_jobs counts an attempt that is left, for a handler that is free.
LEMMA ClaimKeepsInv ==
  ASSUME OutboundInv, NEW k \in Jobs, Claim(k)
  PROVE  OutboundInv'
  <1>1. /\ job[k].state = "ready" /\ Cardinality(Running) < Handlers
        /\ job' = [job EXCEPT ![k].state = "running", ![k].attempts = @ + 1]
        /\ at' = [at EXCEPT ![k] = "load"]
        /\ subscribed' = [subscribed EXCEPT ![k] = ~optedOut]
        /\ UNCHANGED <<local, optedOut, texts, messages, events, recent, today, quoteSent,
                       days, faults>>
    BY DEF Claim, tables
  <1>2. /\ job[k].attempts < MaxAttempts /\ at[k] = "idle"
        /\ job[k].attempts \in 0 .. MaxAttempts /\ texts[k] <= 2 * job[k].attempts
        /\ texts[k] \in 0 .. 2 * MaxAttempts
    BY <1>1 DEF OutboundInv, TypeOK, KeyInv, RowSound
  <1>3. /\ job'[k].state = "running" /\ job'[k].attempts = job[k].attempts + 1
        /\ at'[k] = "load" /\ subscribed'[k] = ~optedOut
        /\ \A i \in Jobs : i # k => /\ job'[i] = job[i] /\ at'[i] = at[i]
                                    /\ subscribed'[i] = subscribed[i]
    BY <1>1 DEF OutboundInv, TypeOK
  <1>4. TypeOK'
    <2>1. job' \in [Jobs -> [state : JobStates, attempts : 0 .. MaxAttempts]]
      BY <1>1, <1>2, LimitsAssumption DEF OutboundInv, TypeOK, JobStates
    <2>2. at' \in [Jobs -> Steps]
      BY <1>1 DEF OutboundInv, TypeOK, Steps
    <2>3. subscribed' \in [Jobs -> BOOLEAN]
      BY <1>1 DEF OutboundInv, TypeOK
    <2> QED BY <1>1, <2>1, <2>2, <2>3 DEF OutboundInv, TypeOK
  <1>5. KeyInv(k)'
    <2>1. RowSound(k)'
      BY <1>1, <1>2, <1>3, LimitsAssumption DEF RowSound
    <2>2. SubscribedOnWay(k)'
      BY <1>1, <1>3 DEF SubscribedOnWay
    <2>3. OnCourse(k)' /\ Truthful(k)'
      BY <1>3 DEF OnCourse, Truthful
    <2> QED BY <2>1, <2>2, <2>3 DEF KeyInv
  <1>6. ASSUME NEW i \in Jobs, i # k
        PROVE  KeyInv(i)'
    <2>1. i[2] < MaxDeferrals => Deferral(i) \in Jobs
      BY DeferralIsJob
    <2>2. /\ job'[i] = job[i] /\ at'[i] = at[i] /\ texts'[i] = texts[i]
          /\ subscribed'[i] = subscribed[i] /\ optedOut' = optedOut /\ messages' = messages
          /\ KeyInv(i)
      BY <1>1, <1>3, <1>6 DEF OutboundInv
    <2>3. RowSound(i)'
      BY <2>2 DEF KeyInv, RowSound
    <2>4. OnCourse(i)' /\ SubscribedOnWay(i)'
      BY <2>2, Zenon DEF KeyInv, OnCourse, Recorded, SubscribedOnWay
    <2>5. ResultHolds(i) => ResultHolds(i)'
      BY <1>1, <1>3, <1>6, <2>1 DEF ResultHolds, Recorded
    <2>6. Truthful(i)'
      BY <2>2, <2>5 DEF KeyInv, Truthful
    <2> QED BY <2>3, <2>4, <2>6 DEF KeyInv
  <1>7. CapInv'
    <2>1. Running' = Running \cup {k} /\ k \notin Running
      BY <1>1, <1>3 DEF Running
    <2>2. /\ IsFiniteSet(Running') /\ Cardinality(Running') = Cardinality(Running) + 1
          /\ Cardinality(Running) \in Nat
      BY <2>1, FS_AddElement, FS_CardinalityType DEF OutboundInv, CapInv
    <2>3. Past' = Past
      BY <1>2, <1>3 DEF Past, PastSteps
    <2> QED BY <1>1, <2>2, <2>3, LimitsAssumption DEF OutboundInv, CapInv
  <1>8. CountedIsRecorded'
    BY <1>1 DEF OutboundInv, CountedIsRecorded
  <1> QED BY <1>4, <1>5, <1>6, <1>7, <1>8 DEF OutboundInv

\* A STOP makes no one subscribed, a START everyone; the handlers notice neither.
LEMMA CustomerKeepsInv ==
  ASSUME OutboundInv, CustomerReplies
  PROVE  OutboundInv'
  <1>1. PICK out \in BOOLEAN :
          /\ optedOut' = out
          /\ subscribed' = [k \in Jobs |-> subscribed[k] \/ ~out]
    BY DEF CustomerReplies
  <1>2. UNCHANGED <<job, at, local, texts, messages, events, recent, today, quoteSent,
                 days, faults>>
    BY DEF CustomerReplies, tables
  <1>3. \A k \in Jobs : subscribed'[k] = (subscribed[k] \/ ~out)
    BY <1>1
  <1>4. TypeOK'
    <2>1. subscribed' \in [Jobs -> BOOLEAN]
      BY <1>1
    <2> QED BY <1>1, <1>2, <2>1 DEF OutboundInv, TypeOK
  <1>5. ASSUME NEW k \in Jobs
        PROVE  KeyInv(k)'
    <2>1. RowSound(k)' /\ OnCourse(k)' /\ Truthful(k)'
      BY <1>2 DEF OutboundInv, KeyInv, RowSound, OnCourse, Truthful, ResultHolds, Recorded
    <2>2. SubscribedOnWay(k)'
      BY <1>1, <1>2, <1>3 DEF OutboundInv, KeyInv, SubscribedOnWay
    <2> QED BY <2>1, <2>2 DEF KeyInv
  <1>6. CapInv' /\ CountedIsRecorded'
    BY <1>2 DEF OutboundInv, CapInv, Running, Past, CountedIsRecorded
  <1> QED BY <1>4, <1>5, <1>6 DEF OutboundInv

\* Time passes: the cooldown ends, and at midnight the day's count starts anew.
LEMMA ClockKeepsInv ==
  ASSUME OutboundInv, CooldownPasses \/ Midnight
  PROVE  OutboundInv'
  <1>1. /\ UNCHANGED <<job, at, local, texts, messages, events, quoteSent, optedOut,
                       subscribed, faults>>
        /\ recent' \in BOOLEAN
        /\ \/ today' = today /\ days' = days
           \/ today' = {} /\ days' = days + 1 /\ days < MaxDays
    <2>1. CASE CooldownPasses
      BY <2>1 DEF CooldownPasses, world
    <2>2. CASE Midnight
      BY <2>2 DEF Midnight, OutboundInv, TypeOK
    <2> QED BY <2>1, <2>2
  <1>2. TypeOK'
    BY <1>1, LimitsAssumption DEF OutboundInv, TypeOK
  <1>3. \A k \in Jobs : KeyInv(k)'
    BY <1>1, StandingStill DEF OutboundInv, Stays, Grows
  <1>4. CountedIsRecorded'
    BY <1>1 DEF OutboundInv, CountedIsRecorded
  <1>5. CapInv'
    <2>1. Running' \subseteq Running /\ (today \cup Past)' \subseteq today \cup Past
      BY <1>1 DEF Running, Past
    <2> QED BY <2>1, CapShrinks DEF OutboundInv
  <1> QED BY <1>2, <1>3, <1>4, <1>5 DEF OutboundInv

\* Before the first claim nothing runs and nothing is counted.
LEMMA InitOutboundInv == Init => OutboundInv
  <1> SUFFICES ASSUME Init PROVE OutboundInv
    OBVIOUS
  <1>1. TypeOK
    <2>1. job \in [Jobs -> [state : JobStates, attempts : 0 .. MaxAttempts]]
      BY LimitsAssumption DEF Init, JobStates
    <2>2. at \in [Jobs -> Steps] /\ local \in [Jobs -> [id : MessageIds, result : Results]]
      BY DEF Init, Steps, NoLocal, MessageIds, Results
    <2>3. texts \in [Jobs -> 0 .. 2 * MaxAttempts] /\ subscribed \in [Jobs -> BOOLEAN]
      BY LimitsAssumption DEF Init
    <2>4. {optedOut, recent} \subseteq BOOLEAN
      BY DEF Init
    <2> QED BY <2>1, <2>2, <2>3, <2>4, LimitsAssumption DEF Init, TypeOK
  <1>2. ASSUME NEW k \in Jobs
        PROVE  KeyInv(k)
    <2>1. /\ job[k].state \in {"ready", "absent"} /\ job[k].attempts = 0
          /\ at[k] = "idle" /\ texts[k] = 0
      BY DEF Init
    <2>2. RowSound(k)
      BY <2>1, LimitsAssumption DEF RowSound, Unsent
    <2> QED BY <2>1, <2>2 DEF KeyInv, SubscribedOnWay, OnCourse, Truthful
  <1>3. CountedIsRecorded
    BY DEF Init, CountedIsRecorded
  <1>4. CapInv
    <2>1. Running = {} /\ Past = {} /\ today = {}
      BY DEF Init, Running, Past, PastSteps
    <2>2. IsFiniteSet({}) /\ Cardinality({}) = 0
      BY FS_EmptySet
    <2>3. today \cup Past = {}
      BY <2>1
    <2> QED BY <2>1, <2>2, <2>3, LimitsAssumption DEF CapInv
  <1> QED BY <1>1, <1>2, <1>3, <1>4 DEF OutboundInv

\* Every step of the customer, the clock, the queue and the handlers keeps it.
LEMMA NextKeepsInv ==
  ASSUME OutboundInv, [Next]_vars
  PROVE  OutboundInv'
  <1>1. CASE UNCHANGED vars
    <2>1. TypeOK' /\ CountedIsRecorded' /\ CapInv'
      BY <1>1 DEF vars, OutboundInv, TypeOK, CountedIsRecorded, CapInv, Running, Past
    <2>2. \A k \in Jobs : KeyInv(k)'
      BY <1>1, StandingStill DEF vars, OutboundInv, Stays, Grows
    <2> QED BY <2>1, <2>2 DEF OutboundInv
  <1>2. ASSUME NEW k \in Jobs, Handler(k)
        PROVE  OutboundInv'
    <2>1. CASE Defer(k)
      BY <2>1, DeferKeepsInv
    <2>2. CASE Handler(k) /\ ~Defer(k)
      <3>1. StepKeeps(k)
        BY <2>2, LoadKeeps, SkipKeeps, RateLimitKeeps, RateLimitedKeeps, CheckDailyCapKeeps,
           QuietHoursKeeps, UnrenderableKeeps, SendKeeps, QuoteSentKeeps, InsertMessageKeeps,
           MessageExistsKeeps, LeadStageKeeps, SentEventKeeps, CompleteKeeps
           DEF Handler
      <3> QED BY <3>1, StepKeepsInv
    <2> QED BY <1>2, <2>1, <2>2
  <1>3. ASSUME NEW k \in Jobs, StepFails(k)
        PROVE  OutboundInv'
    BY <1>3, StepFailsKeeps, StepKeepsInv
  <1>4. CASE Next
    BY <1>2, <1>3, <1>4, ClaimKeepsInv, CustomerKeepsInv, ClockKeepsInv DEF Next
  <1> QED BY <1>1, <1>4

\* OutboundInv holds in every state.
THEOREM OutboundInvariant == Spec => []OutboundInv
  BY InitOutboundInv, NextKeepsInv, PTL DEF Spec

\* Every variable keeps its type: no job is run, nor its customer texted, more often
\* than its attempts allow.
THEOREM OutboundTypes == Spec => []TypeOK
  <1>1. OutboundInv => TypeOK
    BY DEF OutboundInv
  <1> QED BY <1>1, OutboundInvariant, PTL

\* The cap is overshot by the texts that other handlers have under way, and no more.
THEOREM CapOvershoot == Spec => []DailyCapHolds
  <1>1. OutboundInv => DailyCapHolds
    <2> SUFFICES ASSUME OutboundInv PROVE DailyCapHolds
      OBVIOUS
    <2>1. IsFiniteSet(Running) /\ IsFiniteSet(today) /\ Past \subseteq Running
      BY PastRuns DEF OutboundInv, CapInv
    <2>2. IsFiniteSet(today \cup Past)
      BY <2>1, FS_Subset, FS_Union
    <2>3. /\ Cardinality(today) <= Cardinality(today \cup Past)
          /\ Cardinality(today) \in Nat /\ Cardinality(today \cup Past) \in Nat
      BY <2>1, <2>2, FS_Subset, FS_CardinalityType
    <2> QED BY <2>3, LimitsAssumption DEF OutboundInv, CapInv, DailyCapHolds
  <1> QED BY <1>1, OutboundInvariant, PTL

\* What the limits count is in the conversation.
THEOREM CountedInConversation == Spec => []CountedIsRecorded
  <1>1. OutboundInv => CountedIsRecorded
    BY DEF OutboundInv
  <1> QED BY <1>1, OutboundInvariant, PTL

\* The result a finished job reports is what happened.
THEOREM ResultsAreTrue == Spec => []ResultIsTrue
  <1>1. OutboundInv => ResultIsTrue
    <2> SUFFICES ASSUME OutboundInv, NEW k \in Jobs, job[k].state = "done"
                 PROVE  CASE local[k].result = "sent" ->
                               /\ \E m \in messages : m.job = k
                               /\ <<KindOf(k), k>> \in events
                          [] local[k].result = "optOut" ->
                               KindOf(k) = "text" => <<"skip", k>> \in events
                          [] local[k].result = "deferred" -> job[Deferral(k)].state # "absent"
                          [] OTHER -> local[k].result \in {"capped", "noOpening"}
      BY DEF ResultIsTrue
    <2>1. ResultHolds(k) /\ local[k].result \in Results
      BY DEF OutboundInv, KeyInv, Truthful, TypeOK
    <2> QED BY <2>1 DEF ResultHolds, Recorded, Results
  <1> QED BY <1>1, OutboundInvariant, PTL

\* No execution that began after the contact opted out sends a text.
THEOREM TextsWereWanted == Spec => NoTextAfterOptOut
  <1>1. OutboundInv /\ [Next]_vars => \A k \in Jobs : texts'[k] > texts[k] => subscribed[k]
    <2> SUFFICES ASSUME OutboundInv, Next, NEW k \in Jobs, texts'[k] > texts[k]
                 PROVE  subscribed[k]
      BY DEF vars, OutboundInv, TypeOK
    <2>1. texts[k] \in Nat
      BY DEF OutboundInv, TypeOK
    <2>2. texts' = texts \/ \E i \in Jobs : Send(i)
      BY DEF Next, CustomerReplies, CooldownPasses, Midnight, Claim, Handler, Load, Skip,
             RateLimit, RateLimited, CheckDailyCap, QuietHours, Defer, Unrenderable,
             QuoteSent, InsertMessage, MessageExists, LeadStage, SentEvent, Complete,
             StepFails, tables
    <2>3. PICK i \in Jobs : Send(i)
      BY <2>1, <2>2
    <2>4. i = k
      BY <2>1, <2>3 DEF Send, OutboundInv, TypeOK
    <2> QED BY <2>3, <2>4 DEF Send, OutboundInv, KeyInv, SubscribedOnWay
  <1> QED BY <1>1, OutboundInvariant, PTL DEF Spec, NoTextAfterOptOut
=============================================================================
