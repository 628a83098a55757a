----------------------------- MODULE OfficeProofs ----------------------------
(***************************************************************************)
(* What the components of Office guarantee for any messages, jobs,          *)
(* requests, leads, processes and bounds; LibraryProofs continues it for    *)
(* the library.  The invariants have one form: whatever is spoilt (an       *)
(* action, a link, a mail) was paid for by a fault, a restart or a loop,    *)
(* and what each process holds says what it has done.                       *)
(*                                                                          *)
(* IntakeInv says, for each message, which leads its executions can have    *)
(* created so far, that what an execution decided is enqueued once it has   *)
(* passed its dispatch, and that each action but one cost a fault.  A step  *)
(* is one execution's (MessageTurn) or the owner's; an execution thinks (up *)
(* to its dispatch), dispatches, or winds up.                               *)
(***************************************************************************)
EXTENDS Office, QuotesProofs

\* The queue as the components of Office other than Quotes see it.
E == INSTANCE Execution WITH MaxFaults <- MaxCost, job <- rows, faults <- cost

\* Only the row of k changed.
OnlyRow(k) == \A i \in DOMAIN rows : i # k => rows'[i] = rows[i]

-----------------------------------------------------------------------------
(* The table of jobs.                                                      *)

\* The execution of k failed.
LEMMA RowFails ==
  ASSUME NEW Keys, NEW Todo, rows \in [Keys -> JobRows(Todo)], NEW k \in Keys,
         rows' = E!Failed(rows, k)
  PROVE  rows' \in [Keys -> JobRows(Todo)] /\ OnlyRow(k) /\ Fell(rows[k], rows'[k])
  <1> DEFINE state == IF rows[k].attempts >= MaxAttempts THEN "dead" ELSE "ready"
  <1>1. /\ state \in {"ready", "dead"} /\ state \in JobStates
        /\ state = "ready" => rows[k].attempts < MaxAttempts
    BY ExecutionAssumption DEF JobRows, JobStates
  <1>2. rows' = [rows EXCEPT ![k].state = state, ![k].at = "idle"]
    BY DEF E!Failed
  <1> HIDE DEF state
  <1>3. rows' \in [Keys -> JobRows(Todo)]
    BY <1>1, <1>2 DEF JobRows
  <1>4. OnlyRow(k)
    BY <1>2 DEF OnlyRow
  <1>5. rows'[k].state = state /\ rows'[k].attempts = rows[k].attempts /\ rows'[k].at = "idle"
    BY <1>2 DEF JobRows
  <1> QED BY <1>1, <1>3, <1>4, <1>5 DEF Fell

\* A fault is counted, up to its bound.
LEMMA CostGrows ==
  cost \in 0 .. MaxCost /\ E!Fault => cost' = cost + 1 /\ cost' \in 0 .. MaxCost
  BY OfficeAssumption DEF E!Fault

\* A handler that goes on is at its next step, or has failed at the cost of a fault.
LEMMA RowGoesOn ==
  ASSUME NEW Keys, NEW Todo, rows \in [Keys -> JobRows(Todo)], NEW k \in Keys,
         NEW step \in Todo, cost \in 0 .. MaxCost, E!GoesOn(k, step)
  PROVE  /\ rows' \in [Keys -> JobRows(Todo)] /\ cost' \in 0 .. MaxCost
         /\ OnlyRow(k)
         /\ \/ cost' = cost /\ At(rows[k], rows'[k], step)
            \/ cost' = cost + 1 /\ Fell(rows[k], rows'[k])
  <1>1. CASE rows' = [rows EXCEPT ![k].at = step] /\ cost' = cost
    BY <1>1 DEF JobRows, OnlyRow, At
  <1>2. CASE E!Fault /\ rows' = E!Failed(rows, k)
    BY <1>2, RowFails, CostGrows
  <1> QED BY <1>1, <1>2 DEF E!GoesOn, E!GoesOnWith

\* A call that fails costs a fault.
LEMMA RowStepFails ==
  ASSUME NEW Keys, NEW Todo, rows \in [Keys -> JobRows(Todo)], NEW k \in Keys,
         cost \in 0 .. MaxCost, E!StepFails(k)
  PROVE  /\ rows' \in [Keys -> JobRows(Todo)] /\ cost' \in 0 .. MaxCost
         /\ OnlyRow(k)
         /\ rows[k].at # "idle" /\ cost' = cost + 1 /\ Fell(rows[k], rows'[k])
  BY RowFails, CostGrows DEF E!StepFails

\* A claim is a new attempt.
LEMMA RowClaimed ==
  ASSUME NEW Keys, NEW Todo, rows \in [Keys -> JobRows(Todo)], NEW k \in Keys,
         NEW step \in Todo, Sound(rows[k]), E!Claim(k, step)
  PROVE  /\ rows' \in [Keys -> JobRows(Todo)] /\ cost' = cost
         /\ OnlyRow(k)
         /\ rows[k].state = "ready" /\ rows[k].at = "idle"
         /\ rows'[k] = [state |-> "running", attempts |-> rows[k].attempts + 1, at |-> step]
  BY ExecutionAssumption DEF E!Claim, JobRows, JobStates, OnlyRow, Sound

\* A job whose handler returned is done; one that is given up is dead.
LEMMA RowEnds ==
  ASSUME NEW Keys, NEW Todo, rows \in [Keys -> JobRows(Todo)], NEW k \in Keys,
         NEW state \in {"done", "dead"},
         rows' = [rows EXCEPT ![k].state = state, ![k].at = "idle"]
  PROVE  /\ rows' \in [Keys -> JobRows(Todo)] /\ OnlyRow(k)
         /\ rows'[k] = [state |-> state, attempts |-> rows[k].attempts, at |-> "idle"]
  BY DEF JobRows, JobStates, OnlyRow

\* A set whose growth by an element is paid for stays within what was paid.
LEMMA PaidFor ==
  ASSUME NEW P, NEW T, NEW m \in Nat, NEW n \in Nat,
         IsFiniteSet(P), Cardinality(P) <= m, m <= n,
         \/ T \subseteq P
         \/ n = m + 1 /\ \E x : T \subseteq P \cup {x}
  PROVE  IsFiniteSet(T) /\ Cardinality(T) <= n
  <1>1. Cardinality(P) \in Nat
    BY FS_CardinalityType
  <1>2. CASE T \subseteq P
    <2>1. IsFiniteSet(T) /\ Cardinality(T) <= Cardinality(P) /\ Cardinality(T) \in Nat
      BY <1>2, FS_Subset, FS_CardinalityType
    <2> QED BY <1>1, <2>1
  <1>3. ASSUME n = m + 1, NEW x, T \subseteq P \cup {x}
        PROVE  IsFiniteSet(T) /\ Cardinality(T) <= n
    <2>1. /\ IsFiniteSet(P \cup {x})
          /\ Cardinality(P \cup {x}) = IF x \in P THEN Cardinality(P) ELSE Cardinality(P) + 1
      BY FS_AddElement
    <2>2. IsFiniteSet(T) /\ Cardinality(T) <= Cardinality(P \cup {x}) /\ Cardinality(T) \in Nat
      BY <1>3, <2>1, FS_Subset, FS_CardinalityType
    <2> QED BY <1>1, <1>3, <2>1, <2>2
  <1> QED BY <1>2, <1>3

\* What is counted in a component is counted here.
LEMMA Cardinalities ==
  ASSUME NEW P
  PROVE  /\ I!Cardinality(P) = Cardinality(P)
         /\ U!Cardinality(P) = Cardinality(P)
         /\ H!Cardinality(P) = Cardinality(P)
         /\ L!Cardinality(P) = Cardinality(P)
         /\ R!Cardinality(P) = Cardinality(P)
         /\ M!Cardinality(P) = Cardinality(P)
  BY DEF I!Cardinality, U!Cardinality, H!Cardinality, L!Cardinality, R!Cardinality,
         M!Cardinality, Cardinality

-----------------------------------------------------------------------------
(* Whose step it is.                                                       *)

\* A behaviour stays with the component it is about, and its steps are that one's.
LEMMA OneComponent ==
  ASSUME OfficeNext \/ UNCHANGED officeVars
  PROVE  /\ chosen' = chosen
         /\ chosen = "quotes" => Next \/ UNCHANGED vars
         /\ chosen = "intake" => I!Next \/ UNCHANGED I!vars
         /\ chosen = "handoff" => H!Next \/ UNCHANGED H!vars
         /\ chosen = "library" => L!Next \/ UNCHANGED L!vars
         /\ chosen = "settings" => S!Next \/ UNCHANGED S!vars
         /\ chosen = "uploads" => U!Next \/ UNCHANGED U!vars
         /\ chosen = "rollup" => R!Next \/ UNCHANGED R!vars
         /\ chosen = "summaries" => M!Next \/ UNCHANGED M!vars
         /\ chosen = "times" => input' = input
  <1>1. CASE UNCHANGED officeVars
    BY <1>1 DEF officeVars, vars, QuotesOthers, I!vars, H!vars, L!vars, S!vars, U!vars, R!vars,
                M!vars
  <1>2. CASE OfficeNext
    BY <1>2 DEF OfficeNext
  <1> QED BY <1>1, <1>2

-----------------------------------------------------------------------------
(* Intake: classification.                                                 *)

\* What an execution holds.
Held == [action : I!Answers, text : BOOLEAN, late : BOOLEAN,
         lead : I!Leads \cup {I!NoLead}, seen : I!Stages]

\* The steps up to the insert of the lead.
Early == {"decide", "lead", "newLead"}

\* Those after the dispatch.
Acting == {"followUp", "status", "report"}

\* Each execution creates a lead of its own, if it creates one.
LeadsSound(c) ==
    \A n \in 1 .. MaxAttempts :
        lead[<<c, n>>] # "absent" =>
            \/ n < rows[c].attempts
            \/ n = rows[c].attempts /\ rows[c].at \notin Early

\* The lead whose stage is to be written exists.
Found(c) == held[c].lead \in I!Leads /\ lead[held[c].lead] # "absent"

\* What was decided has a job, if it is to have one.
Kept(h, c) ==
    /\ h.action \notin {"resolved", "noop"}
    /\ h.action = "quote" => h.lead # I!NoLead
    /\ h.action \in I!Worded => h.text
    =>  \/ <<h.action, c>> \in enqueued
        \/ h.action = "book" /\ <<"callback", c>> \in enqueued

\* The actions of a message.
Taken(c) == {a \in I!Actions : <<a, c>> \in enqueued}
\* Its execution has passed the dispatch.
Acted(c) == rows[c].at \in Acting \/ rows[c].state = "done"

\* Each action of a message but one cost a fault.
ActionsSound(c) ==
    /\ Cardinality(Taken(c)) <= 1 + cost
    /\ ~Acted(c) => Cardinality(Taken(c)) <= cost

\* What holds of each message.
MessageInv(c) ==
    /\ Sound(rows[c])
    /\ LeadsSound(c)
    /\ rows[c].at = "stage" => Found(c)
    /\ rows[c].at \in Acting => Kept(held[c], c)
    /\ ActionsSound(c)

\* The types, over the operators of this module.
IntakeTypes ==
    /\ rows \in [Messages -> JobRows(I!Steps)]
    /\ cost \in 0 .. MaxCost
    /\ {deployed, filterTaken} \subseteq BOOLEAN
    /\ lead \in [I!Leads -> I!Stages]
    /\ held \in [Messages -> Held]
    /\ enqueued \subseteq (I!Actions \cup {"followUp"}) \X Messages

\* The inductive invariant.
IntakeInv == IntakeTypes /\ \A c \in Messages : MessageInv(c)

-----------------------------------------------------------------------------
(* Intake: steps.                                                          *)

\* The execution of c takes a step, begins or ends.
MessageTurn(c) ==
    /\ rows' \in [Messages -> JobRows(I!Steps)]
    /\ cost' \in 0 .. MaxCost /\ cost <= cost'
    /\ held' \in [Messages -> Held]
    /\ \A d \in Messages : d # c => rows'[d] = rows[d] /\ held'[d] = held[d]
    /\ Sound(rows[c])'
    /\ UNCHANGED I!deployment

\* It goes on to a step, holding h, or falls at the cost of a fault.
MessageReaches(c, step, h) ==
    \/ cost' = cost /\ At(rows[c], rows'[c], step) /\ held'[c] = h
    \/ cost' = cost + 1 /\ Fell(rows[c], rows'[c])

\* The operations of the queue as Intake sees them are those of E.
LEMMA IntakeQueue ==
  ASSUME NEW c
  PROVE  /\ \A step : I!Claim(c, step) => E!Claim(c, step)
         /\ \A step : I!GoesOn(c, step) => E!GoesOn(c, step)
         /\ I!StepFails(c) => E!StepFails(c)
         /\ I!Complete(c) => /\ rows[c].at = "report" /\ cost' = cost
                             /\ rows' = [rows EXCEPT ![c].state = "done", ![c].at = "idle"]
  <1>1. I!Running = E!Running
    BY DEF I!Running, E!Running
  <1>2. I!Cardinality(I!Running) = E!Cardinality(E!Running)
    BY <1>1 DEF I!Cardinality, E!Cardinality
  <1>3. \A step : I!Claim(c, step) => E!Claim(c, step)
    BY <1>2 DEF I!Claim, E!Claim
  <1>4. /\ \A step : I!GoesOn(c, step) => E!GoesOn(c, step)
        /\ I!StepFails(c) => E!StepFails(c)
    BY DEF I!GoesOn, E!GoesOn, I!GoesOnWith, E!GoesOnWith, I!Fault, E!Fault, I!Failed, E!Failed,
           I!StepFails, E!StepFails
  <1> QED BY <1>3, <1>4 DEF I!Complete

\* What Goes does.
LEMMA Going ==
  ASSUME IntakeInv, NEW c \in Messages, rows[c].at # "idle", UNCHANGED I!deployment,
         NEW step \in I!Steps, NEW h \in Held, I!Goes(c, step, h)
  PROVE  MessageTurn(c) /\ MessageReaches(c, step, h)
  <1>0. Sound(rows[c]) /\ rows \in [Messages -> JobRows(I!Steps)] /\ cost \in 0 .. MaxCost
    BY DEF IntakeInv, MessageInv, IntakeTypes
  <1>1. /\ rows' \in [Messages -> JobRows(I!Steps)] /\ cost' \in 0 .. MaxCost
        /\ OnlyRow(c)
        /\ \/ cost' = cost /\ At(rows[c], rows'[c], step)
           \/ cost' = cost + 1 /\ Fell(rows[c], rows'[c])
    BY <1>0, IntakeQueue, RowGoesOn DEF I!Goes
  <1>2. "idle" \notin I!Steps
    BY DEF I!Steps
  <1>3. Sound(rows'[c])
    BY <1>0, <1>1, <1>2, SoundRows
  <1>4. I!Undecided \in Held
    BY DEF I!Undecided, Held, I!Answers, I!NoLead, I!Stages
  <1>5. held \in [Messages -> Held]
    BY DEF IntakeInv, IntakeTypes, Held
  <1>6. held' = [held EXCEPT ![c] = IF rows'[c].at = step THEN h ELSE I!Undecided]
    BY DEF I!Goes
  <1>7. /\ held' \in [Messages -> Held]
        /\ \A d \in Messages : d # c => held'[d] = held[d]
        /\ rows'[c].at = step => held'[c] = h
    BY <1>4, <1>5, <1>6
  <1>8. cost <= cost'
    BY <1>0, <1>1, ExecutionAssumption, OfficeAssumption
  <1> QED BY <1>0, <1>1, <1>3, <1>7, <1>8 DEF MessageTurn, MessageReaches, OnlyRow, At

\* A decision is one that the code knows.
LEMMA Decisions ==
  ASSUME NEW answer \in Recommended, NEW sure \in BOOLEAN, NEW open \in BOOLEAN,
         NEW emergency \in BOOLEAN, NEW worded \in BOOLEAN, NEW action
  PROVE  /\ I!Decision(answer, sure, open, emergency) \in I!Answers
         /\ I!HasText(action, worded, open, emergency) \in BOOLEAN
  BY OfficeAssumption DEF I!Decision, I!Answers, I!HasText

\* A step before the dispatch.
Thinks(c) ==
    /\ MessageTurn(c)
    /\ rows[c].at \in Early \cup {"stage", "fields"}
    /\ rows'[c].at \notin Acting /\ rows'[c].state # "done"
    /\ rows'[c].attempts = rows[c].attempts
    /\ rows'[c].at \in Early => rows[c].at \in {"decide", "lead"}
    /\ lead' \in {lead, I!Written(c)}
    /\ rows'[c].at = "stage" => Found(c)'
    /\ enqueued' = enqueued

\* A step that goes on with the thinking does that.
LEMMA Thinking ==
  ASSUME IntakeInv, NEW c \in Messages, NEW step \in I!Steps, NEW h \in Held,
         rows[c].at \in Early \cup {"stage", "fields"},
         step \in Early \cup {"stage", "fields", "dispatch"},
         step \in Early => rows[c].at \in {"decide", "lead"},
         I!Goes(c, step, h), UNCHANGED I!deployment,
         lead' \in {lead, I!Written(c)}, enqueued' = enqueued,
         step = "stage" => h.lead \in I!Leads /\ lead'[h.lead] # "absent"
  PROVE  Thinks(c)
  <1>1. rows[c].at # "idle"
    BY DEF Early
  <1>2. MessageTurn(c) /\ MessageReaches(c, step, h)
    BY <1>1, Going
  <1>3. Sound(rows[c]) /\ rows[c] \in JobRows(I!Steps)
    BY DEF IntakeInv, MessageInv, IntakeTypes
  <1>4. rows[c].state = "running"
    BY <1>1, <1>3 DEF Sound
  <1>5. /\ rows'[c].at \notin Acting /\ rows'[c].state # "done"
        /\ rows'[c].attempts = rows[c].attempts
        /\ rows'[c].at \in Early => rows[c].at \in {"decide", "lead"}
    BY <1>2, <1>4 DEF MessageReaches, At, Fell, Early, Acting
  <1>6. rows'[c].at = "stage" => Found(c)'
    BY <1>2 DEF MessageReaches, At, Fell, Found
  <1> QED BY <1>2, <1>5, <1>6 DEF Thinks

\* The decision, the bridge to the leads and its failure are such steps.
LEMMA ThinkingDoes ==
  ASSUME IntakeInv, NEW c \in Messages,
         \/ I!Decide(c) \/ I!FindLead(c) \/ I!NewLead(c) \/ I!Stage(c)
          \/ I!Fields(c) \/ I!BridgeFails(c)
  PROVE  Thinks(c)
  <1>0. held[c] \in Held /\ rows[c] \in JobRows(I!Steps) /\ Sound(rows[c])
    BY DEF IntakeInv, MessageInv, IntakeTypes, Held
  <1>1. CASE I!Decide(c)
    <2>1. PICK answer \in Recommended, sure \in BOOLEAN, open \in BOOLEAN,
               emergency \in BOOLEAN, worded \in BOOLEAN, step \in {"lead", "dispatch"} :
             I!Goes(c, step, [I!Undecided EXCEPT
                              !.action = I!Decision(answer, sure, open, emergency),
                              !.text = I!HasText(I!Decision(answer, sure, open, emergency),
                                                 worded, open, emergency),
                              !.late = /\ I!Decision(answer, sure, open, emergency) = "reply"
                                       /\ ~open])
      BY <1>1 DEF I!Decide
    <2> DEFINE action == I!Decision(answer, sure, open, emergency)
    <2> DEFINE text == I!HasText(action, worded, open, emergency)
    <2> DEFINE h == [I!Undecided EXCEPT !.action = action, !.text = text,
                                        !.late = action = "reply" /\ ~open]
    <2>2. action \in I!Answers /\ text \in BOOLEAN
      <3> HIDE DEF text
      <3>1. action \in I!Answers
        BY Decisions
      <3> USE DEF text
      <3> QED BY <3>1, Decisions
    <2>3. I!Undecided \in Held
      BY DEF I!Undecided, Held, I!Answers, I!NoLead, I!Stages
    <2>4. h \in Held
      <3> HIDE DEF action, text
      <3> QED BY <2>2, <2>3 DEF Held
    <2>5. I!Goes(c, step, h)
      BY <2>1
    <2> HIDE DEF h
    <2> QED BY <1>1, <2>4, <2>5, Thinking DEF I!Decide, Early, I!Steps
  <1>2. CASE I!FindLead(c)
    <2>1. CASE I!Goes(c, "newLead", held[c])
      BY <1>0, <1>2, <2>1, Thinking DEF I!FindLead, Early, I!Steps
    <2>2. ASSUME NEW l \in I!OpenLeads,
                 I!Goes(c, "stage", [held[c] EXCEPT !.lead = l, !.seen = lead[l]])
          PROVE  Thinks(c)
      <3>1. l \in I!Leads /\ lead[l] \in I!Stages /\ lead[l] # "absent"
        BY <2>2 DEF I!OpenLeads, IntakeInv, IntakeTypes
      <3>2. /\ [held[c] EXCEPT !.lead = l, !.seen = lead[l]] \in Held
            /\ [held[c] EXCEPT !.lead = l, !.seen = lead[l]].lead = l
        BY <1>0, <3>1 DEF Held
      <3>3. lead' = lead
        BY <1>2 DEF I!FindLead
      <3> QED BY <1>2, <2>2, <3>1, <3>2, <3>3, Thinking DEF I!FindLead, Early, I!Steps
    <2> QED BY <1>2, <2>1, <2>2 DEF I!FindLead
  <1>3. CASE I!NewLead(c)
    <2>1. I!OwnLead(c) \in I!Leads
      BY <1>0, <1>3 DEF I!NewLead, I!OwnLead, I!Leads, Sound, JobRows
    <2>2. /\ [held[c] EXCEPT !.lead = I!OwnLead(c), !.seen = "new"] \in Held
          /\ [held[c] EXCEPT !.lead = I!OwnLead(c), !.seen = "new"].lead = I!OwnLead(c)
      BY <1>0, <2>1 DEF Held, I!Stages
    <2>3. lead'[I!OwnLead(c)] = "new"
      BY <1>3, <2>1 DEF I!NewLead, I!Written, IntakeInv, IntakeTypes
    <2> QED BY <1>3, <2>1, <2>2, <2>3, Thinking DEF I!NewLead, Early, I!Steps
  <1>4. CASE I!Stage(c)
    <2>1. [held[c] EXCEPT !.seen = "absent"] \in Held
      BY <1>0 DEF Held, I!Stages
    <2> QED BY <1>4, <2>1, Thinking DEF I!Stage, Early, I!Steps
  <1>5. CASE I!Fields(c)
    <2>1. [held[c] EXCEPT !.action = "quote", !.text = TRUE] \in Held
      BY <1>0 DEF Held, I!Answers
    <2>2. PICK h \in Held : I!Goes(c, "dispatch", h)
      BY <1>0, <1>5, <2>1 DEF I!Fields
    <2> QED BY <1>5, <2>2, Thinking DEF I!Fields, Early, I!Steps
  <1>6. CASE I!BridgeFails(c)
    <2>1. /\ rows' = [rows EXCEPT ![c].at = "dispatch"]
          /\ held' = [held EXCEPT ![c].seen = "absent"]
          /\ lead' \in {lead, I!Written(c)} /\ UNCHANGED <<I!deployment, enqueued>>
          /\ cost' = cost \/ I!Fault
          /\ rows[c].at \in I!BridgeSteps
      BY <1>6 DEF I!BridgeFails
    <2>2. /\ rows \in [Messages -> JobRows(I!Steps)] /\ held \in [Messages -> Held]
          /\ cost \in 0 .. MaxCost
      BY DEF IntakeInv, IntakeTypes, Held
    <2>3. cost' \in 0 .. MaxCost /\ cost <= cost'
      BY <2>1, <2>2, ExecutionAssumption, OfficeAssumption DEF I!Fault
    <2>4. rows[c].at # "idle" /\ rows[c].at \in Early \cup {"stage", "fields"}
      BY <2>1 DEF I!BridgeSteps, Early
    <2>5. /\ rows' \in [Messages -> JobRows(I!Steps)]
          /\ \A d \in Messages : d # c => rows'[d] = rows[d]
          /\ At(rows[c], rows'[c], "dispatch")
      BY <2>1, <2>2 DEF JobRows, I!Steps, At
    <2>6. Sound(rows'[c])
      BY <1>0, <2>4, <2>5, SoundRows DEF I!Steps
    <2>7. /\ held' \in [Messages -> Held]
          /\ \A d \in Messages : d # c => held'[d] = held[d]
      BY <2>1, <2>2 DEF Held, I!Stages
    <2>8. MessageTurn(c)
      BY <2>1, <2>3, <2>5, <2>6, <2>7 DEF MessageTurn
    <2>9. rows[c].state = "running"
      BY <1>0, <2>4 DEF Sound
    <2> QED BY <2>1, <2>4, <2>5, <2>8, <2>9 DEF Thinks, At, Early, Acting
  <1> QED BY <1>1, <1>2, <1>3, <1>4, <1>5, <1>6

\* The dispatch of a decision, which leaves the leads alone.
Dispatches(c) ==
    /\ MessageTurn(c)
    /\ rows[c].at = "dispatch" /\ rows[c].state = "running"
    /\ rows'[c].attempts = rows[c].attempts
    /\ \/ cost' = cost /\ rows'[c].at \in Acting /\ held'[c] = held[c]
       \/ cost' = cost + 1 /\ rows'[c].at = "idle" /\ rows'[c].state # "done"
    /\ \/ enqueued' = enqueued /\ I!Downstream(c) = {}
       \/ \E a \in I!Downstream(c) : enqueued' = enqueued \cup {<<a, c>>}
    /\ lead' = lead

\* Dispatch does that.
LEMMA DispatchDoes ==
  ASSUME IntakeInv, NEW c \in Messages, I!Dispatch(c)
  PROVE  Dispatches(c)
  <1>1. PICK step \in {"followUp", "report"} : I!Goes(c, step, held[c])
    BY DEF I!Dispatch
  <1>2. held[c] \in Held /\ Sound(rows[c]) /\ rows[c].at = "dispatch" /\ UNCHANGED I!deployment
    BY DEF IntakeInv, MessageInv, IntakeTypes, Held, I!Dispatch
  <1>3. MessageTurn(c) /\ MessageReaches(c, step, held[c])
    BY <1>1, <1>2, Going DEF I!Steps
  <1>4. rows[c].state = "running"
    BY <1>2 DEF Sound
  <1> QED BY <1>2, <1>3, <1>4 DEF I!Dispatch, Dispatches, MessageReaches, At, Fell, Acting

\* The steps after the dispatch add nothing but the follow-up.
WindsUp(c) ==
    /\ MessageTurn(c)
    /\ rows[c].at \in Acting
    /\ rows'[c].attempts = rows[c].attempts
    /\ \/ cost' = cost /\ rows'[c].at \in Acting /\ held'[c] = held[c]
       \/ cost' = cost + 1 /\ rows'[c].at = "idle" /\ rows'[c].state # "done"
    /\ enqueued' \in {enqueued, enqueued \cup {<<"followUp", c>>}}
    /\ lead' = lead

\* The follow-up and the status do that.
LEMMA WindingUpDoes ==
  ASSUME IntakeInv, NEW c \in Messages, I!ScheduleFollowUp(c) \/ I!AwaitCustomer(c)
  PROVE  WindsUp(c)
  <1>1. PICK step \in {"status", "report"} : I!Goes(c, step, held[c])
    BY DEF I!ScheduleFollowUp, I!AwaitCustomer
  <1>2. held[c] \in Held /\ rows[c].at \in {"followUp", "status"} /\ UNCHANGED I!deployment
    BY DEF IntakeInv, IntakeTypes, Held, I!ScheduleFollowUp, I!AwaitCustomer
  <1>3. MessageTurn(c) /\ MessageReaches(c, step, held[c])
    BY <1>1, <1>2, Going DEF I!Steps
  <1> QED BY <1>2, <1>3
          DEF I!ScheduleFollowUp, I!AwaitCustomer, WindsUp, MessageReaches, At, Fell, Acting

\* A claim begins the next attempt.
MessageBegins(c) ==
    /\ MessageTurn(c)
    /\ cost' = cost
    /\ rows[c].at = "idle" /\ rows[c].state = "ready"
    /\ rows'[c].at = "decide" /\ rows'[c].state = "running"
    /\ rows'[c].attempts = rows[c].attempts + 1
    /\ lead' = lead /\ enqueued' = enqueued

\* Start does that.
LEMMA StartDoes ==
  ASSUME IntakeInv, NEW c \in Messages, I!Start(c)
  PROVE  MessageBegins(c)
  <1>1. /\ Sound(rows[c]) /\ rows \in [Messages -> JobRows(I!Steps)]
        /\ I!Claim(c, "decide") /\ "decide" \in I!Steps /\ "idle" \notin I!Steps
    BY DEF IntakeInv, MessageInv, IntakeTypes, I!Start, I!Steps
  <1>2. /\ rows' \in [Messages -> JobRows(I!Steps)] /\ cost' = cost /\ OnlyRow(c)
        /\ rows[c].state = "ready" /\ rows[c].at = "idle"
        /\ rows'[c] = [state |-> "running", attempts |-> rows[c].attempts + 1, at |-> "decide"]
    <2>1. E!Claim(c, "decide")
      BY <1>1, IntakeQueue
    <2> QED BY <1>1, <2>1, RowClaimed
  <1>3. Sound(rows'[c])
    BY <1>1, <1>2, SoundRows
  <1>4. /\ cost \in 0 .. MaxCost /\ held' = held /\ held \in [Messages -> Held]
        /\ UNCHANGED <<I!deployment, lead, enqueued>>
    BY DEF IntakeInv, IntakeTypes, Held, I!Start
  <1> QED BY <1>1, <1>2, <1>3, <1>4, ExecutionAssumption, OfficeAssumption
          DEF MessageTurn, MessageBegins, OnlyRow

\* An execution ends, done or at the cost of a fault.
MessageFinishes(c) ==
    /\ MessageTurn(c)
    /\ rows'[c].at = "idle"
    /\ rows'[c].attempts = rows[c].attempts
    /\ \/ cost' = cost /\ rows[c].at \in Acting /\ rows'[c].state = "done"
       \/ cost' = cost + 1 /\ rows'[c].state # "done"
    /\ lead' = lead /\ enqueued' = enqueued

\* Completion and failure do that.
LEMMA MessageEndDoes ==
  ASSUME IntakeInv, NEW c \in Messages, I!Ends(c)
  PROVE  MessageFinishes(c)
  <1>1. /\ Sound(rows[c]) /\ rows \in [Messages -> JobRows(I!Steps)]
        /\ cost \in 0 .. MaxCost /\ held \in [Messages -> Held]
    BY DEF IntakeInv, MessageInv, IntakeTypes, Held
  <1>2. /\ held' = [held EXCEPT ![c] = I!Undecided] /\ I!Undecided \in Held
        /\ UNCHANGED <<I!deployment, lead, enqueued>>
    BY DEF I!Ends, I!Undecided, Held, I!Answers, I!NoLead, I!Stages
  <1>3. /\ held' \in [Messages -> Held]
        /\ \A d \in Messages : d # c => held'[d] = held[d]
    BY <1>1, <1>2
  <1>4. CASE I!StepFails(c)
    <2>1. /\ rows' \in [Messages -> JobRows(I!Steps)] /\ cost' \in 0 .. MaxCost
          /\ OnlyRow(c) /\ cost' = cost + 1 /\ Fell(rows[c], rows'[c])
      BY <1>1, <1>4, IntakeQueue, RowStepFails
    <2>2. Sound(rows'[c])
      BY <1>1, <2>1, SoundRows
    <2>3. cost <= cost'
      BY <1>1, <2>1, ExecutionAssumption, OfficeAssumption
    <2> QED BY <1>1, <1>2, <1>3, <2>1, <2>2, <2>3
          DEF MessageFinishes, MessageTurn, Fell, OnlyRow
  <1>5. CASE I!Complete(c)
    <2>1. /\ rows' \in [Messages -> JobRows(I!Steps)] /\ cost' = cost
          /\ OnlyRow(c) /\ rows[c].at = "report"
          /\ rows'[c] = [state |-> "done", attempts |-> rows[c].attempts, at |-> "idle"]
      BY <1>1, <1>5, IntakeQueue, RowEnds
    <2>2. Sound(rows'[c])
      BY <1>1, <2>1, SoundRows
    <2> QED BY <1>1, <1>2, <1>3, <2>1, <2>2, ExecutionAssumption, OfficeAssumption
            DEF MessageFinishes, MessageTurn, OnlyRow, Acting
  <1> QED BY <1>4, <1>5 DEF I!Ends

\* A step is one message's, or the owner's.
LEMMA MessageSteps ==
  ASSUME IntakeInv, I!Next
  PROVE  \/ \E c \in Messages :
               MessageBegins(c) \/ Thinks(c) \/ Dispatches(c) \/ WindsUp(c)
                \/ MessageFinishes(c)
         \/ \E l \in I!Leads : I!OwnerCloses(l)
  <1>1. CASE \E l \in I!Leads : I!OwnerCloses(l)
    BY <1>1
  <1>2. ASSUME NEW c \in Messages, I!Classify(c) \/ I!Ends(c)
        PROVE  MessageBegins(c) \/ Thinks(c) \/ Dispatches(c) \/ WindsUp(c)
                \/ MessageFinishes(c)
    BY <1>2, StartDoes, ThinkingDoes, DispatchDoes, WindingUpDoes, MessageEndDoes DEF I!Classify
  <1> QED BY <1>1, <1>2 DEF I!Next

-----------------------------------------------------------------------------
(* Intake: the leads.                                                      *)

\* What a thinking step writes is its own lead's insert, or a stage of a lead it read.
LEMMA Writing ==
  ASSUME IntakeInv, NEW c \in Messages, Thinks(c)
  PROVE  /\ lead' \in [I!Leads -> I!Stages]
         /\ \A l \in I!Leads :
               \/ lead'[l] = lead[l]
               \/ rows[c].at = "newLead" /\ l = I!OwnLead(c) /\ lead'[l] = "new"
               \/ /\ rows[c].at = "stage" /\ l = held[c].lead /\ I!Advances(c)
                  /\ lead'[l] = I!Target(held[c].action)
  <1>0. lead \in [I!Leads -> I!Stages]
    BY DEF IntakeInv, IntakeTypes
  <1>1. CASE lead' = lead
    BY <1>0, <1>1
  <1>2. CASE lead' = I!Written(c) /\ rows[c].at = "newLead"
    <2>1. lead' = [lead EXCEPT ![I!OwnLead(c)] = "new"]
      BY <1>2 DEF I!Written
    <2> QED BY <1>0, <1>2, <2>1 DEF I!Stages
  <1>3. CASE lead' = I!Written(c) /\ rows[c].at = "stage" /\ I!Advances(c)
    <2>1. lead' = [lead EXCEPT ![held[c].lead] = I!Target(held[c].action)]
      BY <1>3 DEF I!Written
    <2>2. I!Target(held[c].action) \in I!Stages
      BY DEF I!Target, I!Stages
    <2> QED BY <1>0, <1>3, <2>1, <2>2
  <1> QED BY <1>1, <1>2, <1>3 DEF Thinks, I!Written

\* An execution that goes on, or begins, leaves the leads that its message can have.
LEMMA LeadsKept ==
  ASSUME IntakeInv, NEW c \in Messages, Thinks(c), NEW d \in Messages
  PROVE  LeadsSound(d)'
  <1>1. LeadsSound(d) /\ rows[d] \in JobRows(I!Steps)
    BY DEF IntakeInv, MessageInv, IntakeTypes
  <1> SUFFICES ASSUME NEW n \in 1 .. MaxAttempts, lead'[<<d, n>>] # "absent"
               PROVE  \/ n < rows'[d].attempts
                      \/ n = rows'[d].attempts /\ rows'[d].at \notin Early
    BY DEF LeadsSound
  <1>2. <<d, n>> \in I!Leads
    BY DEF I!Leads
  <1>3. CASE d # c
    <2>1. rows'[d] = rows[d] /\ <<d, n>> # I!OwnLead(c)
      BY <1>3 DEF Thinks, MessageTurn, I!OwnLead
    <2>2. lead[<<d, n>>] # "absent"
      <3>1. CASE lead'[<<d, n>>] = lead[<<d, n>>]
        BY <3>1
      <3>2. CASE rows[c].at = "stage" /\ <<d, n>> = held[c].lead
        BY <3>2 DEF IntakeInv, MessageInv, Found
      <3> QED BY <1>2, <2>1, <3>1, <3>2, Writing
    <2> QED BY <1>1, <2>1, <2>2 DEF LeadsSound
  <1>4. CASE d = c
    <2>1. /\ rows'[c].attempts = rows[c].attempts
          /\ rows'[c].at \in Early => rows[c].at \in {"decide", "lead"}
      BY DEF Thinks
    <2>2. CASE lead[<<d, n>>] # "absent"
      BY <1>1, <1>4, <2>1, <2>2 DEF LeadsSound, Early
    <2>3. CASE lead[<<d, n>>] = "absent"
      <3>1. rows[c].at = "newLead" /\ <<d, n>> = I!OwnLead(c)
        BY <1>2, <2>3, Writing DEF IntakeInv, MessageInv, Found
      <3> QED BY <1>4, <2>1, <3>1 DEF I!OwnLead
    <2> QED BY <2>2, <2>3
  <1> QED BY <1>3, <1>4

\* So do the other steps, which write no lead or close one.
LEMMA LeadsStay ==
  ASSUME IntakeInv,
         \A l \in I!Leads : lead'[l] = "absent" <=> lead[l] = "absent",
         NEW d \in Messages,
         \/ rows'[d] = rows[d]
         \/ /\ rows'[d].attempts = rows[d].attempts
            /\ rows'[d].at \in Early => rows[d].at \in Early
         \/ rows'[d].attempts = rows[d].attempts + 1
  PROVE  LeadsSound(d)'
  <1>1. LeadsSound(d) /\ rows[d] \in JobRows(I!Steps)
    BY DEF IntakeInv, MessageInv, IntakeTypes
  <1> SUFFICES ASSUME NEW n \in 1 .. MaxAttempts, lead'[<<d, n>>] # "absent"
               PROVE  \/ n < rows'[d].attempts
                      \/ n = rows'[d].attempts /\ rows'[d].at \notin Early
    BY DEF LeadsSound
  <1>2. lead[<<d, n>>] # "absent"
    BY DEF I!Leads
  <1>3. /\ n \in Nat /\ rows[d].attempts \in Nat
        /\ \/ n < rows[d].attempts
           \/ n = rows[d].attempts /\ rows[d].at \notin Early
    BY <1>1, <1>2, ExecutionAssumption, OfficeAssumption DEF LeadsSound, JobRows
  <1> QED BY <1>3

-----------------------------------------------------------------------------
(* Intake: the actions.                                                    *)

\* A message has finitely many actions.
LEMMA TakenFinite ==
  ASSUME NEW c \in Messages
  PROVE  IsFiniteSet(Taken(c)) /\ Cardinality(Taken(c)) \in Nat
  <1> DEFINE X == {"reply"} \cup ({"question"} \cup {"ask_followup"})
             Y == {"quote"} \cup ({"book"} \cup {"photo"})
             Z == {"details"} \cup ({"schedule"} \cup ({"handoff"} \cup {"callback"}))
  <1>1. Taken(c) \subseteq X \cup (Y \cup Z)
    BY DEF Taken, I!Actions, I!Answers
  <1>2. IsFiniteSet(X) /\ IsFiniteSet(Y) /\ IsFiniteSet(Z)
    BY FS_Singleton, FS_Union
  <1> HIDE DEF X, Y, Z
  <1>3. IsFiniteSet(X \cup (Y \cup Z))
    BY <1>2, FS_Union
  <1> QED BY <1>1, <1>3, FS_Subset, FS_CardinalityType

\* Where no action is added the count stays, as long as an execution that had passed
\* its dispatch has a fault to show when it has not any more.
LEMMA SameCount ==
  ASSUME IntakeInv, NEW c \in Messages, Taken(c)' = Taken(c),
         cost' \in 0 .. MaxCost, cost <= cost',
         Acted(c) => Acted(c)' \/ cost' = cost + 1,
         Acted(c)' => Acted(c)
  PROVE  ActionsSound(c)'
  <1>1. PICK n \in Nat : n = Cardinality(Taken(c))
    BY TakenFinite
  <1>2. PICK f \in Nat : f = cost
    BY ExecutionAssumption, OfficeAssumption DEF IntakeInv, IntakeTypes
  <1>3. PICK g \in Nat : g = cost'
    BY ExecutionAssumption, OfficeAssumption
  <1>4. n <= 1 + f /\ f <= g
    BY <1>1, <1>2, <1>3 DEF IntakeInv, MessageInv, ActionsSound
  <1>5. ASSUME ~Acted(c)' PROVE n <= g
    <2>1. CASE Acted(c)
      <3>1. g = f + 1
        BY <1>2, <1>3, <1>5, <2>1
      <3> QED BY <1>4, <3>1
    <2>2. CASE ~Acted(c)
      <3>1. n <= f
        BY <1>1, <1>2, <2>2 DEF IntakeInv, MessageInv, ActionsSound
      <3> QED BY <1>4, <3>1
    <2> QED BY <2>1, <2>2
  <1>6. n <= 1 + g
    BY <1>4
  <1> QED BY <1>1, <1>3, <1>5, <1>6 DEF ActionsSound

\* The dispatch adds one action at most, and an execution comes to it without one of
\* its own.
LEMMA OneMore ==
  ASSUME IntakeInv, NEW c \in Messages, Dispatches(c)
  PROVE  ActionsSound(c)'
  <1>1. PICK n \in Nat : n = Cardinality(Taken(c))
    BY TakenFinite
  <1>2. PICK f \in Nat : f = cost
    BY ExecutionAssumption, OfficeAssumption DEF IntakeInv, IntakeTypes
  <1>3. PICK g \in Nat : g = cost'
    BY ExecutionAssumption, OfficeAssumption DEF Dispatches, MessageTurn
  <1>4. ~Acted(c)
    BY DEF Dispatches, Acted, Acting
  <1>5. n <= f
    BY <1>1, <1>2, <1>4 DEF IntakeInv, MessageInv, ActionsSound
  <1>6. PICK m \in Nat : m = Cardinality(Taken(c)') /\ m <= n + 1
    <2>1. CASE enqueued' = enqueued
      <3>1. Taken(c)' = Taken(c)
        BY <2>1 DEF Taken
      <3> QED BY <1>1, <3>1
    <2>2. ASSUME NEW a, enqueued' = enqueued \cup {<<a, c>>}
          PROVE  \E m \in Nat : m = Cardinality(Taken(c)') /\ m <= n + 1
      <3>1. Taken(c)' \subseteq Taken(c) \cup {a}
        BY <2>2 DEF Taken
      <3>2. /\ IsFiniteSet(Taken(c) \cup {a})
            /\ Cardinality(Taken(c) \cup {a}) = n \/ Cardinality(Taken(c) \cup {a}) = n + 1
        BY <1>1, TakenFinite, FS_AddElement
      <3>3. /\ Cardinality(Taken(c)') <= Cardinality(Taken(c) \cup {a})
            /\ Cardinality(Taken(c)') \in Nat
        BY <3>1, <3>2, FS_Subset, FS_CardinalityType
      <3> QED BY <3>2, <3>3
    <2> QED BY <2>1, <2>2 DEF Dispatches
  <1>7. f <= g
    BY <1>2, <1>3 DEF Dispatches, MessageTurn
  <1>8. m <= 1 + g
    BY <1>5, <1>6, <1>7
  <1>9. ASSUME ~Acted(c)' PROVE m <= g
    <2>1. g = f + 1
      BY <1>2, <1>3, <1>9 DEF Dispatches, Acted
    <2> QED BY <1>5, <1>6, <2>1
  <1>10. Cardinality(Taken(c))' = m
    BY <1>6
  <1> QED BY <1>3, <1>8, <1>9, <1>10 DEF ActionsSound

-----------------------------------------------------------------------------
(* Intake: the invariant.                                                  *)

\* The types are kept.
LEMMA TypesKept ==
  ASSUME IntakeInv, I!Next \/ UNCHANGED I!vars
  PROVE  IntakeTypes'
  <1>0. IntakeTypes
    BY DEF IntakeInv
  <1>1. CASE UNCHANGED I!vars
    BY <1>0, <1>1 DEF I!vars, I!deployment, IntakeTypes
  <1>2. ASSUME NEW l \in I!Leads, I!OwnerCloses(l) PROVE IntakeTypes'
    BY <1>0, <1>2 DEF I!OwnerCloses, I!deployment, IntakeTypes, I!Stages
  <1>3. ASSUME NEW c \in Messages, MessageTurn(c), lead' \in [I!Leads -> I!Stages],
               enqueued' \subseteq (I!Actions \cup {"followUp"}) \X Messages
        PROVE  IntakeTypes'
    BY <1>0, <1>3 DEF MessageTurn, I!deployment, IntakeTypes, Held
  <1>4. ASSUME NEW c \in Messages,
               MessageBegins(c) \/ Thinks(c) \/ Dispatches(c) \/ WindsUp(c)
                \/ MessageFinishes(c)
        PROVE  IntakeTypes'
    <2>1. /\ lead \in [I!Leads -> I!Stages]
          /\ enqueued \subseteq (I!Actions \cup {"followUp"}) \X Messages
      BY <1>0 DEF IntakeTypes
    <2>2. CASE Thinks(c)
      BY <1>3, <2>1, <2>2, Writing DEF Thinks
    <2>3. CASE MessageBegins(c) \/ MessageFinishes(c) \/ WindsUp(c)
      BY <1>3, <2>1, <2>3 DEF MessageBegins, MessageFinishes, WindsUp
    <2>4. CASE Dispatches(c)
      <3>1. held[c].action \in I!Answers
        BY <1>0 DEF IntakeTypes, Held
      <3>2. I!Downstream(c) \subseteq I!Actions
        BY <3>1 DEF I!Downstream, I!Actions
      <3>3. enqueued' \subseteq (I!Actions \cup {"followUp"}) \X Messages
        BY <2>1, <2>4, <3>2 DEF Dispatches
      <3> QED BY <1>3, <2>1, <2>4, <3>3 DEF Dispatches
    <2> QED BY <1>4, <2>2, <2>3, <2>4
  <1> QED BY <1>1, <1>2, <1>4, MessageSteps

\* A message keeps its part of the invariant while another one's execution, or the
\* owner, takes a step that adds no action of its own.
LEMMA Untouched ==
  ASSUME IntakeInv, IntakeTypes', NEW d \in Messages, rows'[d] = rows[d], held'[d] = held[d],
         cost <= cost', Taken(d)' = Taken(d), enqueued \subseteq enqueued',
         \A l \in I!Leads : lead[l] # "absent" => lead'[l] # "absent",
         LeadsSound(d)'
  PROVE  MessageInv(d)'
  <1>1. Acted(d)' <=> Acted(d)
    BY DEF Acted
  <1>2. ActionsSound(d)'
    BY <1>1, SameCount DEF IntakeTypes
  <1>3. rows'[d].at \in Acting => Kept(held[d], d)'
    BY DEF IntakeInv, MessageInv, Kept
  <1>4. rows'[d].at = "stage" => Found(d)'
    BY DEF IntakeInv, MessageInv, Found
  <1>5. Sound(rows[d])' /\ (rows'[d].at \in Acting => Kept(held[d], d)')
    BY <1>3 DEF IntakeInv, MessageInv
  <1> QED BY <1>2, <1>4, <1>5 DEF MessageInv, Kept

\* What the dispatch enqueues is what was decided.
LEMMA Enqueues ==
  ASSUME IntakeInv, NEW c \in Messages, Dispatches(c), rows'[c].at \in Acting
  PROVE  Kept(held[c], c)'
  <1>1. held'[c] = held[c]
    BY DEF Dispatches, Acting
  <1>2. CASE I!Downstream(c) = {}
    BY <1>1, <1>2 DEF I!Downstream, Kept
  <1>3. ASSUME NEW a \in I!Downstream(c), enqueued' = enqueued \cup {<<a, c>>}
        PROVE  Kept(held[c], c)'
    BY <1>1, <1>3 DEF I!Downstream, Kept
  <1> QED BY <1>2, <1>3 DEF Dispatches

\* An execution's step keeps what the invariant says of its own message.
LEMMA MessageKept ==
  ASSUME IntakeInv, IntakeTypes', NEW c \in Messages,
         MessageBegins(c) \/ Thinks(c) \/ Dispatches(c) \/ WindsUp(c) \/ MessageFinishes(c)
  PROVE  MessageInv(c)'
  <1>0. /\ Sound(rows[c]) /\ (rows[c].at \in Acting => Kept(held[c], c))
        /\ rows[c].at \in I!Steps \cup {"idle"}
    BY DEF IntakeInv, MessageInv, IntakeTypes, JobRows
  <1>1. cost' \in 0 .. MaxCost
    BY DEF IntakeTypes
  <1>2. CASE MessageBegins(c)
    <2>1. Sound(rows[c])' /\ LeadsSound(c)'
      BY <1>2, LeadsStay DEF MessageBegins, MessageTurn
    <2>2. ActionsSound(c)'
      <3>1. Taken(c)' = Taken(c)
        BY <1>2 DEF MessageBegins, Taken
      <3>2. ~Acted(c) /\ ~Acted(c)'
        BY <1>2 DEF MessageBegins, Acted, Acting
      <3> QED BY <1>1, <1>2, <3>1, <3>2, SameCount DEF MessageBegins, MessageTurn
    <2> QED BY <1>2, <2>1, <2>2 DEF MessageBegins, MessageInv, Acting
  <1>3. CASE Thinks(c)
    <2>1. Sound(rows[c])' /\ LeadsSound(c)' /\ (rows'[c].at = "stage" => Found(c)')
      BY <1>3, LeadsKept DEF Thinks, MessageTurn
    <2>2. ActionsSound(c)'
      <3>1. Taken(c)' = Taken(c)
        BY <1>3 DEF Thinks, Taken
      <3>2. ~Acted(c) /\ ~Acted(c)'
        BY <1>0, <1>3 DEF Thinks, Acted, Acting, Early, Sound
      <3> QED BY <1>1, <1>3, <3>1, <3>2, SameCount DEF Thinks, MessageTurn
    <2> QED BY <1>3, <2>1, <2>2 DEF Thinks, MessageInv
  <1>4. CASE Dispatches(c)
    <2>1. Sound(rows[c])' /\ LeadsSound(c)'
      <3>1. rows'[c].at \notin Early
        BY <1>4 DEF Dispatches, Acting, Early
      <3> QED BY <1>4, <3>1, LeadsStay DEF Dispatches, MessageTurn
    <2>2. rows'[c].at # "stage"
      BY <1>4 DEF Dispatches, Acting
    <2> QED BY <1>4, <2>1, <2>2, OneMore, Enqueues DEF MessageInv
  <1>5. CASE WindsUp(c)
    <2>1. Sound(rows[c])' /\ LeadsSound(c)' /\ rows'[c].at # "stage"
      <3>1. rows'[c].at \notin Early \cup {"stage"}
        BY <1>5 DEF WindsUp, Acting, Early
      <3> QED BY <1>5, <3>1, LeadsStay DEF WindsUp, MessageTurn
    <2>2. ActionsSound(c)'
      <3>1. Taken(c)' = Taken(c)
        BY <1>5 DEF WindsUp, Taken, I!Actions, I!Answers
      <3>2. Acted(c) /\ (Acted(c)' \/ cost' = cost + 1)
        BY <1>5 DEF WindsUp, Acted
      <3> QED BY <1>1, <1>5, <3>1, <3>2, SameCount DEF WindsUp, MessageTurn
    <2>3. rows'[c].at \in Acting => Kept(held[c], c)'
      BY <1>0, <1>5 DEF WindsUp, Kept, Acting
    <2> QED BY <2>1, <2>2, <2>3 DEF MessageInv
  <1>6. CASE MessageFinishes(c)
    <2>1. Sound(rows[c])' /\ LeadsSound(c)' /\ rows'[c].at \notin Acting \cup {"stage"}
      <3>1. rows'[c].at \notin Early \cup {"stage"} \cup Acting
        BY <1>6 DEF MessageFinishes, Acting, Early
      <3> QED BY <1>6, <3>1, LeadsStay DEF MessageFinishes, MessageTurn
    <2>2. ActionsSound(c)'
      <3>1. Taken(c)' = Taken(c)
        BY <1>6 DEF MessageFinishes, Taken
      <3>2. /\ Acted(c)' => Acted(c)
            /\ Acted(c) => Acted(c)' \/ cost' = cost + 1
        BY <1>6 DEF MessageFinishes, Acted, Acting
      <3> QED BY <1>1, <1>6, <3>1, <3>2, SameCount DEF MessageFinishes, MessageTurn
    <2> QED BY <2>1, <2>2 DEF MessageInv
  <1> QED BY <1>2, <1>3, <1>4, <1>5, <1>6

\* Every step keeps the invariant.
LEMMA IntakeStep ==
  ASSUME IntakeInv, I!Next \/ UNCHANGED I!vars
  PROVE  IntakeInv'
  <1>1. IntakeTypes' /\ IntakeTypes
    BY TypesKept DEF IntakeInv
  <1>2. CASE UNCHANGED I!vars
    <2>1. UNCHANGED <<rows, held, lead, enqueued, cost>>
      BY <1>2 DEF I!vars
    <2> SUFFICES ASSUME NEW d \in Messages PROVE MessageInv(d)'
      BY <1>1 DEF IntakeInv
    <2>2. LeadsSound(d)'
      BY <2>1, LeadsStay
    <2>3. Taken(d)' = Taken(d) /\ cost <= cost'
      BY <1>1, <2>1, ExecutionAssumption, OfficeAssumption DEF Taken, IntakeTypes
    <2> QED BY <1>1, <2>1, <2>2, <2>3, Untouched
  <1>3. ASSUME NEW l \in I!Leads, I!OwnerCloses(l) PROVE IntakeInv'
    <2>1. UNCHANGED <<rows, held, enqueued, cost>>
      BY <1>3 DEF I!OwnerCloses
    <2>2. \A i \in I!Leads : lead'[i] = "absent" <=> lead[i] = "absent"
      BY <1>1, <1>3 DEF I!OwnerCloses, I!OpenLeads, IntakeTypes
    <2> SUFFICES ASSUME NEW d \in Messages PROVE MessageInv(d)'
      BY <1>1 DEF IntakeInv
    <2>3. LeadsSound(d)'
      BY <2>1, <2>2, LeadsStay
    <2>4. Taken(d)' = Taken(d) /\ cost <= cost'
      BY <1>1, <2>1, ExecutionAssumption, OfficeAssumption DEF Taken, IntakeTypes
    <2> QED BY <1>1, <2>1, <2>2, <2>3, <2>4, Untouched
  <1>4. ASSUME NEW c \in Messages,
               MessageBegins(c) \/ Thinks(c) \/ Dispatches(c) \/ WindsUp(c)
                \/ MessageFinishes(c)
        PROVE  IntakeInv'
    <2>1. MessageTurn(c)
      BY <1>4 DEF MessageBegins, Thinks, Dispatches, WindsUp, MessageFinishes
    <2>2. MessageInv(c)'
      BY <1>1, <1>4, MessageKept
    <2> SUFFICES ASSUME NEW d \in Messages, d # c PROVE MessageInv(d)'
      BY <1>1, <2>2 DEF IntakeInv
    <2>3. rows'[d] = rows[d] /\ held'[d] = held[d] /\ cost <= cost'
      BY <2>1 DEF MessageTurn
    <2>4. Taken(d)' = Taken(d) /\ enqueued \subseteq enqueued'
      BY <1>4 DEF MessageBegins, Thinks, Dispatches, WindsUp, MessageFinishes, Taken
    <2>5. LeadsSound(d)' /\ \A l \in I!Leads : lead[l] # "absent" => lead'[l] # "absent"
      <3>1. CASE Thinks(c)
        BY <3>1, LeadsKept, Writing DEF I!Target
      <3>2. CASE lead' = lead
        BY <2>3, <3>2, LeadsStay
      <3> QED BY <1>4, <3>1, <3>2 DEF MessageBegins, Dispatches, WindsUp, MessageFinishes
    <2> QED BY <1>1, <2>3, <2>4, <2>5, Untouched
  <1> QED BY <1>2, <1>3, <1>4, MessageSteps

\* At first no message has a lead or an action.
LEMMA IntakeInit == ASSUME I!Init PROVE IntakeInv
  <1>1. \A c \in Messages : rows[c] = [state |-> "ready", attempts |-> 0, at |-> "idle"]
    BY DEF I!Init, I!Ready, I!Absent
  <1>2. IntakeTypes
    <2>1. rows \in [Messages -> JobRows(I!Steps)]
      BY <1>1, ExecutionAssumption, OfficeAssumption DEF I!Init, JobRows, JobStates
    <2>2. cost \in 0 .. MaxCost
      BY ExecutionAssumption, OfficeAssumption DEF I!Init
    <2>3. I!Undecided \in Held
      BY DEF I!Undecided, Held, I!Answers, I!NoLead, I!Stages
    <2>4. held \in [Messages -> Held]
      BY <2>3 DEF I!Init
    <2>5. lead \in [I!Leads -> I!Stages]
      BY DEF I!Init, I!Stages
    <2> QED BY <2>1, <2>2, <2>4, <2>5 DEF I!Init, IntakeTypes
  <1>3. ASSUME NEW c \in Messages PROVE MessageInv(c)
    <2>1. Taken(c) = {} /\ cost = 0
      BY DEF Taken, I!Init
    <2>2. ActionsSound(c)
      BY <2>1, FS_EmptySet DEF ActionsSound
    <2>3. Sound(rows[c]) /\ LeadsSound(c)
      BY <1>1, ExecutionAssumption, OfficeAssumption DEF Sound, LeadsSound, I!Init, I!Leads
    <2> QED BY <1>1, <2>2, <2>3 DEF MessageInv, Acting
  <1> QED BY <1>2, <1>3 DEF IntakeInv

-----------------------------------------------------------------------------
(* Intake: what follows.                                                   *)

\* A lead goes back only if it moved between the bridge's read and its write.
LEMMA GoingBack == ASSUME IntakeInv, I!Next PROVE I!GoesBackOnlyByRace
  <1> SUFFICES ASSUME NEW l \in I!Leads, I!Rank(lead'[l]) < I!Rank(lead[l])
               PROVE  \E c \in Messages : /\ rows[c].at = "stage"
                                          /\ held[c].lead = l
                                          /\ held[c].seen # lead[l]
    BY DEF I!GoesBackOnlyByRace
  <1>0. lead[l] \in I!Stages
    BY DEF IntakeInv, IntakeTypes
  <1>1. lead'[l] # lead[l]
    <2>1. I!Rank(lead[l]) \in Nat
      BY <1>0 DEF I!Rank, I!Stages
    <2> QED BY <2>1
  <1>2. ASSUME NEW i \in I!Leads, I!OwnerCloses(i) PROVE FALSE
    <2>1. l = i /\ lead'[l] = "closed"
      BY <1>1, <1>2 DEF I!OwnerCloses, IntakeInv, IntakeTypes
    <2> QED BY <1>0, <2>1 DEF I!Rank, I!Stages
  <1>3. PICK c \in Messages : Thinks(c)
    <2>1. PICK c \in Messages :
            MessageBegins(c) \/ Thinks(c) \/ Dispatches(c) \/ WindsUp(c) \/ MessageFinishes(c)
      BY <1>2, MessageSteps
    <2> QED BY <1>1, <2>1 DEF MessageBegins, Dispatches, WindsUp, MessageFinishes
  <1>4. CASE rows[c].at = "newLead" /\ l = I!OwnLead(c) /\ lead'[l] = "new"
    <2>1. /\ LeadsSound(c) /\ rows[c].attempts \in Nat /\ I!OwnLead(c) \in I!Leads
      BY <1>4, ExecutionAssumption, OfficeAssumption
         DEF IntakeInv, MessageInv, IntakeTypes, JobRows
    <2>2. lead[l] = "absent"
      BY <1>4, <2>1 DEF LeadsSound, I!OwnLead, I!Leads, Early
    <2> QED BY <1>4, <2>2 DEF I!Rank
  <1>5. CASE /\ rows[c].at = "stage" /\ l = held[c].lead /\ I!Advances(c)
             /\ lead'[l] = I!Target(held[c].action)
    <2>1. CASE held[c].seen = lead[l]
      <3>1. lead[l] \in {"new", "contacted"} /\ lead'[l] \in {"contacted", "qualified"}
        BY <1>5, <2>1 DEF I!Advances, I!Target
      <3> QED BY <3>1 DEF I!Rank
    <2> QED BY <1>5, <2>1
  <1> QED BY <1>1, <1>3, <1>4, <1>5, Writing

\* A classification that is done enqueued what it decided, whatever failed in the bridge
\* and whatever an earlier attempt decided: of the decisions that call for a job, only a
\* quote without a lead and a reply or question without a text are dropped.
THEOREM DecisionsAreKept == OfficeSpec => []NoDecisionLost
  <1> DEFINE Inv == chosen = "intake" => IntakeInv
  <1>1. OfficeInit => Inv
    BY IntakeInit DEF OfficeInit
  <1>2. Inv /\ [OfficeNext]_officeVars => Inv'
    BY OneComponent, IntakeStep
  <1>3. Inv => NoDecisionLost
    BY DEF IntakeInv, MessageInv, Kept, Acting, I!NoDecisionLost, NoDecisionLost
  <1> QED BY <1>1, <1>2, <1>3, PTL DEF OfficeSpec

\* A message has one action, and one more for each fault: a retry that decides
\* otherwise is paid for.
THEOREM SecondActions == OfficeSpec => []SecondActionNeedsFault
  <1> DEFINE Inv == chosen = "intake" => IntakeInv
  <1>1. OfficeInit => Inv
    BY IntakeInit DEF OfficeInit
  <1>2. Inv /\ [OfficeNext]_officeVars => Inv'
    BY OneComponent, IntakeStep
  <1>3. Inv => SecondActionNeedsFault
    BY Cardinalities
       DEF IntakeInv, MessageInv, ActionsSound, Taken, I!SecondActionNeedsFault,
           SecondActionNeedsFault
  <1> QED BY <1>1, <1>2, <1>3, PTL DEF OfficeSpec

\* A lead goes back a stage only if it moved between the bridge's read and its write.
THEOREM StagesGoForward == OfficeSpec => LeadGoesBackOnlyByRace
  <1> DEFINE Inv == chosen = "intake" => IntakeInv
             Step == chosen = "intake" => I!GoesBackOnlyByRace
  <1>1. OfficeInit => Inv
    BY IntakeInit DEF OfficeInit
  <1>2. Inv /\ [OfficeNext]_officeVars => Inv'
    BY OneComponent, IntakeStep
  <1>3. Inv /\ [OfficeNext]_officeVars => [Step]_officeVars
    <2> SUFFICES ASSUME Inv, OfficeNext, chosen = "intake" PROVE I!GoesBackOnlyByRace
      OBVIOUS
    <2> QED BY GoingBack DEF OfficeNext
  <1>4. OfficeSpec => [][Step]_officeVars
    BY <1>1, <1>2, <1>3, PTL DEF OfficeSpec
  <1> QED BY <1>4 DEF LeadGoesBackOnlyByRace

-----------------------------------------------------------------------------
(* Upload links.                                                           *)

\* A photo in the conversation is of a request that is over.
Filed == \A c \in photos : request[c].at = "done"

\* The inductive invariant.
UploadsInv == U!TypeOK /\ Filed /\ IsFiniteSet(U!Spent) /\ U!SpentLinkNeedsFault

\* At first no link is used.
LEMMA UploadsInit == ASSUME U!Init PROVE UploadsInv
  <1>1. U!TypeOK /\ Filed
    BY OfficeAssumption DEF U!Init, U!TypeOK, Filed
  <1>2. U!Spent = {} /\ cost = 0
    BY DEF U!Init, U!Spent
  <1> QED BY <1>1, <1>2, FS_EmptySet, Cardinalities DEF UploadsInv, U!SpentLinkNeedsFault

\* A step of request c leaves the links alone, or uses that of c.
LEMMA UploadsStepDoes ==
  ASSUME U!TypeOK, Filed, U!Next
  PROVE  /\ U!TypeOK' /\ Filed'
         /\ \/ cost' = cost /\ U!Spent' \subseteq U!Spent
            \/ cost' = cost + 1 /\ \E t : U!Spent' \subseteq U!Spent \cup {t}
  <1>1. ASSUME NEW t \in Tokens, U!RequestLink(t) \/ U!Expires(t)
        PROVE  U!TypeOK' /\ Filed' /\ cost' = cost /\ U!Spent' \subseteq U!Spent
    <2>0. token' \in [Tokens -> [there : BOOLEAN, used : BOOLEAN, expired : BOOLEAN]]
      <3> DEFINE Row == [there : BOOLEAN, used : BOOLEAN, expired : BOOLEAN]
      <3>1. PICK row : /\ row = [token[t] EXCEPT !.there = TRUE]
                          \/ row = [token[t] EXCEPT !.expired = TRUE]
                       /\ token' = [token EXCEPT ![t] = row]
        BY <1>1 DEF U!RequestLink, U!Expires
      <3>2. token \in [Tokens -> Row]
        BY DEF U!TypeOK
      <3>3. PICK old \in Row : old = token[t]
        BY <3>2
      <3>4. [old EXCEPT !.there = TRUE] \in Row /\ [old EXCEPT !.expired = TRUE] \in Row
        OBVIOUS
      <3>5. row \in Row
        BY <3>1, <3>3, <3>4
      <3> HIDE DEF Row
      <3>6. token' \in [Tokens -> Row]
        BY <3>1, <3>2, <3>5
      <3> QED BY <3>6 DEF Row
    <2>1. U!TypeOK' /\ Filed'
      BY <1>1, <2>0 DEF U!RequestLink, U!Expires, U!TypeOK, Filed
    <2>2. \A u \in Tokens : token'[u].used = token[u].used
      BY <1>1 DEF U!RequestLink, U!Expires, U!TypeOK
    <2>3. UNCHANGED <<request, photos, cost>>
      BY <1>1 DEF U!RequestLink, U!Expires
    <2> QED BY <2>1, <2>2, <2>3 DEF U!Spent
  <1>2. ASSUME NEW c \in Customers, NEW t \in Tokens, U!Info(c, t)
        PROVE  U!TypeOK' /\ Filed' /\ cost' = cost /\ U!Spent' \subseteq U!Spent
    <2>1. U!TypeOK' /\ Filed' /\ c \notin photos
      BY <1>2 DEF U!Info, U!TypeOK, Filed
    <2>2. /\ \A d \in Customers \ {c} : request'[d] = request[d]
          /\ request[c].at = "idle" /\ UNCHANGED <<token, photos, cost>>
      BY <1>2 DEF U!Info, U!TypeOK
    <2> QED BY <2>1, <2>2 DEF U!Spent
  <1>3. ASSUME NEW c \in Customers, U!CompleteReads(c) \/ U!Resend(c)
        PROVE  U!TypeOK' /\ Filed' /\ cost' = cost /\ U!Spent' \subseteq U!Spent
    <2>0. PICK at \in {"refused", "mark", "uploading"} :
            /\ request[c].at \in {"uploading", "failed"}
            /\ request' = [request EXCEPT ![c].at = at]
            /\ UNCHANGED <<token, photos, cost>>
      BY <1>3 DEF U!CompleteReads, U!Resend
    <2>1. U!TypeOK' /\ Filed'
      BY <2>0 DEF U!TypeOK, Filed
    <2>2. /\ \A d \in Customers : request'[d].token = request[d].token
          /\ \A d \in Customers : request[d].at = "message" => request'[d].at = "message"
          /\ UNCHANGED <<token, photos, cost>>
      BY <2>0 DEF U!TypeOK
    <2> QED BY <2>1, <2>2 DEF U!Spent
  <1>4. ASSUME NEW c \in Customers, U!CompleteMarks(c)
        PROVE  U!TypeOK' /\ Filed' /\ cost' = cost /\ U!Spent' \subseteq U!Spent
    <2>1. U!TypeOK' /\ Filed'
      BY <1>4 DEF U!CompleteMarks, U!Marked, U!TypeOK, Filed
    <2>2. /\ \A d \in Customers : request'[d].token = request[d].token
          /\ \A d \in Customers \ {c} : request'[d].at = request[d].at
          /\ request[c].at = "mark" /\ request'[c].at = "message"
          /\ UNCHANGED <<photos, cost>>
      BY <1>4 DEF U!CompleteMarks, U!TypeOK
    <2>3. \A u \in Tokens : u # request[c].token => token'[u] = token[u]
      BY <1>4 DEF U!CompleteMarks, U!Marked, U!TypeOK
    <2> QED BY <2>1, <2>2, <2>3 DEF U!Spent
  <1>5. ASSUME NEW c \in Customers, U!CompleteFiles(c)
        PROVE  U!TypeOK' /\ Filed' /\ cost' = cost /\ U!Spent' \subseteq U!Spent
    <2>1. U!TypeOK' /\ Filed'
      BY <1>5 DEF U!CompleteFiles, U!TypeOK, Filed
    <2>2. /\ \A d \in Customers : request'[d].token = request[d].token
          /\ \A d \in Customers \ {c} : request'[d].at = request[d].at
          /\ photos' = photos \cup {c} /\ UNCHANGED <<token, cost>>
      BY <1>5 DEF U!CompleteFiles, U!TypeOK
    <2> QED BY <2>1, <2>2 DEF U!Spent
  <1>6. ASSUME NEW c \in Customers, U!CompleteFails(c)
        PROVE  U!TypeOK' /\ Filed' /\ cost' = cost + 1
               /\ \E t : U!Spent' \subseteq U!Spent \cup {t}
    <2> DEFINE at == IF request[c].at = "message" THEN "done" ELSE "failed"
    <2>0. /\ request[c].at \in {"uploading", "mark", "message"}
          /\ \/ photos' = photos
             \/ request[c].at = "message" /\ photos' = photos \cup {c}
          /\ cost < MaxCost /\ cost' = cost + 1
      BY <1>6 DEF U!CompleteFails
    <2>8. request' = [request EXCEPT ![c].at = at]
      <3>1. request' = [request EXCEPT ![c].at = IF @ = "message" THEN "done" ELSE "failed"]
        BY <1>6 DEF U!CompleteFails
      <3>2. CASE request[c].at = "message"
        BY <3>1, <3>2
      <3>3. CASE request[c].at # "message"
        BY <3>1, <3>3
      <3> QED BY <3>2, <3>3
    <2>7. token' = token \/ token' = [token EXCEPT ![request[c].token].used = TRUE]
      BY <1>6 DEF U!CompleteFails, U!Marked
    <2>1. /\ \A d \in Customers : request'[d].token = request[d].token
          /\ \A d \in Customers \ {c} : request'[d].at = request[d].at
          /\ request'[c].at = at
      BY <2>8 DEF U!TypeOK
    <2>2. \A u \in Tokens : u # request[c].token => token'[u] = token[u]
      BY <2>7 DEF U!TypeOK
    <2>3. U!Spent' \subseteq U!Spent \cup {request[c].token}
      BY <2>0, <2>1, <2>2 DEF U!Spent
    <2>4. token' \in [Tokens -> [there : BOOLEAN, used : BOOLEAN, expired : BOOLEAN]]
      <3>1. CASE token' = [token EXCEPT ![request[c].token].used = TRUE]
        BY <3>1 DEF U!TypeOK
      <3> QED BY <2>7, <3>1 DEF U!TypeOK
    <2>5. U!TypeOK'
      BY <2>0, <2>4, <2>8, OfficeAssumption DEF U!TypeOK
    <2>6. Filed'
      BY <2>0, <2>1 DEF Filed, U!TypeOK
    <2> QED BY <2>0, <2>3, <2>5, <2>6
  <1> QED BY <1>1, <1>2, <1>3, <1>4, <1>5, <1>6 DEF U!Next

\* The invariant is kept.
LEMMA UploadsStep == ASSUME UploadsInv, U!Next \/ UNCHANGED U!vars PROVE UploadsInv'
  <1>1. CASE UNCHANGED U!vars
    BY <1>1 DEF U!vars, UploadsInv, U!TypeOK, Filed, U!Spent, U!SpentLinkNeedsFault
  <1>2. CASE U!Next
    <2>1. cost \in Nat /\ cost' \in Nat
      BY <1>2, UploadsStepDoes, OfficeAssumption DEF UploadsInv, U!TypeOK
    <2>2. IsFiniteSet(U!Spent) /\ Cardinality(U!Spent) <= cost
      BY Cardinalities DEF UploadsInv, U!SpentLinkNeedsFault
    <2>3. /\ U!TypeOK' /\ Filed'
          /\ \/ cost' = cost /\ U!Spent' \subseteq U!Spent
             \/ cost' = cost + 1 /\ \E t : U!Spent' \subseteq U!Spent \cup {t}
      BY <1>2, UploadsStepDoes DEF UploadsInv
    <2>4. IsFiniteSet(U!Spent') /\ Cardinality(U!Spent') <= cost'
      <3>1. /\ cost <= cost'
            /\ \/ U!Spent' \subseteq U!Spent
               \/ cost' = cost + 1 /\ \E t : U!Spent' \subseteq U!Spent \cup {t}
        BY <2>1, <2>3
      <3> QED BY <2>1, <2>2, <3>1, PaidFor
    <2> QED BY <2>3, <2>4, Cardinalities DEF UploadsInv, U!SpentLinkNeedsFault
  <1> QED BY <1>1, <1>2

\* An upload link used up without a photo in the conversation cost a fault: two requests
\* that use one link at a time, and links that expire meanwhile, do not.
THEOREM SpentLinks == OfficeSpec => []SpentLinkNeedsFault
  <1> DEFINE Inv == chosen = "uploads" => UploadsInv
  <1>1. OfficeInit => Inv
    BY UploadsInit DEF OfficeInit
  <1>2. Inv /\ [OfficeNext]_officeVars => Inv'
    BY OneComponent, UploadsStep
  <1>3. Inv => SpentLinkNeedsFault
    BY DEF UploadsInv, SpentLinkNeedsFault
  <1> QED BY <1>1, <1>2, <1>3, PTL DEF OfficeSpec

-----------------------------------------------------------------------------
(* The calendar's connection.                                              *)

\* A request writes back what it read, its round trip or the renewed token added.
WritesBack(r) ==
    /\ request'[r].at # request[r].at
    /\ \/ request[r].at = "auth" /\ document' = [request[r].read EXCEPT !.oauth = r]
       \/ /\ request[r].at = "refresh"
          /\ \/ document' = [request[r].read EXCEPT !.access = request[r].used]
             \/ document' = [request[r].read EXCEPT !.access = request[r].used,
                                                    !.refresh = request[r].used]

\* A step leaves the document alone, writes a sound one, or is a request's that writes
\* back what it read.
LEMMA SettingsStepDoes ==
  ASSUME S!TypeOK, S!Next
  PROVE  \/ document' = document
         \/ S!Sound(document')
         \/ \E r \in S!Requests : WritesBack(r)
  <1> USE DEF S!Requests
  <1>1. ASSUME NEW r \in Connects, S!AuthReads(r) \/ S!CallbackReads(r)
        PROVE  document' = document
    BY <1>1 DEF S!AuthReads, S!CallbackReads
  <1>2. ASSUME NEW r \in Connects, S!AuthWrites(r)
        PROVE  WritesBack(r)
    <2>1. request'[r].at = "away"
      BY <1>2 DEF S!AuthWrites, S!TypeOK, S!Fresh
    <2> QED BY <1>2, <2>1 DEF S!AuthWrites, WritesBack
  <1>3. ASSUME NEW r \in Connects, S!CallbackWrites(r) PROVE S!Sound(document')
    BY <1>3, OfficeAssumption DEF S!CallbackWrites, S!Writes, S!Sound, S!Nobody
  <1>4. ASSUME NEW r \in Disconnects, S!DisconnectReads(r) PROVE document' = document
    BY <1>4 DEF S!DisconnectReads
  <1>5. ASSUME NEW r \in Disconnects, S!DisconnectWrites(r) PROVE S!Sound(document')
    BY <1>5 DEF S!DisconnectWrites, S!Writes, S!Sound, S!Unset
  <1>6. ASSUME NEW r \in Refreshes, S!RefreshPosts(r) \/ S!RefreshReads(r)
        PROVE  document' = document
    BY <1>6 DEF S!RefreshPosts, S!RefreshReads
  <1>7. ASSUME NEW r \in Refreshes, S!RefreshWrites(r)
        PROVE  WritesBack(r)
    <2>1. request'[r].at = "done"
      BY <1>7 DEF S!RefreshWrites, S!Writes, S!Over, S!TypeOK, S!Fresh
    <2> QED BY <1>7, <2>1 DEF S!RefreshWrites, S!Writes, WritesBack
  <1>8. ASSUME NEW r \in S!Requests, S!Fails(r) PROVE document' = document
    BY <1>8 DEF S!Fails
  <1> QED BY <1>1, <1>2, <1>3, <1>4, <1>5, <1>6, <1>7, <1>8 DEF S!Next

\* What is written over a sound document by a request that read a sound one, and was
\* answered for the account it read, is sound.
LEMMA MixingNeedsRefresh == ASSUME S!TypeOK, S!Next PROVE S!MixesOnlyByRefresh
  <1> SUFFICES ASSUME S!Sound(document), ~S!Sound(document')
               PROVE  \E r \in S!Requests :
                         /\ request'[r].at # request[r].at
                         /\ \/ /\ request[r].at = "refresh"
                               /\ request[r].used # request[r].read.refresh
                            \/ /\ request[r].at \in {"auth", "refresh"}
                               /\ ~S!Sound(request[r].read)
    BY DEF S!MixesOnlyByRefresh
  <1>1. PICK r \in S!Requests : WritesBack(r)
    BY SettingsStepDoes DEF S!Sound
  <1>2. request[r].read \in S!Documents
    <2>1. request[r] \in [at : {"idle", "auth", "away", "exchange", "revoke", "post",
                              "refresh", "done"},
                        read : S!Documents, used : S!Accounts]
      BY DEF S!TypeOK
    <2> QED BY <2>1
  <1>3. CASE request[r].at = "auth" /\ document' = [request[r].read EXCEPT !.oauth = r]
    BY <1>1, <1>2, <1>3 DEF S!Sound, S!Documents, WritesBack
  <1>4. CASE /\ request[r].at = "refresh"
             /\ document' = [request[r].read EXCEPT !.access = request[r].used]
    BY <1>1, <1>2, <1>4 DEF S!Sound, S!Documents, WritesBack
  <1>5. CASE /\ request[r].at = "refresh"
             /\ document' = [request[r].read EXCEPT !.access = request[r].used,
                                                    !.refresh = request[r].used]
    BY <1>1, <1>2, <1>5 DEF S!Sound, S!Documents, WritesBack
  <1> QED BY <1>1, <1>3, <1>4, <1>5 DEF WritesBack

\* The documents that are written are documents.
LEMMA DocumentsWritten ==
  ASSUME NEW d \in S!Documents, NEW r \in S!Accounts
  PROVE  /\ [d EXCEPT !.oauth = r] \in S!Documents
         /\ [d EXCEPT !.access = r] \in S!Documents
         /\ [d EXCEPT !.access = r, !.refresh = r] \in S!Documents
         /\ S!Unset \in S!Documents
         /\ [S!Unset EXCEPT !.oauth = d.oauth] \in S!Documents
         /\ \A c \in Connects : [oauth |-> S!Nobody, connected |-> TRUE, access |-> c,
                                 refresh |-> c] \in S!Documents
         /\ d.refresh \in S!Accounts
  BY DEF S!Documents, S!Accounts, S!Unset

\* What a request may be.
Request == [at : {"idle", "auth", "away", "exchange", "revoke", "post", "refresh", "done"},
            read : S!Documents, used : S!Accounts]

\* What a step writes to the document and to its request has the type of each.
LEMMA SettingsWrites ==
  ASSUME S!TypeOK, S!Next
  PROVE  /\ document' \in S!Documents
         /\ \E r \in S!Requests, q \in Request : request' = [request EXCEPT ![r] = q]
  <1> USE DEF S!Requests
  <1>0. /\ request \in [S!Requests -> Request] /\ document \in S!Documents
        /\ S!Nobody \in S!Accounts /\ Connects \subseteq S!Accounts
    BY DEF S!TypeOK, Request, S!Accounts
  <1>1. ASSUME NEW r \in S!Requests,
               NEW at \in {"auth", "exchange", "revoke", "refresh"}, S!Reads(r, at)
        PROVE  \E q \in Request : request' = [request EXCEPT ![r] = q]
    <2>1. [request[r] EXCEPT !.at = at, !.read = document] \in Request
      BY <1>0 DEF Request
    <2>2. [request EXCEPT ![r].at = at, ![r].read = document]
             = [request EXCEPT ![r] = [request[r] EXCEPT !.at = at, !.read = document]]
      BY <1>0
    <2> QED BY <1>1, <2>1, <2>2 DEF S!Reads
  <1>2. ASSUME NEW r \in S!Requests, NEW at \in {"away", "done"},
               request' = [request EXCEPT ![r] = [S!Fresh EXCEPT !.at = at]]
        PROVE  \E q \in Request : request' = [request EXCEPT ![r] = q]
    <2>1. [S!Fresh EXCEPT !.at = at] \in Request
      BY <1>0, DocumentsWritten DEF S!Fresh, Request
    <2> QED BY <1>2, <2>1
  <1>3. ASSUME NEW r \in Connects, S!AuthReads(r) \/ S!CallbackReads(r)
        PROVE  document' = document /\ \E q \in Request : request' = [request EXCEPT ![r] = q]
    BY <1>1, <1>3 DEF S!AuthReads, S!CallbackReads
  <1>4. ASSUME NEW r \in Connects, S!AuthWrites(r)
        PROVE  /\ document' \in S!Documents
               /\ \E q \in Request : request' = [request EXCEPT ![r] = q]
    <2>1. request[r].read \in S!Documents /\ r \in S!Accounts
      BY <1>0 DEF Request
    <2> QED BY <1>2, <1>4, <2>1, DocumentsWritten DEF S!AuthWrites
  <1>5. ASSUME NEW r \in Connects, S!CallbackWrites(r)
        PROVE  /\ document' \in S!Documents
               /\ \E q \in Request : request' = [request EXCEPT ![r] = q]
    BY <1>0, <1>2, <1>5, DocumentsWritten DEF S!CallbackWrites, S!Writes, S!Over
  <1>6. ASSUME NEW r \in Disconnects, S!DisconnectReads(r)
        PROVE  document' = document /\ \E q \in Request : request' = [request EXCEPT ![r] = q]
    BY <1>1, <1>6 DEF S!DisconnectReads
  <1>7. ASSUME NEW r \in Disconnects, S!DisconnectWrites(r)
        PROVE  /\ document' \in S!Documents
               /\ \E q \in Request : request' = [request EXCEPT ![r] = q]
    <2>1. request[r].read \in S!Documents
      BY <1>0 DEF Request
    <2> QED BY <1>0, <1>2, <1>7, <2>1, DocumentsWritten
            DEF S!DisconnectWrites, S!Writes, S!Over
  <1>8. ASSUME NEW r \in Refreshes, S!RefreshPosts(r)
        PROVE  document' = document /\ \E q \in Request : request' = [request EXCEPT ![r] = q]
    <2>1. [request[r] EXCEPT !.at = "post", !.used = document.refresh] \in Request
      BY <1>0, DocumentsWritten DEF Request
    <2>2. [request EXCEPT ![r].at = "post", ![r].used = document.refresh]
             = [request EXCEPT ![r] = [request[r] EXCEPT !.at = "post",
                                                         !.used = document.refresh]]
      BY <1>0
    <2> QED BY <1>8, <2>1, <2>2 DEF S!RefreshPosts
  <1>9. ASSUME NEW r \in Refreshes, S!RefreshReads(r)
        PROVE  document' = document /\ \E q \in Request : request' = [request EXCEPT ![r] = q]
    BY <1>1, <1>9 DEF S!RefreshReads
  <1>10. ASSUME NEW r \in Refreshes, S!RefreshWrites(r)
         PROVE  /\ document' \in S!Documents
                /\ \E q \in Request : request' = [request EXCEPT ![r] = q]
    <2>1. request[r].read \in S!Documents /\ request[r].used \in S!Accounts
      BY <1>0 DEF Request
    <2>2. /\ \/ document' = [request[r].read EXCEPT !.access = request[r].used]
             \/ document' = [request[r].read EXCEPT !.access = request[r].used,
                                                    !.refresh = request[r].used]
          /\ request' = [request EXCEPT ![r] = [S!Fresh EXCEPT !.at = "done"]]
      BY <1>10 DEF S!RefreshWrites, S!Writes, S!Over
    <2> QED BY <1>2, <2>1, <2>2, DocumentsWritten
  <1>11. ASSUME NEW r \in S!Requests, S!Fails(r)
         PROVE  document' = document /\ \E q \in Request : request' = [request EXCEPT ![r] = q]
    BY <1>2, <1>11 DEF S!Fails, S!Over
  <1> QED BY <1>0, <1>3, <1>4, <1>5, <1>6, <1>7, <1>8, <1>9, <1>10, <1>11 DEF S!Next

\* Every variable keeps its type.
LEMMA SettingsTypes == ASSUME S!TypeOK, S!Next \/ UNCHANGED S!vars PROVE S!TypeOK'
  <1>1. CASE UNCHANGED S!vars
    BY <1>1 DEF S!vars, S!TypeOK
  <1>2. CASE S!Next
    <2>1. PICK r \in S!Requests, q \in Request : request' = [request EXCEPT ![r] = q]
      BY <1>2, SettingsWrites
    <2>2. request' \in [S!Requests -> Request]
      BY <2>1 DEF S!TypeOK, Request
    <2> QED BY <1>2, <2>2, SettingsWrites DEF S!TypeOK, Request
  <1> QED BY <1>1, <1>2

\* So they have it at first.
LEMMA SettingsInit == ASSUME S!Init PROVE S!TypeOK
  <1>1. S!Unset \in S!Documents /\ S!Nobody \in S!Accounts
    BY DEF S!Documents, S!Accounts, S!Unset
  <1>2. S!Fresh \in Request
    BY <1>1 DEF S!Fresh, Request
  <1> QED BY <1>1, <1>2 DEF S!Init, S!TypeOK, Request

\* The two tokens become those of two accounts only by a refresh that was answered for
\* another account than the one connected, or that read them broken: no other order of
\* connecting, disconnecting and refreshing does it.
THEOREM TokensOfOneAccount == OfficeSpec => TokensMixedOnlyByRefresh
  <1> DEFINE Inv == chosen = "settings" => S!TypeOK
  <1>1. OfficeInit => Inv
    BY SettingsInit DEF OfficeInit
  <1>2. Inv /\ [OfficeNext]_officeVars => Inv'
    BY OneComponent, SettingsTypes
  <1>3. Inv /\ [OfficeNext]_officeVars =>
           [chosen = "settings" => S!MixesOnlyByRefresh]_officeVars
    BY MixingNeedsRefresh DEF OfficeNext
  <1>4. OfficeSpec => [][chosen = "settings" => S!MixesOnlyByRefresh]_officeVars
    BY <1>1, <1>2, <1>3, PTL DEF OfficeSpec
  <1> QED BY <1>4 DEF TokensMixedOnlyByRefresh

-----------------------------------------------------------------------------
(* The evening mail.                                                       *)

\* The loops that are done with business b for day d: they remember the day, or mailed
\* someone and have b behind them.  (A loop that mailed nobody may yet try again.)
Served(b, d) ==
    {p \in Loops : \/ lastSent[p] >= d
                   \/ left[p].day = d /\ b \notin left[p].businesses /\ left[p].count > 0}

\* The variables' types, but for the count's bound.
SummariesTypes ==
    /\ today \in M!Days
    /\ lastSent \in [Loops -> Nat]
    /\ left \in [Loops -> [businesses : SUBSET Businesses, day : Nat, count : Nat]]
    /\ mails \in [Businesses \X M!Days -> Nat]
    /\ restarts \in Nat /\ cost \in Nat

\* A loop is at no day but one it has not done, none of them to come.
DaysSound(p) ==
    /\ lastSent[p] <= today /\ left[p].day <= today
    /\ IF left[p].day = 0 THEN left[p] = M!Waiting ELSE lastSent[p] < left[p].day

\* Every mail is paid for by a loop, a restart or a fault.
MailsPaid ==
    \A b \in Businesses, d \in M!Days :
        mails[<<b, d>>] <= Cardinality(Served(b, d)) + restarts + cost

\* The inductive invariant.
SummariesInv == SummariesTypes /\ (\A p \in Loops : DaysSound(p)) /\ MailsPaid

\* The loops that served are finitely many.
LEMMA ServedFinite ==
  ASSUME NEW b, NEW d
  PROVE  /\ IsFiniteSet(Served(b, d)) /\ Cardinality(Served(b, d)) \in Nat
         /\ Cardinality(Served(b, d)) <= Cardinality(Loops)
         /\ IsFiniteSet(Served(b, d)') /\ Cardinality(Served(b, d)') \in Nat
  <1>1. Served(b, d) \subseteq Loops /\ Served(b, d)' \subseteq Loops
    BY DEF Served
  <1> QED BY <1>1, FS_Subset, FS_CardinalityType, OfficeAssumption

\* Among finitely many, those that were counted are counted, and one who was not is one
\* more.
LEMMA Counted ==
  ASSUME NEW P, NEW T, IsFiniteSet(T), P \subseteq T
  PROVE  /\ Cardinality(P) \in Nat /\ Cardinality(T) \in Nat
         /\ Cardinality(P) <= Cardinality(T)
         /\ \A x \in T \ P : Cardinality(P) + 1 <= Cardinality(T)
  <1>1. /\ IsFiniteSet(P) /\ Cardinality(P) <= Cardinality(T)
        /\ Cardinality(P) \in Nat /\ Cardinality(T) \in Nat
    BY FS_Subset, FS_CardinalityType
  <1>2. ASSUME NEW x \in T \ P PROVE Cardinality(P) + 1 <= Cardinality(T)
    <2>1. Cardinality(P \cup {x}) = Cardinality(P) + 1
      BY <1>1, <1>2, FS_AddElement
    <2>2. P \cup {x} \subseteq T
      BY <1>2
    <2> QED BY <2>1, <2>2, FS_Subset
  <1> QED BY <1>1, <1>2

\* Whoever leaves a set is one at most.
LEMMA OneLeaves ==
  ASSUME NEW P, NEW T, IsFiniteSet(P), IsFiniteSet(T), NEW x, P \subseteq T \cup {x}
  PROVE  /\ Cardinality(P) \in Nat /\ Cardinality(T) \in Nat
         /\ Cardinality(P) <= Cardinality(T) + 1
  <1>1. /\ IsFiniteSet(T \cup {x})
        /\ Cardinality(T \cup {x}) = IF x \in T THEN Cardinality(T) ELSE Cardinality(T) + 1
    BY FS_AddElement
  <1>2. Cardinality(P) <= Cardinality(T \cup {x})
    BY <1>1, FS_Subset
  <1>3. Cardinality(P) \in Nat /\ Cardinality(T) \in Nat
    BY FS_CardinalityType
  <1> QED BY <1>1, <1>2, <1>3

\* No mail has been sent at first.
LEMMA SummariesInit == ASSUME M!Init PROVE SummariesInv
  <1>1. SummariesTypes
    BY OfficeAssumption DEF M!Init, M!Days, M!Waiting, SummariesTypes
  <1>2. \A p \in Loops : DaysSound(p)
    BY DEF M!Init, M!Waiting, DaysSound
  <1>3. MailsPaid
    <2> SUFFICES ASSUME NEW b \in Businesses, NEW d \in M!Days
                 PROVE  mails[<<b, d>>] <= Cardinality(Served(b, d)) + restarts + cost
      BY DEF MailsPaid
    <2>1. mails[<<b, d>>] = 0 /\ restarts = 0 /\ cost = 0
      BY DEF M!Init
    <2> QED BY <2>1, ServedFinite
  <1> QED BY <1>1, <1>2, <1>3 DEF SummariesInv

\* The mails stay paid for if none was sent and a loop that no longer counts as having
\* served was started anew, ...
LEMMA PaidWithoutMail ==
  ASSUME SummariesTypes, MailsPaid, mails' = mails, cost' = cost,
         \/ restarts' = restarts
            /\ \A b \in Businesses, d \in M!Days : Served(b, d) \subseteq Served(b, d)'
         \/ restarts' = restarts + 1
            /\ \E p : \A b \in Businesses, d \in M!Days :
                    Served(b, d) \subseteq Served(b, d)' \cup {p}
  PROVE  MailsPaid'
  <1> SUFFICES ASSUME NEW b \in Businesses, NEW d \in M!Days
               PROVE  mails[<<b, d>>] <= Cardinality(Served(b, d)') + restarts' + cost
    BY DEF MailsPaid
  <1>1. /\ IsFiniteSet(Served(b, d)) /\ Cardinality(Served(b, d)) \in Nat
        /\ IsFiniteSet(Served(b, d)') /\ Cardinality(Served(b, d)') \in Nat
    BY ServedFinite
  <1>2. /\ mails[<<b, d>>] \in Nat /\ restarts \in Nat /\ cost \in Nat
        /\ mails[<<b, d>>] <= Cardinality(Served(b, d)) + restarts + cost
    BY DEF SummariesTypes, MailsPaid
  <1>3. CASE restarts' = restarts /\ Served(b, d) \subseteq Served(b, d)'
    BY <1>1, <1>2, <1>3, FS_Subset
  <1>4. ASSUME restarts' = restarts + 1, NEW p, Served(b, d) \subseteq Served(b, d)' \cup {p}
        PROVE  mails[<<b, d>>] <= Cardinality(Served(b, d)') + restarts' + cost
    <2>1. Cardinality(Served(b, d)) <= Cardinality(Served(b, d)') + 1
      BY <1>1, <1>4, OneLeaves
    <2> QED BY <1>1, <1>2, <1>4, <2>1
  <1> QED BY <1>3, <1>4

\* ... and if one was, by a loop that had not served, or that paid a fault.
LEMMA PaidWithMail ==
  ASSUME SummariesTypes, MailsPaid, restarts' = restarts,
         NEW b \in Businesses, NEW d \in M!Days, NEW p,
         mails' = [mails EXCEPT ![<<b, d>>] = @ + 1],
         \A c \in Businesses, e \in M!Days : Served(c, e) \subseteq Served(c, e)',
         \/ cost' = cost + 1
         \/ cost' = cost /\ p \in Served(b, d)' \ Served(b, d)
  PROVE  MailsPaid'
  <1> SUFFICES ASSUME NEW c \in Businesses, NEW e \in M!Days
               PROVE  mails'[<<c, e>>] <= Cardinality(Served(c, e)') + restarts + cost'
    BY DEF MailsPaid
  <1>0. Served(c, e) \subseteq Served(c, e)' /\ IsFiniteSet(Served(c, e)')
    BY ServedFinite
  <1>1. /\ Cardinality(Served(c, e)) \in Nat /\ Cardinality(Served(c, e)') \in Nat
        /\ Cardinality(Served(c, e)) <= Cardinality(Served(c, e)')
        /\ \A x \in Served(c, e)' \ Served(c, e) :
              Cardinality(Served(c, e)) + 1 <= Cardinality(Served(c, e)')
    BY <1>0, Counted
  <1>2. /\ mails[<<c, e>>] \in Nat /\ restarts \in Nat /\ cost \in Nat
        /\ mails[<<c, e>>] <= Cardinality(Served(c, e)) + restarts + cost
    BY DEF SummariesTypes, MailsPaid
  <1>3. CASE <<c, e>> # <<b, d>>
    <2>1. mails'[<<c, e>>] = mails[<<c, e>>]
      BY <1>3 DEF SummariesTypes
    <2> QED BY <1>1, <1>2, <2>1
  <1>4. CASE <<c, e>> = <<b, d>>
    <2>1. c = b /\ e = d /\ mails'[<<c, e>>] = mails[<<c, e>>] + 1
      BY <1>4 DEF SummariesTypes
    <2>2. CASE cost' = cost + 1
      BY <1>1, <1>2, <2>1, <2>2
    <2>3. CASE cost' = cost /\ p \in Served(b, d)' \ Served(b, d)
      <3>1. Cardinality(Served(c, e)) + 1 <= Cardinality(Served(c, e)')
        BY <1>1, <2>1, <2>3
      <3> QED BY <1>1, <1>2, <2>1, <2>3, <3>1
    <2> QED BY <2>2, <2>3
  <1> QED BY <1>3, <1>4

\* Loop p alone takes a step, and the variables keep their types.
OnlyLoop(p) ==
    /\ lastSent' \in [Loops -> Nat]
    /\ left' \in [Loops -> [businesses : SUBSET Businesses, day : Nat, count : Nat]]
    /\ \A q \in Loops : q # p => lastSent'[q] = lastSent[q] /\ left'[q] = left[q]
    /\ today' = today /\ evening' = evening

\* Nobody else has served any less, and the days of the loops remain in order.
LEMMA LoopSteps ==
  ASSUME SummariesInv, NEW p \in Loops, OnlyLoop(p), DaysSound(p)'
  PROVE  /\ \A q \in Loops : DaysSound(q)'
         /\ \A b \in Businesses, d \in M!Days : Served(b, d) \subseteq Served(b, d)' \cup {p}
  <1>1. ASSUME NEW q \in Loops PROVE DaysSound(q)'
    BY <1>1 DEF DaysSound, SummariesInv, OnlyLoop
  <1>2. ASSUME NEW b \in Businesses, NEW d \in M!Days
        PROVE  Served(b, d) \subseteq Served(b, d)' \cup {p}
    BY DEF Served, OnlyLoop
  <1> QED BY <1>1, <1>2

\* What the invariant says of a loop, in numbers.
LEMMA LoopNumbers ==
  ASSUME SummariesInv, NEW p \in Loops
  PROVE  /\ lastSent[p] \in Nat /\ today \in Nat /\ today >= 1
         /\ left[p].businesses \in SUBSET Businesses
         /\ left[p].day \in Nat /\ left[p].count \in Nat
         /\ lastSent[p] <= today /\ left[p].day <= today
         /\ left[p].day # 0 => lastSent[p] < left[p].day /\ left[p].day \in M!Days
         /\ left[p].day = 0 => left[p].businesses = {} /\ left[p].count = 0
  <1>1. left[p] \in [businesses : SUBSET Businesses, day : Nat, count : Nat]
    BY DEF SummariesInv, SummariesTypes
  <1>2. lastSent[p] \in Nat
    BY DEF SummariesInv, SummariesTypes
  <1>3. today \in Nat /\ today >= 1 /\ today <= MaxDays /\ MaxDays \in Nat
    BY OfficeAssumption DEF SummariesInv, SummariesTypes, M!Days
  <1>4. DaysSound(p)
    BY DEF SummariesInv
  <1>5. left[p].day = 0 => left[p].businesses = {} /\ left[p].count = 0
    BY <1>4 DEF DaysSound, M!Waiting
  <1> QED BY <1>1, <1>2, <1>3, <1>4, <1>5 DEF DaysSound, M!Days

\* The row of a loop that is somewhere in its round.
Round(todo, day, count) == [businesses |-> todo, day |-> day, count |-> count]

\* A loop whose row is written takes a step alone.
LEMMA LoopWrites ==
  ASSUME SummariesInv, NEW p \in Loops,
         NEW todo, todo \subseteq Businesses, NEW day \in Nat, NEW count \in Nat,
         left' = [left EXCEPT ![p] = Round(todo, day, count)],
         lastSent' \in [Loops -> Nat], \A q \in Loops : q # p => lastSent'[q] = lastSent[q],
         today' = today, evening' = evening
  PROVE  /\ OnlyLoop(p)
         /\ left'[p].businesses = todo /\ left'[p].day = day /\ left'[p].count = count
  BY DEF OnlyLoop, SummariesInv, SummariesTypes, Round

\* A loop that wakes has served whom it served before.
LEMMA Waking ==
  ASSUME SummariesInv, NEW p \in Loops, M!Wake(p)
  PROVE  SummariesInv'
  <1>1. /\ left' = [left EXCEPT ![p] = Round(Businesses, today, 0)]
        /\ left[p] = M!Waiting /\ lastSent[p] # today
        /\ UNCHANGED <<deployed, today, evening, lastSent, mails, restarts, cost>>
    BY DEF M!Wake, Round
  <1>2. /\ lastSent[p] \in Nat /\ today \in Nat /\ today >= 1 /\ lastSent[p] < today
    BY <1>1, LoopNumbers
  <1>3. /\ OnlyLoop(p) /\ lastSent'[p] = lastSent[p] /\ left'[p].day = today
    <2>1. /\ Businesses \subseteq Businesses /\ 0 \in Nat /\ today \in Nat
          /\ left' = [left EXCEPT ![p] = Round(Businesses, today, 0)]
          /\ lastSent' = lastSent /\ today' = today /\ evening' = evening
      BY <1>1, <1>2
    <2>2. lastSent' \in [Loops -> Nat]
      BY <2>1 DEF SummariesInv, SummariesTypes
    <2> QED BY <2>1, <2>2, LoopWrites
  <1>4. DaysSound(p)'
    BY <1>1, <1>2, <1>3 DEF DaysSound
  <1>5. ASSUME NEW b \in Businesses, NEW d \in M!Days
        PROVE  Served(b, d) \subseteq Served(b, d)'
    <2>1. CASE p \in Served(b, d)
      <3>1. lastSent[p] >= d
        BY <1>1, <2>1 DEF Served, M!Waiting
      <3> QED BY <1>3, <1>4, <3>1, LoopSteps DEF Served
    <2> QED BY <1>3, <1>4, <2>1, LoopSteps
  <1>6. MailsPaid'
    BY <1>1, <1>5, PaidWithoutMail DEF SummariesInv
  <1> QED BY <1>1, <1>3, <1>4, <1>6, LoopSteps DEF SummariesInv, SummariesTypes, OnlyLoop

\* A loop that has a business behind it has served whom it served before.
LEMMA Passing ==
  ASSUME SummariesInv, NEW p \in Loops, NEW b \in left[p].businesses,
         NEW d, d = left[p].day, NEW count \in Nat, count >= left[p].count,
         left' = [left EXCEPT ![p] = Round(left[p].businesses \ {b}, left[p].day, count)],
         lastSent' = lastSent, today' = today, evening' = evening
  PROVE  /\ OnlyLoop(p) /\ DaysSound(p)'
         /\ d \in M!Days /\ b \in Businesses
         /\ \A c \in Businesses, e \in M!Days : Served(c, e) \subseteq Served(c, e)'
         /\ p \notin Served(b, d)
         /\ count > 0 => p \in Served(b, d)'
  <1>1. /\ lastSent[p] \in Nat /\ left[p].day \in Nat /\ left[p].count \in Nat
        /\ left[p].businesses \in SUBSET Businesses /\ left[p].day # 0
        /\ lastSent[p] < left[p].day /\ left[p].day \in M!Days
        /\ lastSent[p] <= today /\ left[p].day <= today
    BY LoopNumbers
  <1>2. left[p].businesses \ {b} \subseteq Businesses
    BY <1>1
  <1>3. /\ OnlyLoop(p) /\ lastSent'[p] = lastSent[p]
        /\ left'[p].businesses = left[p].businesses \ {b} /\ left'[p].day = left[p].day
        /\ left'[p].count = count
    <2>1. lastSent' \in [Loops -> Nat] /\ left[p].day \in Nat
      BY <1>1 DEF SummariesInv, SummariesTypes
    <2>2. PICK todo : todo = left[p].businesses \ {b} /\ todo \subseteq Businesses
      BY <1>2
    <2>3. left' = [left EXCEPT ![p] = Round(todo, left[p].day, count)]
      BY <2>2
    <2>4. OnlyLoop(p)
      BY <2>1, <2>2, <2>3, LoopWrites
    <2>5. left'[p] = Round(todo, left[p].day, count)
      BY <2>3 DEF SummariesInv, SummariesTypes
    <2> QED BY <2>2, <2>4, <2>5 DEF Round
  <1>4. DaysSound(p)'
    BY <1>1, <1>3 DEF DaysSound
  <1>5. ASSUME NEW c \in Businesses, NEW e \in M!Days
        PROVE  Served(c, e) \subseteq Served(c, e)'
    <2>1. e \in Nat
      BY DEF M!Days
    <2>2. CASE p \in Served(c, e)
      <3>1. \/ lastSent[p] >= e
            \/ left[p].day = e /\ c \notin left[p].businesses /\ left[p].count > 0
        BY <2>2 DEF Served
      <3>2. \/ lastSent'[p] >= e
            \/ left'[p].day = e /\ c \notin left'[p].businesses /\ left'[p].count > 0
        BY <1>1, <1>3, <3>1
      <3>3. p \in Served(c, e)'
        BY <3>2 DEF Served
      <3> QED BY <1>3, <1>4, <3>3, LoopSteps
    <2> QED BY <1>3, <1>4, <2>2, LoopSteps
  <1>6. /\ p \notin Served(b, d)
        /\ count > 0 => p \in Served(b, d)'
    <2>1. d \in Nat /\ ~(lastSent[p] >= d) /\ left'[p].day = d /\ b \notin left'[p].businesses
      BY <1>1, <1>3
    <2> QED BY <1>3, <2>1 DEF Served
  <1> QED BY <1>1, <1>3, <1>4, <1>5, <1>6

\* The row of a loop, written field by field.
LEMMA RowOf ==
  ASSUME SummariesInv, NEW p \in Loops
  PROVE  /\ \A b : [left EXCEPT ![p].businesses = @ \ {b}, ![p].count = @ + 1]
                     = [left EXCEPT ![p] = Round(left[p].businesses \ {b}, left[p].day,
                                                left[p].count + 1)]
         /\ \A b : [left EXCEPT ![p].businesses = @ \ {b}]
                     = [left EXCEPT ![p] = Round(left[p].businesses \ {b}, left[p].day,
                                                left[p].count)]
  <1> SUFFICES ASSUME NEW b
               PROVE  /\ [left EXCEPT ![p].businesses = @ \ {b}, ![p].count = @ + 1]
                           = [left EXCEPT ![p] = Round(left[p].businesses \ {b}, left[p].day,
                                                      left[p].count + 1)]
                      /\ [left EXCEPT ![p].businesses = @ \ {b}]
                           = [left EXCEPT ![p] = Round(left[p].businesses \ {b}, left[p].day,
                                                      left[p].count)]
    OBVIOUS
  <1>1. left \in [Loops -> [businesses : SUBSET Businesses, day : Nat, count : Nat]]
    BY DEF SummariesInv, SummariesTypes
  <1>2. /\ left[p] \in [businesses : SUBSET Businesses, day : Nat, count : Nat]
        /\ left[p].businesses \ {b} \in SUBSET Businesses /\ left[p].count + 1 \in Nat
    BY <1>1
  <1>3. /\ [left[p] EXCEPT !.businesses = @ \ {b}, !.count = @ + 1]
              = Round(left[p].businesses \ {b}, left[p].day, left[p].count + 1)
        /\ [left[p] EXCEPT !.businesses = @ \ {b}]
              = Round(left[p].businesses \ {b}, left[p].day, left[p].count)
    <2>1. PICK t : t = left[p].businesses \ {b}
      OBVIOUS
    <2>2. PICK n : n = left[p].count + 1
      OBVIOUS
    <2>3. PICK x \in [businesses : SUBSET Businesses, day : Nat, count : Nat] : x = left[p]
      BY <1>2
    <2>4. [x EXCEPT !.businesses = t] = Round(t, x.day, x.count)
      BY <2>3 DEF Round
    <2>5. [x EXCEPT !.businesses = t, !.count = n] = Round(t, x.day, n)
      <3>1. [x EXCEPT !.businesses = t, !.count = n]
              = [[x EXCEPT !.businesses = t] EXCEPT !.count = n]
        OBVIOUS
      <3>2. [Round(t, x.day, x.count) EXCEPT !.count = n] = Round(t, x.day, n)
        BY DEF Round
      <3> QED BY <2>4, <3>1, <3>2
    <2> QED BY <2>1, <2>2, <2>3, <2>4, <2>5
  <1>4. /\ [left EXCEPT ![p].businesses = @ \ {b}, ![p].count = @ + 1]
              = [left EXCEPT ![p] = [left[p] EXCEPT !.businesses = @ \ {b}, !.count = @ + 1]]
        /\ [left EXCEPT ![p].businesses = @ \ {b}]
              = [left EXCEPT ![p] = [left[p] EXCEPT !.businesses = @ \ {b}]]
    BY <1>1
  <1> QED BY <1>3, <1>4

\* A mail is paid for by the loop, which had not served the business.
LEMMA Mailing ==
  ASSUME SummariesInv, NEW p \in Loops, NEW b \in Businesses, M!Mail(p, b)
  PROVE  SummariesInv'
  <1>1. /\ left' = [left EXCEPT ![p] = Round(left[p].businesses \ {b}, left[p].day,
                                            left[p].count + 1)]
        /\ b \in left[p].businesses
        /\ mails' = [mails EXCEPT ![<<b, left[p].day>>] = @ + 1]
        /\ lastSent' = lastSent /\ today' = today /\ evening' = evening
        /\ UNCHANGED <<restarts, cost>>
    BY RowOf DEF M!Mail
  <1>2. left[p].count \in Nat
    BY LoopNumbers
  <1>3. left[p].count + 1 \in Nat /\ left[p].count + 1 >= left[p].count /\ left[p].count + 1 > 0
    BY <1>2
  <1>4. PICK d : d = left[p].day
    OBVIOUS
  <1>5. /\ OnlyLoop(p) /\ DaysSound(p)' /\ d \in M!Days
        /\ \A c \in Businesses, e \in M!Days : Served(c, e) \subseteq Served(c, e)'
        /\ p \in Served(b, d)' \ Served(b, d)
    BY <1>1, <1>3, <1>4, Passing
  <1>6. mails' = [mails EXCEPT ![<<b, d>>] = @ + 1]
    BY <1>1, <1>4
  <1>7. MailsPaid'
    BY <1>1, <1>5, <1>6, PaidWithMail DEF SummariesInv
  <1>8. mails' \in [Businesses \X M!Days -> Nat]
    BY <1>5, <1>6 DEF SummariesInv, SummariesTypes
  <1> QED BY <1>1, <1>5, <1>7, <1>8, LoopSteps DEF SummariesInv, SummariesTypes, OnlyLoop

\* A mail that was refused is none, and one that was sent all the same cost a fault.
LEMMA MailFailing ==
  ASSUME SummariesInv, NEW p \in Loops, NEW b \in Businesses, M!MailFails(p, b)
  PROVE  SummariesInv'
  <1>1. /\ left' = [left EXCEPT ![p] = Round(left[p].businesses \ {b}, left[p].day,
                                            left[p].count)]
        /\ b \in left[p].businesses
        /\ lastSent' = lastSent /\ today' = today /\ evening' = evening /\ restarts' = restarts
        /\ \/ mails' = mails /\ cost' = cost
           \/ mails' = [mails EXCEPT ![<<b, left[p].day>>] = @ + 1] /\ cost' = cost + 1
    BY RowOf DEF M!MailFails
  <1>2. left[p].count \in Nat /\ left[p].count >= left[p].count
    BY LoopNumbers
  <1>3. PICK d : d = left[p].day
    OBVIOUS
  <1>4. /\ OnlyLoop(p) /\ DaysSound(p)' /\ d \in M!Days
        /\ \A c \in Businesses, e \in M!Days : Served(c, e) \subseteq Served(c, e)'
    BY <1>1, <1>2, <1>3, Passing
  <1>5. MailsPaid'
    <2>1. CASE mails' = mails /\ cost' = cost
      BY <1>1, <1>4, <2>1, PaidWithoutMail DEF SummariesInv
    <2>2. CASE mails' = [mails EXCEPT ![<<b, d>>] = @ + 1] /\ cost' = cost + 1
      BY <1>1, <1>4, <2>2, PaidWithMail DEF SummariesInv
    <2> QED BY <1>1, <1>3, <2>1, <2>2
  <1>6. mails' \in [Businesses \X M!Days -> Nat] /\ cost' \in Nat
    <2>1. mails \in [Businesses \X M!Days -> Nat] /\ cost \in Nat
      BY DEF SummariesInv, SummariesTypes
    <2>2. \/ mails' = mails /\ cost' = cost
          \/ mails' = [mails EXCEPT ![<<b, d>>] = @ + 1] /\ cost' = cost + 1
      BY <1>1, <1>3
    <2> QED BY <1>4, <2>1, <2>2
  <1> QED BY <1>1, <1>4, <1>5, <1>6, LoopSteps DEF SummariesInv, SummariesTypes, OnlyLoop

\* A loop that remembers the day has served for it, and one that mailed nobody had not.
LEMMA Remembering ==
  ASSUME SummariesInv, NEW p \in Loops, M!Remember(p)
  PROVE  SummariesInv'
  <1> DEFINE last == IF left[p].count > 0 THEN left[p].day ELSE lastSent[p]
  <1>1. /\ left' = [left EXCEPT ![p] = Round({}, 0, 0)]
        /\ left[p].day # 0 /\ left[p].businesses = {}
        /\ UNCHANGED <<deployed, today, evening, mails, restarts, cost>>
    BY DEF M!Remember, M!Waiting, Round
  <1>2. /\ lastSent[p] \in Nat /\ left[p].day \in Nat /\ left[p].count \in Nat
        /\ lastSent[p] < left[p].day /\ lastSent[p] <= today /\ left[p].day <= today
        /\ today \in Nat
    BY <1>1, LoopNumbers
  <1>3. /\ last \in Nat /\ last <= today /\ last >= lastSent[p]
        /\ left[p].count > 0 => last = left[p].day
    BY <1>2
  <1>4. \/ lastSent' = lastSent /\ last = lastSent[p]
        \/ lastSent' = [lastSent EXCEPT ![p] = last]
    BY DEF M!Remember
  <1> HIDE DEF last
  <1>5. /\ OnlyLoop(p) /\ lastSent'[p] = last /\ left'[p] = Round({}, 0, 0)
    <2>1. {} \subseteq Businesses /\ 0 \in Nat /\ today' = today /\ evening' = evening
      BY <1>1
    <2>2. left' = [left EXCEPT ![p] = Round({}, 0, 0)] /\ last \in Nat
      BY <1>1, <1>3
    <2>3. lastSent' \in [Loops -> Nat] /\ lastSent'[p] = last
      BY <1>4, <2>2 DEF SummariesInv, SummariesTypes
    <2>4. \A q \in Loops : q # p => lastSent'[q] = lastSent[q]
      BY <1>4 DEF SummariesInv, SummariesTypes
    <2>5. OnlyLoop(p)
      BY <2>1, <2>2, <2>3, <2>4, LoopWrites
    <2>6. left'[p] = Round({}, 0, 0)
      BY <2>2 DEF SummariesInv, SummariesTypes
    <2> QED BY <2>3, <2>5, <2>6
  <1>6. DaysSound(p)'
    BY <1>1, <1>2, <1>3, <1>5 DEF DaysSound, M!Waiting, Round
  <1>7. ASSUME NEW b \in Businesses, NEW d \in M!Days
        PROVE  Served(b, d) \subseteq Served(b, d)'
    <2>1. d \in Nat
      BY DEF M!Days
    <2>2. CASE p \in Served(b, d)
      <3>1. last >= d
        BY <1>2, <1>3, <2>1, <2>2 DEF Served
      <3> QED BY <1>5, <1>6, <3>1, LoopSteps DEF Served
    <2> QED BY <1>5, <1>6, <2>2, LoopSteps
  <1>8. MailsPaid'
    BY <1>1, <1>7, PaidWithoutMail DEF SummariesInv
  <1> QED BY <1>1, <1>5, <1>6, <1>8, LoopSteps DEF SummariesInv, SummariesTypes, OnlyLoop

\* A loop that is started anew forgets whom it served: that is a restart.
LEMMA Restarting ==
  ASSUME SummariesInv, NEW p \in Loops, M!Restart(p)
  PROVE  SummariesInv'
  <1>1. /\ left' = [left EXCEPT ![p] = Round({}, 0, 0)]
        /\ lastSent' = [lastSent EXCEPT ![p] = 0]
        /\ restarts' = restarts + 1
        /\ UNCHANGED <<deployed, today, evening, mails, cost>>
    BY DEF M!Restart, M!Waiting, Round
  <1>2. /\ OnlyLoop(p) /\ lastSent'[p] = 0 /\ left'[p] = Round({}, 0, 0)
    <2>1. {} \subseteq Businesses /\ 0 \in Nat /\ today' = today /\ evening' = evening
      BY <1>1
    <2>2. /\ lastSent' \in [Loops -> Nat] /\ lastSent'[p] = 0
          /\ \A q \in Loops : q # p => lastSent'[q] = lastSent[q]
      BY <1>1 DEF SummariesInv, SummariesTypes
    <2>3. OnlyLoop(p)
      BY <1>1, <2>1, <2>2, LoopWrites
    <2>4. left'[p] = Round({}, 0, 0)
      BY <1>1 DEF SummariesInv, SummariesTypes
    <2> QED BY <2>2, <2>3, <2>4
  <1>3. DaysSound(p)'
    <2>1. today \in Nat
      BY LoopNumbers
    <2> QED BY <1>1, <1>2, <2>1 DEF DaysSound, M!Waiting, Round
  <1>4. MailsPaid'
    BY <1>1, <1>2, <1>3, LoopSteps, PaidWithoutMail DEF SummariesInv
  <1> QED BY <1>1, <1>2, <1>3, <1>4, LoopSteps DEF SummariesInv, SummariesTypes, OnlyLoop

\* The clock goes on.
LEMMA Ticking == ASSUME SummariesInv, M!Clock PROVE SummariesInv'
  <1>1. /\ UNCHANGED <<deployed, lastSent, left, mails, restarts, cost>>
        /\ \/ today' = today
           \/ today < MaxDays /\ today' = today + 1
    BY DEF M!Clock
  <1>2. today' \in M!Days /\ today <= today' /\ today \in Nat
    BY <1>1, OfficeAssumption DEF M!Days, SummariesInv, SummariesTypes
  <1>3. SummariesTypes'
    BY <1>1, <1>2 DEF SummariesInv, SummariesTypes
  <1>4. ASSUME NEW p \in Loops PROVE DaysSound(p)'
    BY <1>1, <1>2, LoopNumbers DEF DaysSound, SummariesInv, M!Days
  <1>5. \A b \in Businesses, d \in M!Days : Served(b, d) \subseteq Served(b, d)'
    BY <1>1 DEF Served
  <1>6. MailsPaid'
    BY <1>1, <1>5, PaidWithoutMail DEF SummariesInv
  <1> QED BY <1>3, <1>4, <1>6 DEF SummariesInv

\* The invariant is kept.
LEMMA SummariesStep == ASSUME SummariesInv, M!Next \/ UNCHANGED M!vars PROVE SummariesInv'
  <1>1. CASE UNCHANGED M!vars
    BY <1>1 DEF M!vars, SummariesInv, SummariesTypes, DaysSound, MailsPaid, Served
  <1>2. CASE M!Next
    BY <1>2, Waking, Mailing, MailFailing, Remembering, Restarting, Ticking DEF M!Next
  <1> QED BY <1>1, <1>2

\* A business gets the mail of a day once from each loop, and once more for each restart
\* or lost answer, however the rounds of the loops overlap and whatever mails are
\* refused.
THEOREM OneMailFromEachLoop == OfficeSpec => []OneMailPerLoop
  <1> DEFINE Inv == chosen = "summaries" => SummariesInv
  <1>1. OfficeInit => Inv
    BY SummariesInit DEF OfficeInit
  <1>2. Inv /\ [OfficeNext]_officeVars => Inv'
    BY OneComponent, SummariesStep
  <1>3. Inv => OneMailPerLoop
    <2> SUFFICES ASSUME SummariesInv, NEW m \in Businesses \X M!Days
                 PROVE  mails[m] <= Cardinality(Loops) + restarts + cost
      BY Cardinalities DEF OneMailPerLoop, M!OneMailPerLoop
    <2>1. PICK b \in Businesses, d \in M!Days : m = <<b, d>>
      OBVIOUS
    <2>2. /\ mails[m] \in Nat /\ restarts \in Nat /\ cost \in Nat
          /\ mails[m] <= Cardinality(Served(b, d)) + restarts + cost
      BY <2>1 DEF SummariesInv, SummariesTypes, MailsPaid
    <2>3. Cardinality(Loops) \in Nat
      BY OfficeAssumption, FS_CardinalityType
    <2> QED BY <2>2, <2>3, ServedFinite
  <1> QED BY <1>1, <1>2, <1>3, PTL DEF OfficeSpec

-----------------------------------------------------------------------------
(* The rollup.                                                             *)

\* Where a rollup may be, ...
Ats == {"idle", "calls", "qualified", "wins", "tasks", "recoveries", "write"}
\* ... and the type of its row.
RollupRow == [at : Ats, day : R!Days, numbers : R!Numbers, disturbed : BOOLEAN]

\* What a rollup has read: no more calls than the day has, and, if no lead changed since
\* it began, the counts as they are.
RollupSound(row) ==
    /\ row.numbers.missed <= calls[row.day]
    /\ ~row.disturbed =>
          /\ row.at \in {"wins", "tasks", "recoveries", "write"} =>
                row.numbers.qualified = R!Qualified(row.day)
          /\ row.at \in {"tasks", "recoveries", "write"} => row.numbers.wins = R!Wins(row.day)
          /\ row.at = "write" => row.numbers.recoveries = R!Recoveries(row.day)

\* The inductive invariant.
RollupInv == R!TypeOK /\ (\A r \in Rollups : RollupSound(rollup[r])) /\ R!SnapshotsAgree

\* The counts are of the same leads, the later among the earlier.
LEMMA CountsNest ==
  ASSUME NEW d
  PROVE  /\ R!Qualified(d) \in 0 .. R!Cardinality(LeadIds)
         /\ R!Wins(d) \in 0 .. R!Cardinality(LeadIds)
         /\ R!Recoveries(d) \in 0 .. R!Cardinality(LeadIds)
         /\ R!Recoveries(d) <= R!Wins(d) /\ R!Wins(d) <= R!Qualified(d)
  <1> DEFINE recovered == {l \in R!InStages({"won"}, d) : lead[l].followed}
             won == R!InStages({"won"}, d)
             qualified == R!InStages({"quoted", "won"}, d)
  <1>1. recovered \subseteq won /\ won \subseteq qualified /\ qualified \subseteq LeadIds
    BY DEF R!InStages
  <1>2. IsFiniteSet(won) /\ IsFiniteSet(qualified) /\ IsFiniteSet(LeadIds)
    BY <1>1, FS_Subset, OfficeAssumption
  <1>3. /\ Cardinality(recovered) \in Nat /\ Cardinality(won) \in Nat
        /\ Cardinality(qualified) \in Nat /\ Cardinality(LeadIds) \in Nat
        /\ Cardinality(recovered) <= Cardinality(won)
        /\ Cardinality(won) <= Cardinality(qualified)
        /\ Cardinality(qualified) <= Cardinality(LeadIds)
    <2> HIDE DEF recovered, won, qualified
    <2> QED BY <1>1, <1>2, Counted
  <1>4. /\ R!Recoveries(d) = Cardinality(recovered) /\ R!Wins(d) = Cardinality(won)
        /\ R!Qualified(d) = Cardinality(qualified)
        /\ R!Cardinality(LeadIds) = Cardinality(LeadIds)
    BY Cardinalities DEF R!Recoveries, R!Wins, R!Qualified
  <1> HIDE DEF recovered, won, qualified
  <1> QED BY <1>3, <1>4

\* A rollup reads one count and goes on, ...
Reads(r, next, numbers) ==
    /\ rollup' = [rollup EXCEPT ![r].at = next, ![r].numbers = numbers]
    /\ UNCHANGED <<deployed, today, calls, lead, snapshot>>

\* ... from the first to the last.
LEMMA Reading ==
  ASSUME NEW r \in Rollups, NEW d, d = rollup[r].day, NEW n, n = rollup[r].numbers
  PROVE  /\ R!ReadCalls(r) => /\ rollup[r].at = "calls"
                              /\ Reads(r, "qualified", [n EXCEPT !.missed = calls[d]])
         /\ R!ReadQualified(r) => /\ rollup[r].at = "qualified"
                                  /\ Reads(r, "wins", [n EXCEPT !.qualified = R!Qualified(d)])
         /\ R!ReadWins(r) => /\ rollup[r].at = "wins"
                             /\ Reads(r, "tasks", [n EXCEPT !.wins = R!Wins(d)])
         /\ R!ReadTasks(r) => rollup[r].at = "tasks" /\ Reads(r, "recoveries", n)
         /\ R!ReadRecoveries(r) =>
               /\ rollup[r].at = "recoveries"
               /\ Reads(r, "write", [n EXCEPT !.recoveries = R!Recoveries(d)])
  BY DEF R!ReadCalls, R!ReadQualified, R!ReadWins, R!ReadTasks, R!ReadRecoveries, R!Reads,
         R!So, R!Day, Reads

\* The counts are of the table of leads, and stay while it does; so does what a rollup
\* has read of it.
LEMMA StaysSound ==
  ASSUME lead' = lead, NEW row, RollupSound(row),
         row.numbers.missed <= calls[row.day] => row.numbers.missed <= calls'[row.day]
  PROVE  RollupSound(row)'
  BY DEF RollupSound, R!Qualified, R!Wins, R!Recoveries, R!InStages

\* A rollup whose row is written soundly, while what is counted stays.
LEMMA RollupAlone ==
  ASSUME RollupInv, NEW r \in Rollups, NEW row \in RollupRow, RollupSound(row),
         rollup' = [rollup EXCEPT ![r] = row], UNCHANGED <<calls, lead>>
  PROVE  rollup' \in [Rollups -> RollupRow] /\ \A q \in Rollups : RollupSound(rollup[q])'
  <1>1. rollup \in [Rollups -> RollupRow]
    BY DEF RollupInv, R!TypeOK, RollupRow, Ats
  <1>2. rollup' \in [Rollups -> RollupRow]
    BY <1>1
  <1>3. ASSUME NEW q \in Rollups PROVE RollupSound(rollup[q])'
    <2>1. PICK other : other = rollup'[q]
      OBVIOUS
    <2>2. RollupSound(other)
      <3>1. CASE q = r
        BY <1>1, <2>1, <3>1
      <3>2. CASE q # r
        BY <1>1, <2>1, <3>2 DEF RollupInv
      <3> QED BY <3>1, <3>2
    <2>3. RollupSound(other)'
      BY <2>2, StaysSound
    <2> QED BY <2>1, <2>3 DEF RollupSound
  <1> QED BY <1>2, <1>3

\* A rollup that reads: its row is sound if what it has read by then is.
LEMMA ReadsSoundly ==
  ASSUME RollupInv, NEW r \in Rollups, NEW row \in RollupRow, row = rollup[r],
         NEW next \in Ats, NEW numbers \in R!Numbers, Reads(r, next, numbers),
         RollupSound([at |-> next, day |-> row.day, numbers |-> numbers,
                      disturbed |-> row.disturbed])
  PROVE  RollupInv'
  <1> DEFINE new == [[row EXCEPT !.at = next] EXCEPT !.numbers = numbers]
  <1>1. /\ new \in RollupRow /\ new.at = next /\ new.day = row.day /\ new.numbers = numbers
        /\ new.disturbed = row.disturbed
    BY DEF RollupRow
  <1>2. /\ rollup' = [rollup EXCEPT ![r] = new]
        /\ UNCHANGED <<deployed, today, calls, lead, snapshot>>
    BY DEF Reads, RollupInv, R!TypeOK
  <1> HIDE DEF new
  <1>3. RollupSound(new)
    BY <1>1 DEF RollupSound
  <1>4. rollup' \in [Rollups -> RollupRow] /\ \A q \in Rollups : RollupSound(rollup[q])'
    BY <1>1, <1>2, <1>3, RollupAlone
  <1>5. R!TypeOK' /\ R!SnapshotsAgree'
    BY <1>2, <1>4 DEF RollupInv, R!TypeOK, R!SnapshotsAgree, RollupRow, Ats
  <1> QED BY <1>4, <1>5 DEF RollupInv

\* The reads.
LEMMA RollupReads ==
  ASSUME RollupInv, NEW r \in Rollups,
         \/ R!ReadCalls(r) \/ R!ReadQualified(r) \/ R!ReadWins(r) \/ R!ReadTasks(r)
         \/ R!ReadRecoveries(r)
  PROVE  RollupInv'
  <1>1. PICK row \in RollupRow : row = rollup[r]
    BY DEF RollupInv, R!TypeOK, RollupRow, Ats
  <1>2. PICK d \in R!Days : d = row.day
    BY DEF RollupRow
  <1>3. PICK n \in R!Numbers : n = row.numbers
    BY DEF RollupRow
  <1>4. RollupSound(row)
    BY <1>1 DEF RollupInv
  <1>5. calls[d] \in 0 .. MaxCalls
    BY DEF RollupInv, R!TypeOK
  <1>6. MaxCalls \in Nat
    BY OfficeAssumption
  <1>7. CASE R!ReadCalls(r)
    <2> DEFINE numbers == [n EXCEPT !.missed = calls[d]]
    <2>1. row.at = "calls" /\ Reads(r, "qualified", numbers)
      BY <1>1, <1>2, <1>3, <1>7, Reading
    <2>2. numbers \in R!Numbers /\ numbers.missed = calls[d]
      BY <1>5 DEF R!Numbers
    <2> HIDE DEF numbers
    <2>3. RollupSound([at |-> "qualified", day |-> row.day, numbers |-> numbers,
                       disturbed |-> row.disturbed])
      BY <1>2, <1>5, <1>6, <2>2 DEF RollupSound
    <2> QED BY <1>1, <2>1, <2>2, <2>3, ReadsSoundly DEF Ats
  <1>8. CASE R!ReadQualified(r)
    <2> DEFINE numbers == [n EXCEPT !.qualified = R!Qualified(d)]
    <2>1. row.at = "qualified" /\ Reads(r, "wins", numbers)
      BY <1>1, <1>2, <1>3, <1>8, Reading
    <2>2. R!Qualified(d) \in 0 .. R!Cardinality(LeadIds)
      BY CountsNest
    <2>3. /\ numbers \in R!Numbers
          /\ numbers.qualified = R!Qualified(d) /\ numbers.missed = n.missed
      BY <2>2 DEF R!Numbers
    <2> HIDE DEF numbers
    <2>4. RollupSound([at |-> "wins", day |-> row.day, numbers |-> numbers,
                       disturbed |-> row.disturbed])
      BY <1>2, <1>3, <1>4, <2>3 DEF RollupSound
    <2> QED BY <1>1, <2>1, <2>3, <2>4, ReadsSoundly DEF Ats
  <1>9. CASE R!ReadWins(r)
    <2> DEFINE numbers == [n EXCEPT !.wins = R!Wins(d)]
    <2>1. row.at = "wins" /\ Reads(r, "tasks", numbers)
      BY <1>1, <1>2, <1>3, <1>9, Reading
    <2>2. R!Wins(d) \in 0 .. R!Cardinality(LeadIds)
      BY CountsNest
    <2>3. /\ numbers \in R!Numbers /\ numbers.qualified = n.qualified
          /\ numbers.wins = R!Wins(d) /\ numbers.missed = n.missed
      BY <2>2 DEF R!Numbers
    <2> HIDE DEF numbers
    <2>4. RollupSound([at |-> "tasks", day |-> row.day, numbers |-> numbers,
                       disturbed |-> row.disturbed])
      BY <1>2, <1>3, <1>4, <2>1, <2>3 DEF RollupSound
    <2> QED BY <1>1, <2>1, <2>3, <2>4, ReadsSoundly DEF Ats
  <1>10. CASE R!ReadTasks(r)
    <2>1. row.at = "tasks" /\ Reads(r, "recoveries", n)
      BY <1>1, <1>2, <1>3, <1>10, Reading
    <2>2. RollupSound([at |-> "recoveries", day |-> row.day, numbers |-> n,
                       disturbed |-> row.disturbed])
      BY <1>2, <1>3, <1>4, <2>1 DEF RollupSound
    <2> QED BY <1>1, <2>1, <2>2, ReadsSoundly DEF Ats
  <1>11. CASE R!ReadRecoveries(r)
    <2> DEFINE numbers == [n EXCEPT !.recoveries = R!Recoveries(d)]
    <2>1. row.at = "recoveries" /\ Reads(r, "write", numbers)
      BY <1>1, <1>2, <1>3, <1>11, Reading
    <2>2. R!Recoveries(d) \in 0 .. R!Cardinality(LeadIds)
      BY CountsNest
    <2>3. /\ numbers \in R!Numbers /\ numbers.qualified = n.qualified
          /\ numbers.wins = n.wins /\ numbers.missed = n.missed
          /\ numbers.recoveries = R!Recoveries(d)
      BY <2>2 DEF R!Numbers
    <2> HIDE DEF numbers
    <2>4. RollupSound([at |-> "write", day |-> row.day, numbers |-> numbers,
                       disturbed |-> row.disturbed])
      BY <1>2, <1>3, <1>4, <2>1, <2>3 DEF RollupSound
    <2> QED BY <1>1, <2>1, <2>3, <2>4, ReadsSoundly DEF Ats
  <1> QED BY <1>7, <1>8, <1>9, <1>10, <1>11

\* The row of a rollup that has read nothing says nothing.
LEMMA IdleIsSound ==
  ASSUME R!TypeOK, NEW row, row.at \in {"idle", "calls"}, row.day \in R!Days,
         row.numbers = R!NoNumbers
  PROVE  RollupSound(row)
  <1>1. row.numbers.missed = 0
    BY DEF R!NoNumbers
  <1>2. calls[row.day] \in Nat
    BY OfficeAssumption DEF R!TypeOK
  <1> QED BY <1>1, <1>2 DEF RollupSound

\* A rollup is idle before and after.
LEMMA IdleRows ==
  /\ R!NoNumbers \in R!Numbers /\ R!Idle \in RollupRow
  /\ R!Idle.at = "idle" /\ R!Idle.day \in R!Days /\ R!Idle.numbers = R!NoNumbers
  <1>1. R!Cardinality(LeadIds) \in Nat
    BY Cardinalities, OfficeAssumption, FS_CardinalityType
  <1>2. R!NoNumbers \in R!Numbers
    BY <1>1, OfficeAssumption DEF R!NoNumbers, R!Numbers
  <1>3. 1 \in R!Days
    BY OfficeAssumption DEF R!Days
  <1> QED BY <1>2, <1>3 DEF R!Idle, RollupRow, Ats

\* A rollup begins.
LEMMA Starting == ASSUME RollupInv, NEW r \in Rollups, R!Start(r) PROVE RollupInv'
  <1>1. PICK d \in 1 .. today :
          rollup' = [rollup EXCEPT ![r] = [[R!Idle EXCEPT !.at = "calls"] EXCEPT !.day = d]]
    BY DEF R!Start
  <1>2. UNCHANGED <<deployed, today, calls, lead, snapshot>>
    BY DEF R!Start
  <1>3. d \in R!Days
    BY OfficeAssumption DEF R!Days, RollupInv, R!TypeOK
  <1> DEFINE row == [[R!Idle EXCEPT !.at = "calls"] EXCEPT !.day = d]
  <1>4. row \in RollupRow /\ row.at = "calls" /\ row.day = d /\ row.numbers = R!NoNumbers
    BY <1>3, IdleRows DEF RollupRow, Ats
  <1> HIDE DEF row
  <1>5. RollupSound(row)
    BY <1>3, <1>4, IdleIsSound DEF RollupInv
  <1>6. rollup' = [rollup EXCEPT ![r] = row]
    BY <1>1 DEF row
  <1>7. rollup' \in [Rollups -> RollupRow] /\ \A q \in Rollups : RollupSound(rollup[q])'
    BY <1>2, <1>4, <1>5, <1>6, RollupAlone
  <1>8. R!TypeOK' /\ R!SnapshotsAgree'
    BY <1>2, <1>7 DEF RollupInv, R!TypeOK, R!SnapshotsAgree, RollupRow, Ats
  <1> QED BY <1>7, <1>8 DEF RollupInv

\* A rollup ends, its row idle again.
LEMMA Stopping ==
  ASSUME RollupInv, NEW r \in Rollups, rollup' = [rollup EXCEPT ![r] = R!Idle],
         UNCHANGED <<calls, lead>>
  PROVE  rollup' \in [Rollups -> RollupRow] /\ \A q \in Rollups : RollupSound(rollup[q])'
  <1>1. PICK row : row = R!Idle
    OBVIOUS
  <1>2. row \in RollupRow /\ RollupSound(row)
    BY <1>1, IdleRows, IdleIsSound DEF RollupInv
  <1>3. rollup' = [rollup EXCEPT ![r] = row]
    BY <1>1
  <1> QED BY <1>2, <1>3, RollupAlone

\* A count failed.
LEMMA ReadFailing == ASSUME RollupInv, NEW r \in Rollups, R!ReadFails(r) PROVE RollupInv'
  <1>1. /\ rollup' = [rollup EXCEPT ![r] = R!Idle]
        /\ UNCHANGED <<deployed, today, calls, lead, snapshot>>
    BY DEF R!ReadFails
  <1>2. rollup' \in [Rollups -> RollupRow] /\ \A q \in Rollups : RollupSound(rollup[q])'
    BY <1>1, Stopping
  <1>3. R!TypeOK' /\ R!SnapshotsAgree'
    BY <1>1, <1>2 DEF RollupInv, R!TypeOK, R!SnapshotsAgree, RollupRow, Ats
  <1> QED BY <1>2, <1>3 DEF RollupInv

\* A snapshot is written of a sound row: its counts nest.
LEMMA SnapshotWrites == ASSUME RollupInv, NEW r \in Rollups, R!Write(r) PROVE RollupInv'
  <1>1. PICK row \in RollupRow : row = rollup[r]
    BY DEF RollupInv, R!TypeOK, RollupRow, Ats
  <1>2. /\ row.at = "write" /\ rollup' = [rollup EXCEPT ![r] = R!Idle]
        /\ snapshot' = [snapshot EXCEPT ![row.day] = [numbers |-> row.numbers,
                                                      disturbed |-> row.disturbed]]
        /\ UNCHANGED <<deployed, today, calls, lead>>
    BY <1>1 DEF R!Write, R!So, R!Day
  <1>3. rollup' \in [Rollups -> RollupRow] /\ \A q \in Rollups : RollupSound(rollup[q])'
    BY <1>2, Stopping
  <1>4. [numbers |-> row.numbers, disturbed |-> row.disturbed]
          \in [numbers : R!Numbers, disturbed : BOOLEAN]
    BY DEF RollupRow
  <1>5. snapshot' \in [R!Days -> [numbers : R!Numbers, disturbed : BOOLEAN]]
    BY <1>2, <1>4 DEF RollupInv, R!TypeOK
  <1>6. R!TypeOK'
    BY <1>2, <1>3, <1>5 DEF RollupInv, R!TypeOK, RollupRow, Ats
  <1>7. RollupSound(row)
    BY <1>1 DEF RollupInv
  <1>8. /\ row.numbers.missed <= calls[row.day]
        /\ ~row.disturbed => /\ row.numbers.recoveries <= row.numbers.wins
                             /\ row.numbers.wins <= row.numbers.qualified
    BY <1>2, <1>7, CountsNest DEF RollupSound
  <1>9. ASSUME NEW d \in R!Days
        PROVE  /\ snapshot'[d].numbers.missed <= calls'[d]
               /\ ~snapshot'[d].disturbed =>
                     /\ snapshot'[d].numbers.recoveries <= snapshot'[d].numbers.wins
                     /\ snapshot'[d].numbers.wins <= snapshot'[d].numbers.qualified
    <2>1. CASE d = row.day
      <3>1. snapshot'[d] = [numbers |-> row.numbers, disturbed |-> row.disturbed]
        BY <1>2, <2>1 DEF RollupInv, R!TypeOK
      <3> QED BY <1>2, <1>8, <2>1, <3>1
    <2>2. CASE d # row.day
      <3>1. snapshot'[d] = snapshot[d]
        BY <1>2, <2>2 DEF RollupInv, R!TypeOK
      <3> QED BY <1>2, <3>1 DEF RollupInv, R!SnapshotsAgree
    <2> QED BY <2>1, <2>2
  <1>10. R!SnapshotsAgree'
    BY <1>9 DEF R!SnapshotsAgree
  <1> QED BY <1>3, <1>6, <1>10 DEF RollupInv

\* A missed call is one more of today's.
LEMMA Missing == ASSUME RollupInv, R!MissedCall PROVE RollupInv'
  <1>1. /\ calls[today] < MaxCalls /\ calls' = [calls EXCEPT ![today] = calls[today] + 1]
        /\ UNCHANGED <<deployed, today, lead, snapshot, rollup>>
    BY DEF R!MissedCall
  <1>2. today \in R!Days /\ calls \in [R!Days -> 0 .. MaxCalls] /\ MaxCalls \in Nat
    BY OfficeAssumption DEF RollupInv, R!TypeOK
  <1>3. /\ calls' \in [R!Days -> 0 .. MaxCalls]
        /\ \A d \in R!Days : calls[d] \in Nat /\ calls'[d] \in Nat /\ calls[d] <= calls'[d]
    BY <1>1, <1>2
  <1>4. R!TypeOK'
    BY <1>1, <1>3 DEF RollupInv, R!TypeOK
  <1>5. R!SnapshotsAgree'
    <2> SUFFICES ASSUME NEW d \in R!Days
                 PROVE  snapshot[d].numbers.missed <= calls'[d]
      BY <1>1 DEF RollupInv, R!SnapshotsAgree
    <2>1. snapshot[d].numbers.missed \in Nat
      BY <1>2 DEF RollupInv, R!TypeOK, R!Numbers
    <2>2. snapshot[d].numbers.missed <= calls[d]
      BY DEF RollupInv, R!SnapshotsAgree
    <2> QED BY <1>3, <2>1, <2>2
  <1>6. ASSUME NEW r \in Rollups PROVE RollupSound(rollup[r])'
    <2>1. PICK row \in RollupRow : row = rollup[r]
      BY DEF RollupInv, R!TypeOK, RollupRow, Ats
    <2>2. RollupSound(row)
      BY <2>1 DEF RollupInv
    <2>3. row.numbers.missed \in Nat /\ row.day \in R!Days
      BY <1>2 DEF RollupRow, R!Numbers
    <2>4. row.numbers.missed <= calls[row.day] => row.numbers.missed <= calls'[row.day]
      BY <1>3, <2>3
    <2>5. RollupSound(row)'
      BY <1>1, <2>2, <2>4, StaysSound
    <2> QED BY <1>1, <2>1, <2>5 DEF RollupSound
  <1> QED BY <1>4, <1>5, <1>6 DEF RollupInv

\* A lead that is updated disturbs every rollup under way; of one that is not, nothing
\* is said.
LEMMA Updating == ASSUME RollupInv, NEW l \in LeadIds, R!UpdateLead(l) PROVE RollupInv'
  <1>1. PICK s \in R!Stages : lead' = [lead EXCEPT ![l].stage = s, ![l].day = today]
    BY DEF R!UpdateLead
  <1>2. /\ rollup' = [r \in Rollups |-> IF rollup[r].at = "idle" THEN rollup[r]
                                        ELSE [rollup[r] EXCEPT !.disturbed = TRUE]]
        /\ UNCHANGED <<deployed, today, calls, snapshot>>
    BY DEF R!UpdateLead
  <1>3. lead' \in [LeadIds -> [stage : R!Stages, day : R!Days, followed : BOOLEAN]]
    <2> DEFINE Row == [stage : R!Stages, day : R!Days, followed : BOOLEAN]
    <2>1. lead \in [LeadIds -> Row] /\ today \in R!Days
      BY DEF RollupInv, R!TypeOK
    <2>2. PICK old \in Row : old = lead[l]
      BY <2>1
    <2>3. [old EXCEPT !.stage = s, !.day = today] \in Row
      BY <2>1
    <2>4. lead' = [lead EXCEPT ![l] = [old EXCEPT !.stage = s, !.day = today]]
      BY <1>1, <2>2
    <2> HIDE DEF Row
    <2>5. lead' \in [LeadIds -> Row]
      BY <2>1, <2>3, <2>4
    <2> QED BY <2>5 DEF Row
  <1>4. rollup \in [Rollups -> RollupRow]
    BY DEF RollupInv, R!TypeOK, RollupRow, Ats
  <1>5. ASSUME NEW r \in Rollups
        PROVE  /\ rollup'[r] \in RollupRow /\ rollup'[r].numbers = rollup[r].numbers
               /\ rollup'[r].day = rollup[r].day
               /\ rollup'[r].disturbed \/ rollup'[r].at = "idle"
    <2>1. CASE rollup[r].at = "idle"
      BY <1>2, <1>4, <2>1
    <2>2. CASE rollup[r].at # "idle"
      <3>1. PICK row \in RollupRow : row = rollup[r]
        BY <1>4
      <3>2. rollup'[r] = [row EXCEPT !.disturbed = TRUE]
        BY <1>2, <2>2, <3>1
      <3>3. /\ [row EXCEPT !.disturbed = TRUE] \in RollupRow
            /\ [row EXCEPT !.disturbed = TRUE].numbers = row.numbers
            /\ [row EXCEPT !.disturbed = TRUE].day = row.day
            /\ [row EXCEPT !.disturbed = TRUE].disturbed
        BY DEF RollupRow
      <3> QED BY <3>1, <3>2, <3>3
    <2> QED BY <2>1, <2>2
  <1>6. rollup' \in [Rollups -> RollupRow]
    BY <1>2, <1>5
  <1>7. R!TypeOK' /\ R!SnapshotsAgree'
    BY <1>2, <1>3, <1>6 DEF RollupInv, R!TypeOK, R!SnapshotsAgree, RollupRow, Ats
  <1>8. ASSUME NEW r \in Rollups PROVE RollupSound(rollup[r])'
    BY <1>2, <1>5 DEF RollupSound, RollupInv
  <1> QED BY <1>7, <1>8 DEF RollupInv

\* A day begins.
LEMMA DayBegins == ASSUME RollupInv, R!Midnight PROVE RollupInv'
  <1>1. /\ today < MaxDays /\ today' = today + 1
        /\ UNCHANGED <<deployed, calls, lead, snapshot, rollup>>
    BY DEF R!Midnight
  <1>2. today' \in R!Days
    BY <1>1, OfficeAssumption DEF R!Days, RollupInv, R!TypeOK
  <1>3. R!TypeOK' /\ R!SnapshotsAgree'
    BY <1>1, <1>2 DEF RollupInv, R!TypeOK, R!SnapshotsAgree
  <1>4. ASSUME NEW r \in Rollups PROVE RollupSound(rollup[r])'
    <2>1. PICK row : row = rollup[r]
      OBVIOUS
    <2>2. RollupSound(row)'
      BY <1>1, <2>1, StaysSound DEF RollupInv
    <2> QED BY <1>1, <2>1, <2>2 DEF RollupSound
  <1> QED BY <1>3, <1>4 DEF RollupInv

\* At first nothing is counted.
LEMMA RollupInit == ASSUME R!Init PROVE RollupInv
  <1>1. 0 \in 0 .. MaxCalls /\ today \in R!Days /\ 1 \in R!Days
    BY OfficeAssumption DEF R!Init, R!Days
  <1>2. calls \in [R!Days -> 0 .. MaxCalls]
    BY <1>1 DEF R!Init
  <1>3. lead \in [LeadIds -> [stage : R!Stages, day : R!Days, followed : BOOLEAN]]
    <2>1. lead \in [LeadIds -> [stage : {"new"}, day : {1}, followed : BOOLEAN]]
      BY DEF R!Init
    <2> QED BY <1>1, <2>1 DEF R!Stages
  <1>4. rollup \in [Rollups -> RollupRow]
    BY IdleRows DEF R!Init
  <1>5. [numbers |-> R!NoNumbers, disturbed |-> FALSE]
           \in [numbers : R!Numbers, disturbed : BOOLEAN]
    BY IdleRows
  <1>6. snapshot \in [R!Days -> [numbers : R!Numbers, disturbed : BOOLEAN]]
    BY <1>5 DEF R!Init
  <1>7. R!TypeOK
    BY <1>1, <1>2, <1>3, <1>4, <1>6 DEF R!Init, R!TypeOK, RollupRow, Ats
  <1>8. ASSUME NEW r \in Rollups PROVE RollupSound(rollup[r])
    BY <1>7, IdleRows, IdleIsSound DEF R!Init
  <1>9. R!SnapshotsAgree
    <2> SUFFICES ASSUME NEW d \in R!Days
                 PROVE  /\ snapshot[d].numbers = R!NoNumbers /\ calls[d] = 0
                        /\ R!NoNumbers.recoveries <= R!NoNumbers.wins
                        /\ R!NoNumbers.wins <= R!NoNumbers.qualified
                        /\ R!NoNumbers.missed <= 0
      BY DEF R!SnapshotsAgree
    <2> QED BY DEF R!Init, R!NoNumbers
  <1> QED BY <1>7, <1>8, <1>9 DEF RollupInv

\* The invariant is kept.
LEMMA RollupStep == ASSUME RollupInv, R!Next \/ UNCHANGED R!vars PROVE RollupInv'
  <1>1. CASE UNCHANGED R!vars
    <2>1. UNCHANGED <<deployed, today, calls, lead, snapshot, rollup>>
      BY <1>1 DEF R!vars
    <2>2. R!TypeOK' /\ R!SnapshotsAgree'
      BY <2>1 DEF RollupInv, R!TypeOK, R!SnapshotsAgree
    <2>3. ASSUME NEW r \in Rollups PROVE RollupSound(rollup[r])'
      <3>1. PICK row : row = rollup[r]
        OBVIOUS
      <3>2. RollupSound(row)'
        BY <2>1, <3>1, StaysSound DEF RollupInv
      <3> QED BY <2>1, <3>1, <3>2 DEF RollupSound
    <2> QED BY <2>2, <2>3 DEF RollupInv
  <1>2. CASE R!Next
    BY <1>2, Starting, RollupReads, ReadFailing, SnapshotWrites, Missing, Updating, DayBegins
       DEF R!Next
  <1> QED BY <1>1, <1>2

\* The counts of a day's snapshot agree with one another and with the day's calls, unless
\* a lead changed between two reads of the rollup that wrote it, however rollups of
\* the same day overlap.
THEOREM CountsAgree == OfficeSpec => []SnapshotsAgree
  <1> DEFINE Inv == chosen = "rollup" => RollupInv
  <1>1. OfficeInit => Inv
    BY RollupInit DEF OfficeInit
  <1>2. Inv /\ [OfficeNext]_officeVars => Inv'
    BY OneComponent, RollupStep
  <1>3. Inv => SnapshotsAgree
    BY DEF SnapshotsAgree, RollupInv
  <1> QED BY <1>1, <1>2, <1>3, PTL DEF OfficeSpec

-----------------------------------------------------------------------------
(* The hand-off.                                                           *)

\* A hand-off has a task.
Asked(k) == \E n \in 1 .. MaxAttempts : task[<<k, n>>] # "absent"

\* What is known of job k.  A hand-off has run at most once more than something failed,
\* has inserted no task for an attempt to come, and has its task once it went on to
\* the conversation's status.  A follow-up does none of that.
HandSound(k) ==
    /\ Sound(rows[k])
    /\ k \in HandOffs =>
          /\ rows[k].at # "look"
          /\ rows[k].attempts <= cost + 1
          /\ rows[k].state = "ready" => rows[k].attempts <= cost
          /\ rows[k].at \in {"status", "notify", "report"} => Asked(k)
          /\ rows[k].state = "done" => Asked(k)
          /\ \A n \in 1 .. MaxAttempts : task[<<k, n>>] # "absent" => n <= rows[k].attempts
    /\ k \notin HandOffs => rows[k].at \in {"look", "report", "idle"}

\* The types, over the operators of this module.
HandTypes ==
    /\ rows \in [H!Jobs -> JobRows(H!Steps)]
    /\ cost \in 0 .. MaxCost
    /\ task \in [H!Tasks -> {"absent", "open", "done"}]
    /\ conversation \in {"open", "awaiting_human", "awaiting_customer"}

\* The inductive invariant.
HandInv ==
    /\ HandTypes
    /\ \A k \in H!Jobs : HandSound(k)
    /\ conversation = "awaiting_human" => \E k \in HandOffs : Asked(k)

\* The tasks stay, and one for the attempt of k may be added.
TasksOnlyOf(k) ==
    \A t \in H!Tasks : /\ task[t] # "absent" => task'[t] # "absent"
                       /\ task'[t] # "absent" => task[t] # "absent" \/
                                                t = <<k, rows[k].attempts>>

\* The operations of the queue as HandOff sees them are those of E.
LEMMA HandQueue ==
  ASSUME NEW k
  PROVE  /\ \A step : H!Claim(k, step) => E!Claim(k, step)
         /\ \A step : H!GoesOn(k, step) => E!GoesOn(k, step)
         /\ H!StepFails(k) => E!StepFails(k)
         /\ H!Raises(k) => rows' = E!Failed(rows, k) /\ cost' = cost
         /\ H!Buries(k) => /\ rows' = [rows EXCEPT ![k].state = "dead", ![k].at = "idle"]
                           /\ cost' = cost
         /\ H!Complete(k) => /\ rows[k].at = "report" /\ cost' = cost
                             /\ rows' = [rows EXCEPT ![k].state = "done", ![k].at = "idle"]
  <1>1. H!Running = E!Running
    BY DEF H!Running, E!Running
  <1>2. H!Cardinality(H!Running) = E!Cardinality(E!Running)
    BY <1>1 DEF H!Cardinality, E!Cardinality
  <1>3. \A step : H!Claim(k, step) => E!Claim(k, step)
    BY <1>2 DEF H!Claim, E!Claim
  <1>4. /\ \A step : H!GoesOn(k, step) => E!GoesOn(k, step)
        /\ H!StepFails(k) => E!StepFails(k)
        /\ H!Raises(k) => rows' = E!Failed(rows, k) /\ cost' = cost
    BY DEF H!GoesOn, E!GoesOn, H!GoesOnWith, E!GoesOnWith, H!Fault, E!Fault, H!Failed, E!Failed,
           H!StepFails, E!StepFails, H!Raises
  <1> QED BY <1>3, <1>4 DEF H!Buries, H!Complete

\* A step of job k leaves what is known of the others.
LEMMA HandOthers ==
  ASSUME HandInv, NEW k \in H!Jobs, OnlyRow(k), cost' \in Nat, cost <= cost', TasksOnlyOf(k),
         NEW j \in H!Jobs, j # k
  PROVE  HandSound(j)'
  <1>1. rows'[j] = rows[j] /\ HandSound(j)
    BY DEF HandInv, HandTypes, OnlyRow
  <1>2. PICK row \in JobRows(H!Steps) : row = rows[j]
    BY DEF HandInv, HandTypes
  <1>3. row.attempts \in Nat /\ cost \in Nat
    BY OfficeAssumption, ExecutionAssumption DEF JobRows, HandInv, HandTypes
  <1>4. j \in HandOffs => /\ Asked(j) => Asked(j)'
                          /\ \A n \in 1 .. MaxAttempts : task'[<<j, n>>] # "absent"
                                                         => task[<<j, n>>] # "absent"
    <2> SUFFICES ASSUME j \in HandOffs, NEW n \in 1 .. MaxAttempts
                 PROVE  task[<<j, n>>] # "absent" <=> task'[<<j, n>>] # "absent"
      BY DEF Asked
    <2>1. <<j, n>> \in H!Tasks /\ <<j, n>> # <<k, rows[k].attempts>>
      BY DEF H!Tasks
    <2> QED BY <2>1 DEF TasksOnlyOf
  <1> QED BY <1>1, <1>2, <1>3, <1>4 DEF HandSound

\* A hand-off is claimed, or a follow-up.
LEMMA HandStarts == ASSUME HandInv, NEW k \in H!Jobs, H!Start(k) PROVE HandInv'
  <1> DEFINE step == IF k \in HandOffs THEN "task" ELSE "look"
  <1>1. H!Claim(k, step) /\ UNCHANGED <<task, conversation>>
    BY DEF H!Start
  <1>2. E!Claim(k, step)
    BY <1>1, HandQueue
  <1>3. step \in H!Steps /\ HandTypes /\ Sound(rows[k])
    BY DEF H!Steps, HandInv, HandSound
  <1>4. /\ rows' \in [H!Jobs -> JobRows(H!Steps)] /\ cost' = cost
        /\ OnlyRow(k)
        /\ rows[k].state = "ready" /\ rows[k].at = "idle"
        /\ rows'[k] = [state |-> "running", attempts |-> rows[k].attempts + 1, at |-> step]
    <2> HIDE DEF step
    <2> QED BY <1>2, <1>3, RowClaimed DEF HandTypes
  <1>5. PICK n \in Nat : n = rows[k].attempts
    BY <1>3, ExecutionAssumption DEF HandTypes, JobRows
  <1>6. cost \in Nat /\ HandTypes'
    BY <1>1, <1>3, <1>4, OfficeAssumption DEF HandTypes
  <1>7. HandSound(k)'
    <2>1. HandSound(k)
      BY DEF HandInv
    <2> QED BY <1>1, <1>4, <1>5, <1>6, <2>1 DEF HandSound, Sound
  <1>8. \A j \in H!Jobs : HandSound(j)'
    BY <1>1, <1>4, <1>6, <1>7, HandOthers DEF TasksOnlyOf
  <1>9. conversation' = "awaiting_human" => \E j \in HandOffs : Asked(j)'
    BY <1>1 DEF HandInv, Asked
  <1> QED BY <1>6, <1>8, <1>9 DEF HandInv

\* A step of job k that fails, ends, or goes on with the tasks and the conversation as
\* they are.
LEMMA HandGoesOn ==
  ASSUME HandInv, NEW k \in H!Jobs, rows' \in [H!Jobs -> JobRows(H!Steps)], OnlyRow(k),
         cost' \in 0 .. MaxCost, UNCHANGED <<task, conversation>>,
         NEW n \in Nat, n = rows[k].attempts, rows'[k].attempts = n,
         \/ rows'[k].state = "dead" /\ rows'[k].at = "idle" /\ cost' = cost
         \/ Fell(rows[k], rows'[k]) /\ (cost' = cost + 1 \/ (cost' = cost /\ k \notin HandOffs))
         \/ /\ rows'[k].state = "done" /\ rows'[k].at = "idle" /\ cost' = cost
            /\ k \in HandOffs => Asked(k)
         \/ /\ rows[k].at = "look" /\ At(rows[k], rows'[k], "report") /\ cost' = cost
         \/ /\ rows[k].at = "notify" /\ At(rows[k], rows'[k], "report") /\ cost' = cost
  PROVE  HandInv'
  <1>1. HandTypes'
    BY DEF HandInv, HandTypes
  <1>2. cost \in Nat /\ cost' \in Nat
    BY OfficeAssumption DEF HandInv, HandTypes
  <1>3. cost <= cost'
    BY <1>2
  <1>4. HandSound(k)
    BY DEF HandInv
  <1>5. HandSound(k)'
    <2>1. Asked(k)' <=> Asked(k)
      BY DEF Asked
    <2>2. rows[k] \in JobRows(H!Steps) /\ rows'[k] \in JobRows(H!Steps)
      BY DEF HandInv, HandTypes
    <2>3. Sound(rows'[k])
      BY <1>4, <2>2 DEF HandSound, Sound, Fell, At, JobRows, JobStates
    <2>4. k \notin HandOffs => rows'[k].at \in {"look", "report", "idle"}
      BY <1>4 DEF HandSound, Fell, At
    <2>5. k \in HandOffs => /\ rows'[k].at # "look"
                            /\ rows'[k].attempts <= cost' + 1
                            /\ rows'[k].state = "ready" => rows'[k].attempts <= cost'
      BY <1>2, <1>4 DEF HandSound, Fell, At, Sound
    <2>6. k \in HandOffs => /\ rows'[k].at \in {"status", "notify", "report"} => Asked(k)
                            /\ rows'[k].state = "done" => Asked(k)
      BY <1>4 DEF HandSound, Fell, At, Sound
    <2>7. k \in HandOffs =>
            \A i \in 1 .. MaxAttempts : task'[<<k, i>>] # "absent" => i <= rows'[k].attempts
      BY <1>4 DEF HandSound
    <2> QED BY <2>1, <2>3, <2>4, <2>5, <2>6, <2>7 DEF HandSound
  <1>6. \A j \in H!Jobs : HandSound(j)'
    BY <1>2, <1>3, <1>5, HandOthers DEF TasksOnlyOf
  <1>7. conversation' = "awaiting_human" => \E j \in HandOffs : Asked(j)'
    BY DEF HandInv, Asked
  <1> QED BY <1>1, <1>6, <1>7 DEF HandInv

\* The steps of job k that leave the tasks and the conversation as they are.
LEMMA HandCalls ==
  ASSUME HandInv, NEW k \in H!Jobs,
         \/ H!NoConversation(k) \/ H!Notify(k) \/ H!FollowUp(k)
         \/ (H!StepFails(k) \/ H!Complete(k)) /\ UNCHANGED <<task, conversation, lead>>
  PROVE  HandInv'
  <1>1. UNCHANGED <<task, conversation>>
    BY DEF H!NoConversation, H!Notify, H!FollowUp
  <1>2. HandTypes /\ HandSound(k)
    BY DEF HandInv
  <1>3. rows \in [H!Jobs -> JobRows(H!Steps)] /\ cost \in 0 .. MaxCost
    BY <1>2 DEF HandTypes
  <1>4. PICK n \in Nat : n = rows[k].attempts
    BY <1>3, ExecutionAssumption DEF JobRows
  <1>5. "report" \in H!Steps
    BY DEF H!Steps
  <1>6. CASE H!NoConversation(k)
    <2>1. H!Buries(k)
      BY <1>6 DEF H!NoConversation
    <2>2. rows' = [rows EXCEPT ![k].state = "dead", ![k].at = "idle"] /\ cost' = cost
      BY <2>1, HandQueue
    <2>3. /\ rows' \in [H!Jobs -> JobRows(H!Steps)] /\ OnlyRow(k)
          /\ rows'[k] = [state |-> "dead", attempts |-> rows[k].attempts, at |-> "idle"]
      BY <1>3, <2>2, RowEnds
    <2> QED BY <1>1, <1>3, <1>4, <2>2, <2>3, HandGoesOn
  <1>7. ASSUME E!GoesOn(k, "report"), rows[k].at \in {"notify", "look"}
        PROVE  HandInv'
    <2>1. /\ rows' \in [H!Jobs -> JobRows(H!Steps)] /\ cost' \in 0 .. MaxCost /\ OnlyRow(k)
          /\ \/ cost' = cost /\ At(rows[k], rows'[k], "report")
             \/ cost' = cost + 1 /\ Fell(rows[k], rows'[k])
      BY <1>3, <1>5, <1>7, RowGoesOn
    <2>2. rows'[k].attempts = n
      BY <1>4, <2>1 DEF At, Fell
    <2>3. CASE cost' = cost /\ At(rows[k], rows'[k], "report")
      <3>1. CASE rows[k].at = "look"
        BY <1>1, <1>4, <2>1, <2>2, <2>3, <3>1, HandGoesOn
      <3>2. CASE rows[k].at = "notify"
        BY <1>1, <1>4, <2>1, <2>2, <2>3, <3>2, HandGoesOn
      <3> QED BY <1>7, <3>1, <3>2
    <2>4. CASE cost' = cost + 1 /\ Fell(rows[k], rows'[k])
      BY <1>1, <1>4, <2>1, <2>2, <2>4, HandGoesOn
    <2> QED BY <2>1, <2>3, <2>4
  <1>8. CASE H!Notify(k)
    BY <1>7, <1>8, HandQueue DEF H!Notify
  <1>9. CASE H!FollowUp(k)
    <2>1. CASE H!GoesOn(k, "report")
      BY <1>7, <1>9, <2>1, HandQueue DEF H!FollowUp
    <2>2. CASE H!Raises(k)
      <3>1. rows' = E!Failed(rows, k) /\ cost' = cost
        BY <2>2, HandQueue
      <3>2. rows' \in [H!Jobs -> JobRows(H!Steps)] /\ OnlyRow(k) /\ Fell(rows[k], rows'[k])
        BY <1>3, <3>1, RowFails
      <3>3. k \notin HandOffs
        BY <1>2, <1>9 DEF HandSound, H!FollowUp
      <3>4. rows'[k].attempts = n
        BY <1>4, <3>2 DEF Fell
      <3> QED BY <1>1, <1>3, <1>4, <3>1, <3>2, <3>3, <3>4, HandGoesOn
    <2> QED BY <1>9, <2>1, <2>2 DEF H!FollowUp
  <1>10. CASE H!StepFails(k)
    <2>1. E!StepFails(k)
      BY <1>10, HandQueue
    <2>2. /\ rows' \in [H!Jobs -> JobRows(H!Steps)] /\ cost' \in 0 .. MaxCost
          /\ OnlyRow(k) /\ cost' = cost + 1 /\ Fell(rows[k], rows'[k])
      BY <1>3, <2>1, RowStepFails
    <2>3. rows'[k].attempts = n
      BY <1>4, <2>2 DEF Fell
    <2>4. \/ rows'[k].state = "dead" /\ rows'[k].at = "idle" /\ cost' = cost
          \/ Fell(rows[k], rows'[k]) /\
                                   (cost' = cost + 1 \/ (cost' = cost /\ k \notin HandOffs))
      BY <2>2
    <2> QED BY <1>1, <1>4, <2>2, <2>3, <2>4, HandGoesOn
  <1>11. CASE H!Complete(k)
    <2>1. /\ rows[k].at = "report" /\ cost' = cost
          /\ rows' = [rows EXCEPT ![k].state = "done", ![k].at = "idle"]
      BY <1>11, HandQueue
    <2>2. /\ rows' \in [H!Jobs -> JobRows(H!Steps)] /\ OnlyRow(k)
          /\ rows'[k] = [state |-> "done", attempts |-> rows[k].attempts, at |-> "idle"]
      BY <1>3, <2>1, RowEnds
    <2>3. k \in HandOffs => Asked(k)
      BY <1>2, <2>1 DEF HandSound
    <2> QED BY <1>1, <1>3, <1>4, <2>1, <2>2, <2>3, HandGoesOn
  <1> QED BY <1>6, <1>8, <1>9, <1>10, <1>11

\* The task is inserted, for this attempt, whether or not the handler learns of it.
LEMMA HandInserts == ASSUME HandInv, NEW k \in H!Jobs, H!InsertTask(k) PROVE HandInv'
  <1>1. /\ rows[k].at = "task" /\ H!GoesOn(k, "status") /\ conversation' = conversation
        /\ task' = [task EXCEPT ![<<k, rows[k].attempts>>] = "open"]
    BY DEF H!InsertTask
  <1>2. HandTypes /\ HandSound(k)
    BY DEF HandInv
  <1>3. /\ rows' \in [H!Jobs -> JobRows(H!Steps)] /\ cost' \in 0 .. MaxCost /\ OnlyRow(k)
        /\ \/ cost' = cost /\ At(rows[k], rows'[k], "status")
           \/ cost' = cost + 1 /\ Fell(rows[k], rows'[k])
    <2>1. E!GoesOn(k, "status") /\ "status" \in H!Steps
      BY <1>1, HandQueue DEF H!Steps
    <2> QED BY <1>2, <2>1, RowGoesOn DEF HandTypes
  <1>4. k \in HandOffs
    BY <1>1, <1>2 DEF HandSound
  <1>5. PICK n \in 1 .. MaxAttempts : n = rows[k].attempts
    BY <1>1, <1>2, ExecutionAssumption DEF HandTypes, HandSound, Sound, JobRows
  <1>6. <<k, n>> \in H!Tasks
    BY <1>4 DEF H!Tasks
  <1>7. /\ task' \in [H!Tasks -> {"absent", "open", "done"}] /\ task'[<<k, n>>] = "open"
        /\ \A t \in H!Tasks : t # <<k, n>> => task'[t] = task[t]
    BY <1>1, <1>2, <1>5, <1>6 DEF HandTypes
  <1>8. HandTypes' /\ TasksOnlyOf(k)
    BY <1>1, <1>2, <1>3, <1>5, <1>7 DEF HandTypes, TasksOnlyOf
  <1>9. cost \in Nat /\ cost' \in Nat /\ cost <= cost'
    BY <1>2, <1>3, OfficeAssumption DEF HandTypes
  <1>10. HandSound(k)'
    <2>1. Asked(k)'
      BY <1>7 DEF Asked
    <2>2. rows'[k].attempts = n
      BY <1>3, <1>5 DEF At, Fell
    <2>3. \A i \in 1 .. MaxAttempts : task'[<<k, i>>] # "absent" => i <= n
      <3> SUFFICES ASSUME NEW i \in 1 .. MaxAttempts, task'[<<k, i>>] # "absent" PROVE i <= n
        OBVIOUS
      <3>1. CASE i = n
        BY <3>1
      <3>2. CASE i # n
        <4>1. <<k, i>> \in H!Tasks /\ <<k, i>> # <<k, n>>
          BY <1>4, <3>2 DEF H!Tasks
        <4> QED BY <1>2, <1>4, <1>5, <1>7, <4>1 DEF HandSound
      <3> QED BY <3>1, <3>2
    <2>4. rows[k] \in JobRows(H!Steps) /\ rows'[k] \in JobRows(H!Steps)
      BY <1>2, <1>3 DEF HandTypes
    <2>5. Sound(rows'[k])
      BY <1>1, <1>2, <1>3, <2>4 DEF HandSound, Sound, Fell, At, JobRows, JobStates
    <2>6. rows[k].state # "done" /\ n <= cost + 1
      BY <1>1, <1>2, <1>4, <1>5 DEF HandSound, Sound
    <2>7. rows'[k].at # "look" /\ (rows'[k].state = "ready" => n <= cost')
      BY <1>1, <1>2, <1>3, <1>9, <2>6 DEF At, Fell, HandSound, Sound
    <2>8. rows'[k].attempts <= cost' + 1
      BY <1>9, <2>2, <2>6
    <2>9. \A i \in 1 .. MaxAttempts : task'[<<k, i>>] # "absent" => i <= rows'[k].attempts
      BY <2>2, <2>3
    <2>10. rows'[k].state = "ready" => rows'[k].attempts <= cost'
      BY <2>2, <2>7
    <2> QED BY <1>4, <2>1, <2>5, <2>7, <2>8, <2>9, <2>10 DEF HandSound
  <1>11. \A j \in H!Jobs : HandSound(j)'
    BY <1>3, <1>8, <1>9, <1>10, HandOthers
  <1>12. conversation' = "awaiting_human" => \E j \in HandOffs : Asked(j)'
    BY <1>4, <1>7 DEF Asked
  <1> QED BY <1>8, <1>11, <1>12 DEF HandInv

\* The conversation awaits a person only of a hand-off that has its task.
LEMMA HandAwaits == ASSUME HandInv, NEW k \in H!Jobs, H!AwaitHuman(k) PROVE HandInv'
  <1>1. /\ rows[k].at = "status" /\ H!GoesOn(k, "notify") /\ conversation' = "awaiting_human"
        /\ task' = task
    BY DEF H!AwaitHuman
  <1>2. HandTypes /\ HandSound(k)
    BY DEF HandInv
  <1>3. /\ rows' \in [H!Jobs -> JobRows(H!Steps)] /\ cost' \in 0 .. MaxCost /\ OnlyRow(k)
        /\ \/ cost' = cost /\ At(rows[k], rows'[k], "notify")
           \/ cost' = cost + 1 /\ Fell(rows[k], rows'[k])
    <2>1. E!GoesOn(k, "notify") /\ "notify" \in H!Steps
      BY <1>1, HandQueue DEF H!Steps
    <2> QED BY <1>2, <2>1, RowGoesOn DEF HandTypes
  <1>4. k \in HandOffs /\ Asked(k)
    BY <1>1, <1>2 DEF HandSound
  <1>5. HandTypes' /\ TasksOnlyOf(k)
    BY <1>1, <1>2, <1>3 DEF HandTypes, TasksOnlyOf
  <1>6. cost \in Nat /\ cost' \in Nat /\ cost <= cost'
    BY <1>2, <1>3, OfficeAssumption DEF HandTypes
  <1>7. HandSound(k)'
    <2>1. Asked(k)'
      BY <1>1, <1>4 DEF Asked
    <2>2. PICK n \in Nat : n = rows[k].attempts
      BY <1>2, ExecutionAssumption DEF HandTypes, JobRows
    <2>3. rows'[k].attempts = n
      BY <1>3, <2>2 DEF At, Fell
    <2>4. rows[k] \in JobRows(H!Steps) /\ rows'[k] \in JobRows(H!Steps)
      BY <1>2, <1>3 DEF HandTypes
    <2>5. Sound(rows'[k])
      BY <1>1, <1>2, <1>3, <2>4 DEF HandSound, Sound, Fell, At, JobRows, JobStates
    <2>6. n <= cost + 1
      BY <1>2, <1>4, <2>2 DEF HandSound
    <2>7. rows'[k].at # "look" /\ (rows'[k].state = "ready" => n <= cost')
      BY <1>1, <1>2, <1>3, <1>6, <2>6 DEF At, Fell, HandSound, Sound
    <2>8. \A i \in 1 .. MaxAttempts : task'[<<k, i>>] # "absent" => i <= n
      BY <1>1, <1>2, <1>4, <2>2 DEF HandSound
    <2> QED BY <1>4, <1>6, <2>1, <2>3, <2>5, <2>6, <2>7, <2>8 DEF HandSound
  <1>8. \A j \in H!Jobs : HandSound(j)'
    BY <1>3, <1>5, <1>6, <1>7, HandOthers
  <1>9. conversation' = "awaiting_human" => \E j \in HandOffs : Asked(j)'
    BY <1>1, <1>4 DEF Asked
  <1> QED BY <1>5, <1>8, <1>9 DEF HandInv

\* A task that is reviewed stays; so does everything else a person or the clock does.
LEMMA HandElse ==
  ASSUME HandInv,
         \/ H!AwaitCustomer \/ H!LeadCloses
         \/ \E t \in H!Tasks : H!UpdateTask(t)
         \/ UNCHANGED H!vars
  PROVE  HandInv'
  <1>1. UNCHANGED <<rows, cost>>
    BY DEF H!AwaitCustomer, H!LeadCloses, H!UpdateTask, H!vars
  <1>2. conversation' \in {conversation, "awaiting_customer"}
    BY DEF H!AwaitCustomer, H!LeadCloses, H!UpdateTask, H!vars
  <1>3. \/ task' = task
        \/ \E t \in H!Tasks, s \in {"open", "done"} :
              task[t] # "absent" /\ task' = [task EXCEPT ![t] = s]
    BY DEF H!AwaitCustomer, H!LeadCloses, H!UpdateTask, H!vars
  <1>4. /\ task' \in [H!Tasks -> {"absent", "open", "done"}]
        /\ \A t \in H!Tasks : task'[t] # "absent" <=> task[t] # "absent"
    BY <1>3 DEF HandInv, HandTypes
  <1>5. HandTypes'
    BY <1>1, <1>2, <1>4 DEF HandInv, HandTypes
  <1>6. ASSUME NEW k \in HandOffs
        PROVE  \A n \in 1 .. MaxAttempts :
                  task'[<<k, n>>] # "absent" <=> task[<<k, n>>] # "absent"
    BY <1>4 DEF H!Tasks
  <1>7. ASSUME NEW k \in HandOffs PROVE Asked(k)' <=> Asked(k)
    BY <1>6 DEF Asked
  <1>8. ASSUME NEW k \in H!Jobs PROVE HandSound(k)'
    BY <1>1, <1>6, <1>7 DEF HandInv, HandSound
  <1>9. conversation' = "awaiting_human" => \E k \in HandOffs : Asked(k)'
    BY <1>2, <1>7 DEF HandInv
  <1> QED BY <1>5, <1>8, <1>9 DEF HandInv

\* At first no one was asked.
LEMMA HandInit == ASSUME H!Init PROVE HandInv
  <1>1. /\ H!Ready \in JobRows(H!Steps) /\ Sound(H!Ready) /\ H!Ready.attempts = 0
        /\ H!Ready.at = "idle" /\ H!Ready.state = "ready"
    BY ExecutionAssumption DEF H!Ready, H!Absent, JobRows, JobStates, Sound
  <1>2. HandTypes
    BY <1>1, OfficeAssumption DEF H!Init, HandTypes
  <1>3. ASSUME NEW k \in H!Jobs PROVE HandSound(k)
    <2>1. rows[k] = H!Ready /\ cost = 0
      BY DEF H!Init
    <2>2. k \in HandOffs => \A n \in 1 .. MaxAttempts : task[<<k, n>>] = "absent"
      BY DEF H!Init, H!Tasks
    <2> QED BY <1>1, <2>1, <2>2 DEF HandSound
  <1>4. conversation # "awaiting_human"
    BY DEF H!Init
  <1> QED BY <1>2, <1>3, <1>4 DEF HandInv

\* The invariant is kept.
LEMMA HandStep == ASSUME HandInv, H!Next \/ UNCHANGED H!vars PROVE HandInv'
  BY HandStarts, HandCalls, HandInserts, HandAwaits, HandElse DEF H!Next

\* There are no more tasks of a job than attempts.
LEMMA TasksCounted ==
  ASSUME HandInv, NEW k \in HandOffs
  PROVE  H!Cardinality(H!Of(k)) <= 1 + cost
  <1>1. k \in H!Jobs /\ HandSound(k) /\ HandTypes
    BY DEF HandInv, H!Jobs
  <1>2. PICK n \in 0 .. MaxAttempts : n = rows[k].attempts
    BY <1>1 DEF HandTypes, JobRows
  <1>3. n \in Nat /\ cost \in Nat /\ n <= cost + 1
    BY <1>1, <1>2, OfficeAssumption, ExecutionAssumption DEF HandSound, HandTypes
  <1> DEFINE f == [t \in H!Of(k) |-> t[2]]
  <1>4. \A t \in H!Of(k) : t[2] \in 1 .. n /\ t = <<k, t[2]>>
    BY <1>1, <1>2, <1>3 DEF H!Of, H!Tasks, HandSound
  <1>5. f \in Injection(H!Of(k), 1 .. n)
    <2>1. f \in [H!Of(k) -> 1 .. n]
      BY <1>4
    <2>2. ASSUME NEW s \in H!Of(k), NEW t \in H!Of(k), f[s] = f[t] PROVE s = t
      BY <1>4, <2>2
    <2> QED BY <2>1, <2>2 DEF Injection, IsInjective
  <1>6. IsFiniteSet(1 .. n) /\ Cardinality(1 .. n) = n
    <2>1. 1 \in Int /\ n \in Int
      BY <1>3
    <2> QED BY <1>3, <2>1, FS_Interval
  <1>7. IsFiniteSet(H!Of(k)) /\ Cardinality(H!Of(k)) <= n
    <2> HIDE DEF f
    <2> QED BY <1>5, <1>6, FS_Injection
  <1>8. Cardinality(H!Of(k)) \in Nat
    BY <1>7, FS_CardinalityType
  <1>9. Cardinality(H!Of(k)) <= 1 + cost
    BY <1>3, <1>7, <1>8
  <1> QED BY <1>9, Cardinalities

\* A hand-off that is done has asked a person, who was asked again only for a fault, and
\* no conversation awaits a person that nobody asked, whichever call of which attempt
\* fails and whatever is done to the tasks.
THEOREM SomebodyWasAsked == OfficeSpec => []HandOffHasItsTask
  <1> DEFINE Inv == chosen = "handoff" => HandInv
  <1>1. OfficeInit => Inv
    BY HandInit DEF OfficeInit
  <1>2. Inv /\ [OfficeNext]_officeVars => Inv'
    BY OneComponent, HandStep
  <1>3. ASSUME HandInv, NEW k \in HandOffs, Asked(k) PROVE H!Of(k) # {}
    <2>1. PICK n \in 1 .. MaxAttempts : task[<<k, n>>] # "absent"
      BY <1>3 DEF Asked
    <2>2. <<k, n>> \in H!Of(k)
      BY <2>1 DEF H!Of, H!Tasks
    <2> QED BY <2>2
  <1>4. ASSUME HandInv PROVE H!HandOffHasItsTask
    BY <1>3, <1>4, TasksCounted DEF H!HandOffHasItsTask, HandInv, HandSound, H!Jobs
  <1>5. Inv => HandOffHasItsTask
    BY <1>4 DEF HandOffHasItsTask
  <1> QED BY <1>1, <1>2, <1>5, PTL DEF OfficeSpec

-----------------------------------------------------------------------------
(* Quotes.                                                                  *)

\* Quotes runs as it is specified, whichever component is chosen: what its theorems say
\* holds here.
THEOREM QuotesInOffice == OfficeSpec => Spec
  <1>1. OfficeInit => Init
    BY DEF OfficeInit
  <1>2. [OfficeNext]_officeVars => [Next]_vars
    BY DEF OfficeNext, officeVars
  <1> QED BY <1>1, <1>2, PTL DEF OfficeSpec, Spec
==============================================================================
