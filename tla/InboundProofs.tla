---------------------------- MODULE InboundProofs ----------------------------
(***************************************************************************)
(* What InboundEvents guarantees for any calls, deliveries, attempts and    *)
(* faults.                                                                  *)
(*                                                                          *)
(* InboundInv says where a handler can be and what it has written by then   *)
(* (KeyInv, for each key), and what the tables hold together (TablesInv).   *)
(* A handler changes one key's row and only adds to the tables, so that the *)
(* other keys stand still (StandingStill), and a call that fails leaves a   *)
(* sound row wherever the handler was (RaisingKeeps).  What is left is one  *)
(* lemma for each call: what it wrote is what the next step relies on.      *)
(***************************************************************************)
EXTENDS InboundEvents, FiniteSetTheorems, TLAPS

\* The steps at which the handler knows its conversation, and those after the
\* message was stored or skipped.
Recording == {"message", "command", "commandEvent"}
Concluding == {"audit", "textback", "classify", "report"}
Resolving == {"contact", "newContact", "conversation", "newConversation"}

\* What a job's row promises by itself.
JobSound(k) ==
    /\ job[k].state = "absent" => job[k].attempts = 0
    /\ job[k].state # "absent" => Payload(k) \in Deliveries /\ KeyOf(Payload(k)) = k
    /\ job[k].state = "ready" => job[k].attempts < MaxAttempts
    /\ job[k].state = "running" <=> at[k] # "idle"

\* The handler holds a conversation exactly from the resolution of a known caller's
\* on, and it is an open one.
Placed(k) ==
    /\ at[k] \in {"idle", "route"} \cup Resolving => conv[k] = NoConversation
    /\ at[k] \in Resolving \cup Recording => Payload(k).known
    /\ at[k] \in Recording \cup Concluding => (conv[k] # NoConversation <=> Payload(k).known)
    /\ conv[k] # NoConversation => conv[k] \in conversations

\* A command that ends the handler: STOP or HELP.
EndsHere(k) == IsCommand(k) /\ Payload(k).text # "start"

\* The steps the handler reaches are those its job calls for.
OnCourse(k) ==
    /\ at[k] = "message" => AfterConversation(k) = "message"
    /\ at[k] \in {"command", "commandEvent"} => IsCommand(k)
    /\ at[k] = "commandEvent" => Payload(k).text # "help"
    /\ at[k] \in {"audit", "textback", "classify"} => ~(EndsHere(k) /\ Payload(k).known)
    /\ at[k] = "textback" => k.type = "call.missed" /\ Payload(k).known
    /\ at[k] = "classify" => k.type # "call.started"

\* Past the insert the message is there, with the handler's conversation.
Recorded(k) ==
    at[k] \in {"command", "commandEvent"} \cup Concluding /\ Payload(k).known
        /\ AfterConversation(k) = "message"
    => [key |-> k, conv |-> conv[k]] \in messages

\* What the job's success will vouch for, and how much of it is there at each step.
Handled(k) ==
    IF EndsHere(k) /\ Payload(k).known
    THEN /\ Payload(k).text = "stop" => <<"stop", k>> \in events
         /\ Payload(k).text = "help" => <<"help", k>> \in enqueued
    ELSE /\ <<"inbound", k>> \in events
         /\ k.type # "call.started" => <<"classify", k>> \in enqueued
         /\ k.type = "call.missed" /\ Payload(k).known =>
               \E v \in conversations : <<"textback", v, k.call>> \in enqueued
Progress(k) ==
    /\ at[k] \in {"textback", "classify"} => <<"inbound", k>> \in events
    /\ at[k] = "classify" /\ k.type = "call.missed" /\ Payload(k).known =>
          \E v \in conversations : <<"textback", v, k.call>> \in enqueued
    /\ at[k] = "report" \/ Succeeded(k) => Handled(k)

\* What holds of each key.
KeyInv(k) == JobSound(k) /\ Placed(k) /\ OnCourse(k) /\ Recorded(k) /\ Progress(k)

\* insert_message: a call has one message.
OneMessagePerCall ==
    \A m, n \in messages : m.key.call = n.key.call => m = n

\* A text-back was keyed by the conversation the call's message is stored in.
TextBackFollowsMessage ==
    \A v \in conversations, c \in Calls : <<"textback", v, c>> \in enqueued =>
        [key |-> [call |-> c, type |-> "call.missed"], conv |-> v] \in messages

\* Only a job that exists was classified.
ClassifiedWasClaimed ==
    \A k \in Keys : <<"classify", k>> \in enqueued => job[k].state # "absent"

\* What holds of the tables together.
TablesInv ==
    /\ OneMessagePerCall
    /\ TextBackFollowsMessage
    /\ ClassifiedMeansRecorded
    /\ ClassifiedWasClaimed

\* The inductive invariant.
InboundInv ==
    /\ TypeOK
    /\ \A k \in Keys : KeyInv(k)
    /\ TablesInv
-----------------------------------------------------------------------------
(* One key moves at a time, and the tables only grow.                      *)

\* No row, event or downstream job is taken back.
Grows ==
    /\ conversations \subseteq conversations'
    /\ messages \subseteq messages'
    /\ events \subseteq events'
    /\ enqueued \subseteq enqueued'

\* Neither the row nor the handler of a key moves.
Stays(i) == job'[i] = job[i] /\ at'[i] = at[i] /\ conv'[i] = conv[i]

\* What holds of a key goes on to hold while its handler stands still.
LEMMA StandingStill ==
  ASSUME NEW i \in Keys, KeyInv(i), Grows, Stays(i)
  PROVE  KeyInv(i)'
  <1> USE DEF Grows, Stays, Payload
  <1>1. JobSound(i)'
    BY DEF KeyInv, JobSound
  <1>2. Placed(i)'
    BY DEF KeyInv, Placed
  <1>3. OnCourse(i)'
    BY DEF KeyInv, OnCourse, AfterConversation, IsCommand, EndsHere
  <1>4. Recorded(i)'
    BY DEF KeyInv, Recorded, AfterConversation
  <1>5. Handled(i) => Handled(i)'
    BY DEF Handled, EndsHere, IsCommand
  <1>6. Progress(i)'
    BY <1>5 DEF KeyInv, Progress, Succeeded
  <1> QED BY <1>1, <1>2, <1>3, <1>4, <1>6 DEF KeyInv

\* An execution that fails leaves a sound row.
LEMMA FailureKeepsKey ==
  ASSUME TypeOK, NEW k \in Keys, KeyInv(k), at[k] # "idle", Grows,
         NEW state \in {"ready", "dead"}, Leaves(k, state),
         state = "ready" => job[k].attempts < MaxAttempts
  PROVE  KeyInv(k)'
  <1>1. /\ job'[k].state = state
        /\ job'[k].attempts = job[k].attempts
        /\ job'[k].payload = job[k].payload
        /\ at'[k] = "idle"
        /\ conv'[k] = NoConversation
    BY DEF TypeOK, Leaves
  <1>2. job[k].state = "running"
    BY DEF KeyInv, JobSound
  <1>3. JobSound(k)'
    BY <1>1, <1>2 DEF KeyInv, JobSound, Payload
  <1> QED
    BY <1>1, <1>3, Zenon
       DEF KeyInv, Placed, OnCourse, Recorded, Progress, Recording, Concluding,
           Resolving, Succeeded

\* No other key moves.
Alone(k) == \A i \in Keys : i # k => Stays(i)

\* The row and the local conversation stay in their types, and the payload stays.
HandlerTypes ==
    /\ job' \in [Keys -> [state : JobStates, attempts : 0 .. MaxAttempts,
                          payload : Deliveries \cup {NoDelivery}]]
    /\ at' \in [Keys -> Steps]
    /\ conv' \in [Keys -> Keys \cup {NoConversation}]
    /\ faults' \in 0 .. MaxFaults

\* No key moves but this one, whose job still is what it was enqueued with.
Keeps(k) == /\ HandlerTypes /\ Alone(k)
            /\ job[k].state # "absent" => job'[k].state # "absent"
            /\ Payload(k)' = Payload(k)

\* Leaving moves one key.
LEMMA LeavingKeeps ==
  ASSUME TypeOK, NEW k \in Keys, NEW state \in JobStates \ {"absent"}, Leaves(k, state),
         faults' \in 0 .. MaxFaults
  PROVE  Keeps(k)
  <1>1. job' \in [Keys -> [state : JobStates, attempts : 0 .. MaxAttempts,
                           payload : Deliveries \cup {NoDelivery}]]
    BY DEF TypeOK, Leaves
  <1>2. at' \in [Keys -> Steps] /\ conv' \in [Keys -> Keys \cup {NoConversation}]
    BY DEF TypeOK, Leaves, Steps
  <1>3. Alone(k) /\ job'[k].state # "absent" /\ Payload(k)' = Payload(k)
    BY DEF TypeOK, Leaves, Alone, Stays, Payload
  <1> QED BY <1>1, <1>2, <1>3 DEF HandlerTypes, Keeps

\* So does raising, which keeps what holds of it.
LEMMA RaisingKeeps ==
  ASSUME TypeOK, NEW k \in Keys, KeyInv(k), at[k] # "idle", Grows, Raises(k),
         faults' \in 0 .. MaxFaults
  PROVE  Keeps(k) /\ KeyInv(k)'
  <1> DEFINE state == IF job[k].attempts >= MaxAttempts THEN "dead" ELSE "ready"
  <1>1. state \in JobStates \ {"absent"} /\ state \in {"ready", "dead"} /\ Leaves(k, state)
    BY DEF Raises, JobStates
  <1>2. state = "ready" => job[k].attempts < MaxAttempts
    BY BoundsAssumption DEF TypeOK
  <1> HIDE DEF state
  <1> QED BY <1>1, <1>2, LeavingKeeps, FailureKeepsKey

\* A call that was made moves the handler to the next step, or fails it.
LEMMA GoingOnKeeps ==
  ASSUME TypeOK, NEW k \in Keys, KeyInv(k), at[k] # "idle", Grows,
         NEW step \in Steps, GoesOn(k, step)
  PROVE  /\ Keeps(k)
         /\ \/ at'[k] = step /\ job' = job /\ conv' = conv
            \/ KeyInv(k)'
  <1>1. CASE at' = [at EXCEPT ![k] = step] /\ UNCHANGED <<job, conv, faults>>
    BY <1>1 DEF TypeOK, Keeps, HandlerTypes, Alone, Stays, Payload
  <1>2. CASE faults < MaxFaults /\ faults' = faults + 1 /\ Raises(k)
    <2>1. faults' \in 0 .. MaxFaults
      BY <1>2, BoundsAssumption DEF TypeOK
    <2> QED BY <1>2, <2>1, RaisingKeeps
  <1> QED BY <1>1, <1>2 DEF GoesOn

\* So does the resolution of the conversation.
LEMMA UsingKeeps ==
  ASSUME TypeOK, NEW k \in Keys, KeyInv(k), at[k] # "idle", Grows,
         NEW v \in Keys, Uses(k, v)
  PROVE  /\ Keeps(k)
         /\ \/ at'[k] = AfterConversation(k) /\ job' = job /\ conv'[k] = v
            \/ KeyInv(k)'
  <1>1. CASE /\ at' = [at EXCEPT ![k] = AfterConversation(k)]
             /\ conv' = [conv EXCEPT ![k] = v]
             /\ UNCHANGED <<job, faults>>
    <2>1. AfterConversation(k) \in Steps
      BY DEF AfterConversation, Steps
    <2> QED BY <1>1, <2>1 DEF TypeOK, Keeps, HandlerTypes, Alone, Stays, Payload
  <1>2. CASE faults < MaxFaults /\ faults' = faults + 1 /\ Raises(k)
    <2>1. faults' \in 0 .. MaxFaults
      BY <1>2, BoundsAssumption DEF TypeOK
    <2> QED BY <1>2, <2>1, RaisingKeeps
  <1> QED BY <1>1, <1>2 DEF Uses

\* It holds on while messages and downstream jobs stay, for no step changes what a
\* claimed job was enqueued with.
LEMMA TablesStay ==
  ASSUME TypeOK, TablesInv, NEW k \in Keys, Keeps(k), Grows,
         messages' = messages, enqueued' = enqueued
  PROVE  TablesInv'
  <1>1. \A i \in Keys : /\ Payload(i)' = Payload(i)
                        /\ job[i].state # "absent" => job'[i].state # "absent"
    BY DEF Keeps, Alone, Stays, Payload
  <1>2. OneMessagePerCall'
    BY DEF TablesInv, OneMessagePerCall
  <1>3. TextBackFollowsMessage'
    <2> SUFFICES ASSUME NEW v \in conversations', NEW c \in Calls,
                        <<"textback", v, c>> \in enqueued
                 PROVE  [key |-> [call |-> c, type |-> "call.missed"], conv |-> v] \in messages
      BY DEF TextBackFollowsMessage
    <2>1. v \in conversations
      BY DEF TypeOK
    <2> QED BY <2>1 DEF TablesInv, TextBackFollowsMessage
  <1>4. ClassifiedMeansRecorded'
    BY <1>1 DEF TablesInv, ClassifiedMeansRecorded, AfterConversation, Grows
  <1>5. ClassifiedWasClaimed'
    BY <1>1 DEF TablesInv, ClassifiedWasClaimed
  <1> QED BY <1>2, <1>3, <1>4, <1>5 DEF TablesInv

\* The part of TypeOK that is about the tables.
TableTypes ==
    /\ contact \in {"none", "subscribed", "optedOut"}
    /\ conversations \subseteq Keys
    /\ messages \subseteq [key : Keys, conv : conversations]
    /\ events \subseteq {"inbound", "stop", "start"} \X Keys
    /\ enqueued \subseteq ({"help", "classify"} \X Keys) \cup ({"textback"} \X conversations \X Calls)

\* What each of the lemmas below shows of its call.
StepKeeps(k) == Keeps(k) /\ Grows /\ TableTypes' /\ KeyInv(k)' /\ TablesInv'

-----------------------------------------------------------------------------
(* One lemma for each call the handler makes.                              *)

\* Only a running job's handler makes calls, with the payload of its key.
LEMMA AtWork ==
  ASSUME InboundInv, NEW k \in Keys, at[k] # "idle"
  PROVE  /\ TypeOK /\ KeyInv(k) /\ TablesInv /\ TableTypes
         /\ job[k].state = "running"
         /\ Payload(k) \in Delivery
         /\ Payload(k).type = k.type
  <1>1. job[k].state = "running" /\ Payload(k) \in Deliveries /\ KeyOf(Payload(k)) = k
    BY DEF InboundInv, KeyInv, JobSound
  <1> QED BY <1>1, DeliveriesAssumption DEF InboundInv, TypeOK, TableTypes, KeyOf

\* A call that changes no table keeps the invariant wherever it goes on to.
LEMMA ReadKeeps ==
  ASSUME InboundInv, NEW k \in Keys, at[k] # "idle", UNCHANGED tables,
         Keeps(k), KeyInv(k)'
  PROVE  StepKeeps(k)
  <1>1. Grows /\ messages' = messages /\ enqueued' = enqueued
    BY DEF tables, Grows
  <1>2. TableTypes'
    BY AtWork DEF tables, TableTypes
  <1> QED BY <1>1, <1>2, AtWork, TablesStay DEF StepKeeps

\* StepFails: nothing but the row changes.
LEMMA StepFailsKeeps ==
  ASSUME InboundInv, NEW k \in Keys, StepFails(k)
  PROVE  StepKeeps(k)
  <1>1. at[k] # "idle" /\ Raises(k) /\ UNCHANGED tables /\ Grows
    BY DEF StepFails, tables, Grows
  <1>2. faults' \in 0 .. MaxFaults
    BY BoundsAssumption DEF StepFails, InboundInv, TypeOK
  <1> QED BY <1>1, <1>2, AtWork, RaisingKeeps, ReadKeeps

\* resolve_voice_or_sms_channel finds no business: the job is buried with its event.
LEMMA RouteFailsKeeps ==
  ASSUME InboundInv, NEW k \in Keys, RouteFails(k)
  PROVE  StepKeeps(k)
  <1>1. at[k] # "idle" /\ Leaves(k, "dead") /\ Grows /\ TableTypes'
    BY DEF RouteFails, Grows, InboundInv, TypeOK, TableTypes
  <1>2. faults' \in 0 .. MaxFaults
    BY DEF RouteFails, InboundInv, TypeOK
  <1>3. Keeps(k) /\ KeyInv(k)'
    BY <1>1, <1>2, AtWork, LeavingKeeps, FailureKeepsKey DEF JobStates
  <1> QED BY <1>1, <1>3, AtWork, TablesStay DEF RouteFails, StepKeeps

\* A caller without a usable number skips to the audit event without a conversation.
LEMMA RouteKeeps ==
  ASSUME InboundInv, NEW k \in Keys, Route(k)
  PROVE  StepKeeps(k)
  <1> DEFINE step == IF Payload(k).known THEN "contact" ELSE "audit"
  <1>1. at[k] = "route" /\ GoesOn(k, step) /\ UNCHANGED tables /\ Grows /\ step \in Steps
    BY DEF Route, tables, Grows, Steps
  <1>2. ASSUME at'[k] = step, job' = job, conv' = conv
        PROVE  KeyInv(k)'
    <2>1. conv[k] = NoConversation /\ Payload(k)' = Payload(k) /\ job[k].state = "running"
      BY <1>1, <1>2, AtWork DEF KeyInv, Placed, Payload
    <2> QED
      BY <1>1, <1>2, <2>1, AtWork
         DEF KeyInv, JobSound, Placed, OnCourse, Recorded, Progress, Recording, Concluding,
             Resolving, Succeeded
  <1> HIDE DEF step
  <1> QED BY <1>1, <1>2, AtWork, GoingOnKeeps, ReadKeeps

\* upsert_contact: the look-up decides whether there is anything to insert.
LEMMA FindContactKeeps ==
  ASSUME InboundInv, NEW k \in Keys, FindContact(k)
  PROVE  StepKeeps(k)
  <1> DEFINE step == IF contact = "none" THEN "newContact" ELSE "conversation"
  <1>1. at[k] = "contact" /\ GoesOn(k, step) /\ UNCHANGED tables /\ Grows /\ step \in Steps
    BY DEF FindContact, tables, Grows, Steps
  <1>2. ASSUME at'[k] = step, job' = job, conv' = conv
        PROVE  KeyInv(k)'
    BY <1>1, <1>2, AtWork
       DEF KeyInv, JobSound, Placed, OnCourse, Recorded, Progress, Recording, Concluding,
           Resolving, Succeeded, Payload
  <1> HIDE DEF step
  <1> QED BY <1>1, <1>2, AtWork, GoingOnKeeps, ReadKeeps

\* The insert only adds a contact where there is none.
LEMMA InsertContactKeeps ==
  ASSUME InboundInv, NEW k \in Keys, InsertContact(k)
  PROVE  StepKeeps(k)
  <1>1. /\ at[k] = "newContact" /\ GoesOn(k, "conversation")
        /\ Grows /\ messages' = messages /\ enqueued' = enqueued
        /\ TableTypes'
    BY AtWork DEF InsertContact, Grows, TableTypes
  <1>2. ASSUME at'[k] = "conversation", job' = job, conv' = conv
        PROVE  KeyInv(k)'
    BY <1>1, <1>2, AtWork
       DEF KeyInv, JobSound, Placed, OnCourse, Recorded, Progress, Recording, Concluding,
           Resolving, Succeeded, Payload
  <1>3. Keeps(k) /\ KeyInv(k)'
    BY <1>1, <1>2, AtWork, GoingOnKeeps DEF Steps
  <1> QED BY <1>1, <1>3, AtWork, TablesStay DEF StepKeeps

\* A handler that takes up an open conversation stores its message in it next, or has
\* nothing to store.
LEMMA TakesUp ==
  ASSUME InboundInv, NEW k \in Keys, at[k] \in {"conversation", "newConversation"}, Grows,
         NEW v \in Keys, v \in conversations',
         at'[k] = AfterConversation(k), job' = job, conv'[k] = v
  PROVE  KeyInv(k)'
  <1>1. /\ Payload(k)' = Payload(k)
        /\ v # NoConversation
        /\ AfterConversation(k) \in {"audit", "message"}
        /\ AfterConversation(k) = "audit" => ~IsCommand(k)
    BY DEF Payload, Keys, NoConversation, AfterConversation, EventTypes, CallTypes, IsCommand
  <1>2. (AfterConversation(k))' = AfterConversation(k) /\ IsCommand(k)' = IsCommand(k)
    BY <1>1 DEF AfterConversation, IsCommand
  <1>3. JobSound(k)'
    BY <1>1, AtWork DEF KeyInv, JobSound
  <1>4. Placed(k)'
    BY <1>1, AtWork DEF KeyInv, Placed, Recording, Concluding, Resolving
  <1>5. OnCourse(k)' /\ Recorded(k)'
    BY <1>1, <1>2 DEF OnCourse, EndsHere, Recorded, Concluding
  <1>6. Progress(k)'
    BY <1>1, AtWork DEF Progress, Succeeded
  <1> QED BY <1>3, <1>4, <1>5, <1>6 DEF KeyInv

\* find_or_create_conversation: the look-up takes up a conversation or goes to insert.
LEMMA FindConversationKeeps ==
  ASSUME InboundInv, NEW k \in Keys, FindConversation(k)
  PROVE  StepKeeps(k)
  <1>1. at[k] = "conversation" /\ UNCHANGED tables /\ Grows
    BY DEF FindConversation, tables, Grows
  <1>2. ASSUME GoesOn(k, "newConversation")
        PROVE  Keeps(k) /\ KeyInv(k)'
    <2>1. ASSUME at'[k] = "newConversation", job' = job, conv' = conv
          PROVE  KeyInv(k)'
      BY <1>1, <2>1, AtWork
         DEF KeyInv, JobSound, Placed, OnCourse, Recorded, Progress, Recording, Concluding,
             Resolving, Succeeded, Payload
    <2> QED BY <1>1, <1>2, <2>1, AtWork, GoingOnKeeps DEF Steps
  <1>3. ASSUME NEW v \in Open(k), Uses(k, v)
        PROVE  Keeps(k) /\ KeyInv(k)'
    <2>1. v \in Keys /\ v \in conversations'
      BY <1>1 DEF Open, InboundInv, TypeOK, tables
    <2> QED BY <1>1, <1>3, <2>1, AtWork, TakesUp, UsingKeeps
  <1> QED BY <1>1, <1>2, <1>3, ReadKeeps DEF FindConversation

\* The insert opens the conversation that the handler takes up.
LEMMA InsertConversationKeeps ==
  ASSUME InboundInv, NEW k \in Keys, InsertConversation(k)
  PROVE  StepKeeps(k)
  <1>1. /\ at[k] = "newConversation" /\ Uses(k, k) /\ k \in conversations'
        /\ Grows /\ messages' = messages /\ enqueued' = enqueued
    BY DEF InsertConversation, Grows
  <1>2. TableTypes'
    BY AtWork DEF InsertConversation, TableTypes
  <1>3. Keeps(k) /\ KeyInv(k)'
    BY <1>1, AtWork, TakesUp, UsingKeeps
  <1> QED BY <1>1, <1>2, <1>3, AtWork, TablesStay DEF StepKeeps

\* insert_message: the first of a call is stored, with the handler's conversation.
LEMMA InsertMessageKeeps ==
  ASSUME InboundInv, NEW k \in Keys, InsertMessage(k)
  PROVE  StepKeeps(k)
  <1> DEFINE step == IF IsCommand(k) THEN "command" ELSE "audit"
             new == [key |-> k, conv |-> conv[k]]
  <1>1. /\ at[k] = "message" /\ GoesOn(k, step) /\ step \in Steps \ {"idle"}
        /\ messages' = messages \cup {new}
        /\ UNCHANGED <<contact, conversations, events, enqueued>>
        /\ Grows
    BY DEF InsertMessage, Grows, Steps
  <1>2. conv[k] \in conversations /\ Payload(k).known /\ AfterConversation(k) = "message"
    BY <1>1, AtWork DEF KeyInv, Placed, OnCourse, Recording, Resolving
  <1>3. TableTypes'
    BY <1>1, <1>2, AtWork DEF TableTypes
  <1>4. ASSUME at'[k] = step, job' = job, conv' = conv
        PROVE  KeyInv(k)'
    <2>1. Payload(k)' = Payload(k)
      BY <1>4 DEF Payload
    <2>2. (AfterConversation(k))' = AfterConversation(k) /\ IsCommand(k)' = IsCommand(k)
      BY <2>1 DEF AfterConversation, IsCommand
    <2>3. JobSound(k)'
      BY <1>1, <1>4, <2>1, AtWork DEF KeyInv, JobSound
    <2>4. Placed(k)'
      BY <1>1, <1>2, <1>4, <2>1, AtWork DEF KeyInv, Placed, Recording, Concluding, Resolving
    <2>5. OnCourse(k)' /\ Recorded(k)'
      BY <1>1, <1>4, <2>1, <2>2 DEF OnCourse, EndsHere, Recorded
    <2>6. Progress(k)'
      BY <1>1, <1>4, AtWork DEF Progress, Succeeded
    <2> QED BY <2>3, <2>4, <2>5, <2>6 DEF KeyInv
  <1>5. Keeps(k) /\ KeyInv(k)'
    <2> HIDE DEF step
    <2> QED BY <1>1, <1>4, AtWork, GoingOnKeeps
  <1>6. TablesInv'
    <2>1. \A i \in Keys : /\ Payload(i)' = Payload(i)
                          /\ job[i].state # "absent" => job'[i].state # "absent"
      BY <1>5 DEF Keeps, Alone, Stays, Payload
    <2>2. OneMessagePerCall'
      BY <1>1, AtWork DEF InsertMessage, Stored, TablesInv, OneMessagePerCall
    <2>3. TextBackFollowsMessage' /\ ClassifiedWasClaimed'
      BY <1>1, <2>1, AtWork DEF TablesInv, TextBackFollowsMessage, ClassifiedWasClaimed
    <2>4. ClassifiedMeansRecorded'
      BY <1>1, <2>1, AtWork DEF TablesInv, ClassifiedMeansRecorded, AfterConversation
    <2> QED BY <2>2, <2>3, <2>4 DEF TablesInv
  <1> QED BY <1>1, <1>3, <1>5, <1>6 DEF StepKeeps

\* insert_message raises over a row that is there already.
LEMMA MessageExistsKeeps ==
  ASSUME InboundInv, NEW k \in Keys, MessageExists(k)
  PROVE  StepKeeps(k)
  <1>1. at[k] # "idle" /\ Raises(k) /\ UNCHANGED tables /\ Grows
    BY DEF MessageExists, tables, Grows
  <1>2. faults' \in 0 .. MaxFaults
    BY DEF MessageExists, InboundInv, TypeOK
  <1> QED BY <1>1, <1>2, AtWork, RaisingKeeps, ReadKeeps

\* Between the insert and the report a handler keeps its conversation and message.
LEMMA Concludes ==
  ASSUME InboundInv, NEW k \in Keys, at[k] \in {"command", "commandEvent"} \cup Concluding,
         Grows, NEW step \in {"commandEvent"} \cup Concluding,
         step = "commandEvent" => at[k] = "command",
         at'[k] = step, job' = job, conv' = conv
  PROVE  /\ JobSound(k)' /\ Placed(k)' /\ Recorded(k)'
         /\ Payload(k)' = Payload(k) /\ job[k].state = "running"
         /\ IsCommand(k)' = IsCommand(k) /\ EndsHere(k)' = EndsHere(k)
         /\ (AfterConversation(k))' = AfterConversation(k)
  <1>1. Payload(k)' = Payload(k)
    BY DEF Payload
  <1>2. /\ (AfterConversation(k))' = AfterConversation(k)
        /\ IsCommand(k)' = IsCommand(k) /\ EndsHere(k)' = EndsHere(k)
    BY <1>1 DEF AfterConversation, IsCommand, EndsHere
  <1>3. JobSound(k)'
    BY <1>1, AtWork DEF KeyInv, JobSound, Concluding
  <1>4. Placed(k)'
    BY <1>1, AtWork DEF KeyInv, Placed, Recording, Concluding, Resolving, Grows
  <1>5. Recorded(k)'
    BY <1>1, <1>2, AtWork DEF KeyInv, Recorded, Concluding, Grows
  <1> QED BY <1>1, <1>2, <1>3, <1>4, <1>5, AtWork DEF Concluding

\* _handle_sms_command: the contact's metadata, or the help reply.
LEMMA CommandKeeps ==
  ASSUME InboundInv, NEW k \in Keys, Command(k)
  PROVE  StepKeeps(k)
  <1> DEFINE step == IF Payload(k).text = "help" THEN "report" ELSE "commandEvent"
  <1>1. /\ at[k] = "command" /\ GoesOn(k, step) /\ step \in Steps
        /\ UNCHANGED <<conversations, messages, events>>
        /\ enqueued' = IF Payload(k).text = "help" THEN enqueued \cup {<<"help", k>>}
                       ELSE enqueued
        /\ Grows
    BY DEF Command, Grows, Steps
  <1>2. Payload(k).text \in {"stop", "start", "help"} /\ IsCommand(k) /\ Payload(k).known
    BY <1>1, AtWork DEF KeyInv, OnCourse, IsCommand, Placed, Recording
  <1>3. TableTypes'
    BY <1>1, AtWork DEF Command, TableTypes
  <1>4. ASSUME at'[k] = step, job' = job, conv' = conv
        PROVE  KeyInv(k)'
    <2>1. /\ JobSound(k)' /\ Placed(k)' /\ Recorded(k)'
          /\ Payload(k)' = Payload(k) /\ EndsHere(k)' = EndsHere(k) /\ IsCommand(k)' = IsCommand(k)
          /\ job[k].state = "running"
      BY <1>1, <1>4, Concludes DEF Concluding
    <2>2. OnCourse(k)'
      BY <1>2, <1>4, <2>1 DEF OnCourse
    <2>3. Progress(k)'
      BY <1>1, <1>2, <1>4, <2>1 DEF Progress, Handled, Succeeded, EndsHere
    <2> QED BY <2>1, <2>2, <2>3 DEF KeyInv
  <1>5. Keeps(k) /\ KeyInv(k)'
    <2> HIDE DEF step
    <2> QED BY <1>1, <1>4, AtWork, GoingOnKeeps
  <1>6. TablesInv'
    <2>1. \A i \in Keys : /\ Payload(i)' = Payload(i)
                          /\ job[i].state # "absent" => job'[i].state # "absent"
      BY <1>5 DEF Keeps, Alone, Stays, Payload
    <2>2. \A i \in Keys : <<"classify", i>> \in enqueued' => <<"classify", i>> \in enqueued
      BY <1>1
    <2>3. \A v \in conversations, c \in Calls :
             <<"textback", v, c>> \in enqueued' => <<"textback", v, c>> \in enqueued
      BY <1>1
    <2>4. OneMessagePerCall' /\ TextBackFollowsMessage' /\ ClassifiedWasClaimed'
      BY <1>1, <2>1, <2>2, <2>3, AtWork
         DEF TablesInv, OneMessagePerCall, TextBackFollowsMessage, ClassifiedWasClaimed
    <2>5. ClassifiedMeansRecorded'
      BY <1>1, <2>1, <2>2, AtWork DEF TablesInv, ClassifiedMeansRecorded, AfterConversation
    <2> QED BY <2>4, <2>5 DEF TablesInv
  <1> QED BY <1>1, <1>3, <1>5, <1>6 DEF StepKeeps

\* _handle_sms_command: the opt-out or opt-in event.
LEMMA CommandEventKeeps ==
  ASSUME InboundInv, NEW k \in Keys, CommandEvent(k)
  PROVE  StepKeeps(k)
  <1> DEFINE step == IF Payload(k).text = "stop" THEN "report" ELSE "audit"
  <1>1. /\ at[k] = "commandEvent" /\ GoesOn(k, step) /\ step \in Steps
        /\ UNCHANGED <<contact, conversations, messages, enqueued>>
        /\ events' = events \cup {<<Payload(k).text, k>>}
        /\ Grows
    BY DEF CommandEvent, Grows, Steps
  <1>2. Payload(k).text \in {"stop", "start"} /\ IsCommand(k) /\ Payload(k).known
    BY <1>1, AtWork DEF KeyInv, OnCourse, IsCommand, Placed, Recording
  <1>3. TableTypes'
    BY <1>1, <1>2, AtWork DEF TableTypes
  <1>4. ASSUME at'[k] = step, job' = job, conv' = conv
        PROVE  KeyInv(k)'
    <2>1. /\ JobSound(k)' /\ Placed(k)' /\ Recorded(k)'
          /\ Payload(k)' = Payload(k) /\ EndsHere(k)' = EndsHere(k) /\ IsCommand(k)' = IsCommand(k)
          /\ job[k].state = "running"
      BY <1>1, <1>4, Concludes DEF Concluding
    <2>2. OnCourse(k)'
      BY <1>2, <1>4, <2>1 DEF OnCourse, EndsHere
    <2>3. Progress(k)'
      BY <1>1, <1>2, <1>4, <2>1 DEF Progress, Handled, Succeeded, EndsHere
    <2> QED BY <2>1, <2>2, <2>3 DEF KeyInv
  <1>5. Keeps(k) /\ KeyInv(k)'
    <2> HIDE DEF step
    <2> QED BY <1>1, <1>4, AtWork, GoingOnKeeps
  <1> QED BY <1>1, <1>3, <1>5, AtWork, TablesStay DEF StepKeeps

\* The audit event, and what comes after it.
LEMMA AuditKeeps ==
  ASSUME InboundInv, NEW k \in Keys, Audit(k)
  PROVE  StepKeeps(k)
  <1> DEFINE step == IF k.type = "call.missed" /\ conv[k] # NoConversation THEN "textback"
                     ELSE IF k.type = "call.started" THEN "report" ELSE "classify"
  <1>1. /\ at[k] = "audit" /\ GoesOn(k, step) /\ step \in Steps
        /\ UNCHANGED <<contact, conversations, messages, enqueued>>
        /\ events' = events \cup {<<"inbound", k>>}
        /\ Grows
    BY DEF Audit, Grows, Steps
  <1>2. ~(EndsHere(k) /\ Payload(k).known) /\ (conv[k] # NoConversation <=> Payload(k).known)
    BY <1>1, AtWork DEF KeyInv, OnCourse, Placed, Concluding
  <1>3. TableTypes'
    BY <1>1, AtWork DEF TableTypes
  <1>4. ASSUME at'[k] = step, job' = job, conv' = conv
        PROVE  KeyInv(k)'
    <2>1. /\ JobSound(k)' /\ Placed(k)' /\ Recorded(k)'
          /\ Payload(k)' = Payload(k) /\ EndsHere(k)' = EndsHere(k)
          /\ job[k].state = "running"
      BY <1>1, <1>4, Concludes DEF Concluding
    <2>2. OnCourse(k)'
      BY <1>2, <1>4, <2>1 DEF OnCourse
    <2>3. Progress(k)'
      BY <1>1, <1>2, <1>4, <2>1 DEF Progress, Handled, Succeeded
    <2> QED BY <2>1, <2>2, <2>3 DEF KeyInv
  <1>5. Keeps(k) /\ KeyInv(k)'
    <2> HIDE DEF step
    <2> QED BY <1>1, <1>4, AtWork, GoingOnKeeps
  <1> QED BY <1>1, <1>3, <1>5, AtWork, TablesStay DEF StepKeeps

\* The text-back, keyed by the conversation that holds the call's message.
LEMMA TextBackKeeps ==
  ASSUME InboundInv, NEW k \in Keys, TextBack(k)
  PROVE  StepKeeps(k)
  <1>1. /\ at[k] = "textback" /\ GoesOn(k, "classify")
        /\ UNCHANGED <<contact, conversations, messages, events>>
        /\ enqueued' = enqueued \cup {<<"textback", conv[k], k.call>>}
        /\ Grows
    BY DEF TextBack, Grows
  <1>2. /\ k.type = "call.missed" /\ Payload(k).known /\ <<"inbound", k>> \in events
        /\ ~(EndsHere(k) /\ Payload(k).known)
    BY <1>1, AtWork DEF KeyInv, OnCourse, Progress
  <1>3. conv[k] \in conversations
    BY <1>1, <1>2, AtWork DEF KeyInv, Placed, Concluding
  <1>4. [key |-> k, conv |-> conv[k]] \in messages
    BY <1>1, <1>2, AtWork DEF KeyInv, Recorded, Concluding, AfterConversation
  <1>5. k = [call |-> k.call, type |-> "call.missed"] /\ k.call \in Calls
    BY <1>2 DEF Keys
  <1>6. TableTypes'
    BY <1>1, <1>3, <1>5, AtWork DEF TableTypes
  <1>7. ASSUME at'[k] = "classify", job' = job, conv' = conv
        PROVE  KeyInv(k)'
    <2>1. /\ JobSound(k)' /\ Placed(k)' /\ Recorded(k)'
          /\ Payload(k)' = Payload(k) /\ EndsHere(k)' = EndsHere(k)
          /\ job[k].state = "running"
      BY <1>1, <1>7, Concludes DEF Concluding
    <2>2. OnCourse(k)'
      BY <1>2, <1>7, <2>1 DEF OnCourse
    <2>3. Progress(k)'
      BY <1>1, <1>2, <1>3, <1>7, <2>1 DEF Progress, Succeeded
    <2> QED BY <2>1, <2>2, <2>3 DEF KeyInv
  <1>8. Keeps(k) /\ KeyInv(k)'
    BY <1>1, <1>7, AtWork, GoingOnKeeps DEF Steps
  <1>9. TablesInv'
    <2>1. \A i \in Keys : /\ Payload(i)' = Payload(i)
                          /\ job[i].state # "absent" => job'[i].state # "absent"
      BY <1>8 DEF Keeps, Alone, Stays, Payload
    <2>2. \A i \in Keys : <<"classify", i>> \in enqueued' => <<"classify", i>> \in enqueued
      BY <1>1
    <2>3. TextBackFollowsMessage'
      <3> SUFFICES ASSUME NEW v \in conversations, NEW c \in Calls,
                          <<"textback", v, c>> \in enqueued'
                   PROVE  [key |-> [call |-> c, type |-> "call.missed"], conv |-> v] \in messages
        BY <1>1 DEF TextBackFollowsMessage
      <3>1. CASE <<"textback", v, c>> \in enqueued
        BY <3>1, AtWork, <1>1 DEF TablesInv, TextBackFollowsMessage
      <3>2. CASE <<"textback", v, c>> = <<"textback", conv[k], k.call>>
        BY <3>2, <1>4, <1>5
      <3> QED BY <3>1, <3>2, <1>1
    <2>4. OneMessagePerCall' /\ ClassifiedWasClaimed'
      BY <1>1, <2>1, <2>2, AtWork DEF TablesInv, OneMessagePerCall, ClassifiedWasClaimed
    <2>5. ClassifiedMeansRecorded'
      BY <1>1, <2>1, <2>2, AtWork DEF TablesInv, ClassifiedMeansRecorded, AfterConversation
    <2> QED BY <2>3, <2>4, <2>5 DEF TablesInv
  <1> QED BY <1>1, <1>6, <1>8, <1>9 DEF StepKeeps

\* The classification: by now all is recorded that it will read.
LEMMA ClassifyKeeps ==
  ASSUME InboundInv, NEW k \in Keys, Classify(k)
  PROVE  StepKeeps(k)
  <1>1. /\ at[k] = "classify" /\ GoesOn(k, "report")
        /\ UNCHANGED <<contact, conversations, messages, events>>
        /\ enqueued' = enqueued \cup {<<"classify", k>>}
        /\ Grows
    BY DEF Classify, Grows
  <1>2. /\ <<"inbound", k>> \in events
        /\ k.type = "call.missed" /\ Payload(k).known =>
              \E v \in conversations : <<"textback", v, k.call>> \in enqueued
        /\ ~(EndsHere(k) /\ Payload(k).known)
    BY <1>1, AtWork DEF KeyInv, OnCourse, Progress
  <1>3. Payload(k).known /\ AfterConversation(k) = "message" => \E m \in messages : m.key = k
    <2>1. Payload(k).known /\ AfterConversation(k) = "message"
          => [key |-> k, conv |-> conv[k]] \in messages
      BY <1>1, AtWork DEF KeyInv, Recorded, Concluding
    <2> QED BY <2>1
  <1>4. TableTypes'
    BY <1>1, AtWork DEF TableTypes
  <1>5. ASSUME at'[k] = "report", job' = job, conv' = conv
        PROVE  KeyInv(k)'
    <2>1. /\ JobSound(k)' /\ Placed(k)' /\ Recorded(k)'
          /\ Payload(k)' = Payload(k) /\ EndsHere(k)' = EndsHere(k)
      BY <1>1, <1>5, Concludes DEF Concluding
    <2>2. OnCourse(k)'
      BY <1>5 DEF OnCourse
    <2>3. Handled(k)'
      BY <1>1, <1>2, <2>1 DEF Handled
    <2>4. Progress(k)'
      BY <1>5, <2>3 DEF Progress
    <2> QED BY <2>1, <2>2, <2>4 DEF KeyInv
  <1>6. Keeps(k) /\ KeyInv(k)'
    BY <1>1, <1>5, AtWork, GoingOnKeeps DEF Steps
  <1>7. TablesInv'
    <2>1. \A i \in Keys : /\ Payload(i)' = Payload(i)
                          /\ job[i].state # "absent" => job'[i].state # "absent"
      BY <1>6 DEF Keeps, Alone, Stays, Payload
    <2>2. \A i \in Keys : <<"classify", i>> \in enqueued' => <<"classify", i>> \in enqueued \/ i = k
      BY <1>1
    <2>3. \A v \in conversations, c \in Calls :
             <<"textback", v, c>> \in enqueued' => <<"textback", v, c>> \in enqueued
      BY <1>1
    <2>4. OneMessagePerCall' /\ TextBackFollowsMessage'
      BY <1>1, <2>3, AtWork DEF TablesInv, OneMessagePerCall, TextBackFollowsMessage
    <2>5. ClassifiedWasClaimed'
      BY <1>1, <2>1, <2>2, AtWork DEF TablesInv, ClassifiedWasClaimed
    <2>6. ClassifiedMeansRecorded'
      BY <1>1, <1>2, <1>3, <2>1, <2>2, AtWork
         DEF TablesInv, ClassifiedMeansRecorded, AfterConversation
    <2> QED BY <2>4, <2>5, <2>6 DEF TablesInv
  <1> QED BY <1>1, <1>4, <1>6, <1>7 DEF StepKeeps

\* complete_queue_job: the handler reports success after all that it vouches for.
LEMMA CompleteKeeps ==
  ASSUME InboundInv, NEW k \in Keys, Complete(k)
  PROVE  StepKeeps(k)
  <1>1. at[k] = "report" /\ Leaves(k, "done") /\ UNCHANGED tables
    BY DEF Complete
  <1>2. faults' \in 0 .. MaxFaults
    BY DEF Complete, InboundInv, TypeOK
  <1>3. Keeps(k)
    BY <1>1, <1>2, AtWork, LeavingKeeps DEF JobStates
  <1>4. /\ job'[k].state = "done" /\ at'[k] = "idle" /\ conv'[k] = NoConversation
        /\ Payload(k)' = Payload(k)
    BY <1>1, <1>3, AtWork DEF Leaves, TypeOK, Keeps
  <1>5. Handled(k)'
    BY <1>1, <1>4, AtWork DEF KeyInv, Progress, Handled, EndsHere, IsCommand, tables
  <1>6. JobSound(k)'
    BY <1>1, <1>4, AtWork DEF KeyInv, JobSound
  <1>7. Placed(k)' /\ OnCourse(k)' /\ Recorded(k)' /\ Progress(k)'
    BY <1>4, <1>5
       DEF Placed, OnCourse, Recorded, Progress, Recording, Concluding, Resolving
  <1> QED BY <1>1, <1>3, <1>6, <1>7, AtWork, ReadKeeps DEF KeyInv

-----------------------------------------------------------------------------
(* The webhook, the queue, and the invariant.                              *)

\* A handler's step keeps the whole invariant, whichever call it is.
LEMMA HandlerKeepsInv ==
  ASSUME InboundInv, NEW k \in Keys, Handler(k) \/ StepFails(k)
  PROVE  InboundInv'
  <1>1. StepKeeps(k)
    BY RouteFailsKeeps, RouteKeeps, FindContactKeeps, InsertContactKeeps,
       FindConversationKeeps, InsertConversationKeeps, InsertMessageKeeps,
       MessageExistsKeeps, CommandKeeps, CommandEventKeeps, AuditKeeps, TextBackKeeps,
       ClassifyKeeps, CompleteKeeps, StepFailsKeeps
       DEF Handler
  <1>2. UNCHANGED <<acked, dropped>>
    BY DEF Handler, RouteFails, Route, FindContact, InsertContact, FindConversation,
           InsertConversation, InsertMessage, MessageExists, Command, CommandEvent, Audit,
           TextBack, Classify, Complete, StepFails
  <1>3. TypeOK'
    BY <1>1, <1>2 DEF InboundInv, TypeOK, StepKeeps, TableTypes, Keeps, HandlerTypes
  <1>4. \A i \in Keys : KeyInv(i)'
    BY <1>1, StandingStill DEF InboundInv, StepKeeps, Keeps, Alone
  <1> QED BY <1>1, <1>3, <1>4 DEF InboundInv, StepKeeps

\* handle_retell_webhook: a delivery makes the job of its key, once.
LEMMA WebhookKeepsInv ==
  ASSUME InboundInv, NEW d \in Deliveries, Webhook(d)
  PROVE  InboundInv'
  <1> DEFINE key == KeyOf(d)
  <1>1. /\ acked' = acked \cup {d}
        /\ UNCHANGED <<dropped, at, conv, contact, conversations, messages, events,
                       enqueued, faults>>
        /\ Grows
    BY DEF Webhook, tables, Grows
  <1>2. key \in Keys
    BY DeliveriesAssumption DEF KeyOf, Keys, Delivery
  <1>3. CASE job[key].state # "absent"
    <2>1. job' = job
      BY <1>3 DEF Webhook
    <2>2. TypeOK'
      BY <1>1, <2>1 DEF InboundInv, TypeOK
    <2>3. \A i \in Keys : KeyInv(i)'
      BY <1>1, <2>1, StandingStill DEF InboundInv, Stays
    <2>4. TablesInv'
      BY <1>1, <2>1
         DEF InboundInv, TablesInv, OneMessagePerCall, TextBackFollowsMessage,
             ClassifiedMeansRecorded, ClassifiedWasClaimed, Payload, AfterConversation
    <2> QED BY <2>2, <2>3, <2>4 DEF InboundInv
  <1>4. CASE job[key].state = "absent"
    <2>1. job' = [job EXCEPT ![key] = [state |-> "ready", attempts |-> 0, payload |-> d]]
      BY <1>4 DEF Webhook
    <2>2. TypeOK'
      BY <1>1, <1>2, <2>1, BoundsAssumption DEF InboundInv, TypeOK, JobStates
    <2>3. \A i \in Keys : i # key => job'[i] = job[i]
      BY <2>1 DEF InboundInv, TypeOK
    <2>4. job'[key] = [state |-> "ready", attempts |-> 0, payload |-> d]
      BY <1>2, <2>1 DEF InboundInv, TypeOK
    <2>5. \A i \in Keys : i # key => KeyInv(i)'
      BY <1>1, <2>3, StandingStill DEF InboundInv, Stays
    <2>6. KeyInv(key)'
      <3>1. at'[key] = "idle" /\ conv'[key] = NoConversation
        BY <1>1, <1>2, <1>4 DEF InboundInv, KeyInv, JobSound, Placed
      <3>2. JobSound(key)'
        BY <2>4, <3>1, BoundsAssumption DEF JobSound, Payload
      <3> QED
        BY <2>4, <3>1, <3>2
           DEF KeyInv, Placed, OnCourse, Recorded, Progress, Recording, Concluding,
               Resolving, Succeeded
    <2>7. <<"classify", key>> \notin enqueued
      BY <1>2, <1>4 DEF InboundInv, TablesInv, ClassifiedWasClaimed
    <2>8. OneMessagePerCall' /\ TextBackFollowsMessage'
      BY <1>1 DEF InboundInv, TablesInv, OneMessagePerCall, TextBackFollowsMessage
    <2>9. ClassifiedMeansRecorded' /\ ClassifiedWasClaimed'
      BY <1>1, <2>3, <2>7
         DEF InboundInv, TablesInv, ClassifiedMeansRecorded, ClassifiedWasClaimed, Payload,
             AfterConversation
    <2> QED BY <2>2, <2>5, <2>6, <2>8, <2>9 DEF InboundInv, TablesInv
  <1> QED BY <1>3, <1>4

\* An enqueue that failed leaves no trace but the answer.
LEMMA WebhookDropsKeepsInv ==
  ASSUME InboundInv, NEW d \in Deliveries, WebhookDrops(d)
  PROVE  InboundInv'
  <1>1. TypeOK'
    BY BoundsAssumption DEF WebhookDrops, tables, InboundInv, TypeOK
  <1>2. \A i \in Keys : KeyInv(i)'
    BY StandingStill DEF WebhookDrops, tables, InboundInv, Stays, Grows
  <1>3. TablesInv'
    BY DEF WebhookDrops, tables, InboundInv, TablesInv, OneMessagePerCall,
           TextBackFollowsMessage, ClassifiedMeansRecorded, ClassifiedWasClaimed, Payload,
           AfterConversation
  <1> QED BY <1>1, <1>2, <1>3 DEF InboundInv

\* claim_queue_jobs hands out a ready job: what it counts, its budget leaves.
LEMMA ClaimKeepsInv ==
  ASSUME InboundInv, NEW k \in Keys, Claim(k)
  PROVE  InboundInv'
  <1>1. /\ job[k].state = "ready"
        /\ job' = [job EXCEPT ![k].state = "running", ![k].attempts = @ + 1]
        /\ at' = [at EXCEPT ![k] = "route"]
        /\ UNCHANGED <<acked, dropped, conv, contact, conversations, messages, events,
                       enqueued, faults>>
        /\ Grows
    BY DEF Claim, tables, Grows
  <1>2. at[k] = "idle" /\ job[k].attempts < MaxAttempts /\ conv[k] = NoConversation
    BY <1>1 DEF InboundInv, KeyInv, JobSound, Placed
  <1>3. job[k].attempts + 1 \in 0 .. MaxAttempts
    BY <1>2, BoundsAssumption DEF InboundInv, TypeOK
  <1>4. TypeOK'
    BY <1>1, <1>3 DEF InboundInv, TypeOK, JobStates, Steps
  <1>5. /\ job'[k].state = "running" /\ at'[k] = "route" /\ conv'[k] = NoConversation
        /\ Payload(k)' = Payload(k)
    BY <1>1, <1>2 DEF InboundInv, TypeOK, Payload
  <1>6. \A i \in Keys : i # k => KeyInv(i)'
    BY <1>1, StandingStill DEF InboundInv, TypeOK, Stays
  <1>7. KeyInv(k)'
    <2>1. JobSound(k)'
      BY <1>1, <1>5 DEF InboundInv, KeyInv, JobSound
    <2> QED
      BY <1>5, <2>1
         DEF KeyInv, Placed, OnCourse, Recorded, Progress, Recording, Concluding, Resolving,
             Succeeded
  <1>8. \A i \in Keys : /\ Payload(i)' = Payload(i)
                        /\ job[i].state # "absent" => job'[i].state # "absent"
    BY <1>1, <1>5 DEF InboundInv, TypeOK, Payload
  <1>9. TablesInv'
    BY <1>1, <1>8
       DEF InboundInv, TablesInv, OneMessagePerCall, TextBackFollowsMessage,
           ClassifiedMeansRecorded, ClassifiedWasClaimed, AfterConversation
  <1> QED BY <1>4, <1>6, <1>7, <1>9 DEF InboundInv

\* Empty tables and jobs that are absent are sound.
LEMMA InitInboundInv == Init => InboundInv
  <1> SUFFICES ASSUME Init PROVE InboundInv
    OBVIOUS
  <1>1. TypeOK
    BY BoundsAssumption DEF Init, TypeOK, JobStates, Steps
  <1>2. \A k \in Keys : KeyInv(k)
    BY DEF Init, KeyInv, JobSound, Placed, OnCourse, Recorded, Progress, Recording,
           Concluding, Resolving, Succeeded
  <1>3. TablesInv
    BY DEF Init, TablesInv, OneMessagePerCall, TextBackFollowsMessage,
           ClassifiedMeansRecorded, ClassifiedWasClaimed
  <1> QED BY <1>1, <1>2, <1>3 DEF InboundInv

\* Every step of webhook, queue and handlers keeps the invariant.
LEMMA NextKeepsInv ==
  ASSUME InboundInv, [Next]_vars
  PROVE  InboundInv'
  <1>1. CASE UNCHANGED vars
    <2>1. TypeOK' /\ TablesInv'
      BY <1>1 DEF vars, InboundInv, TypeOK, TablesInv, OneMessagePerCall,
                  TextBackFollowsMessage, ClassifiedMeansRecorded, ClassifiedWasClaimed,
                  Payload, AfterConversation
    <2>2. \A i \in Keys : KeyInv(i)'
      BY <1>1, StandingStill DEF vars, InboundInv, Stays, Grows
    <2> QED BY <2>1, <2>2 DEF InboundInv
  <1>2. CASE Next
    BY <1>2, WebhookKeepsInv, WebhookDropsKeepsInv, ClaimKeepsInv, HandlerKeepsInv DEF Next
  <1> QED BY <1>1, <1>2

\* InboundInv holds in every state.
THEOREM InboundInvariant == Spec => []InboundInv
  BY InitInboundInv, NextKeepsInv, PTL DEF Spec

\* Every variable keeps its type, for any calls, deliveries and attempts.
THEOREM InboundTypes == Spec => []TypeOK
  <1>1. InboundInv => TypeOK
    BY DEF InboundInv
  <1> QED BY <1>1, InboundInvariant, PTL

\* However often it failed and was run again on the way, a job that succeeded left
\* everything its event calls for.
THEOREM SuccessVouches == Spec => []DoneMeansHandled
  <1>1. InboundInv => DoneMeansHandled
    <2> SUFFICES ASSUME InboundInv, NEW k \in Keys, Succeeded(k), Handled(k)
                 PROVE  LET d == Payload(k)
                        IN IF IsCommand(k) /\ d.known /\ d.text # "start"
                           THEN /\ d.text = "stop" => <<"stop", k>> \in events
                                /\ d.text = "help" => <<"help", k>> \in enqueued
                           ELSE /\ <<"inbound", k>> \in events
                                /\ k.type # "call.started" => <<"classify", k>> \in enqueued
                                /\ k.type = "call.missed" /\ d.known =>
                                      \E v \in conversations :
                                         <<"textback", v, k.call>> \in enqueued
      BY DEF InboundInv, KeyInv, Progress, DoneMeansHandled
    <2> QED BY DEF Handled, EndsHere
  <1> QED BY <1>1, InboundInvariant, PTL

\* The classifier is asked only about what was recorded.
THEOREM RecordedBeforeClassified == Spec => []ClassifiedMeansRecorded
  <1>1. InboundInv => ClassifiedMeansRecorded
    BY DEF InboundInv, TablesInv
  <1> QED BY <1>1, InboundInvariant, PTL

\* A missed call is answered with one text at most: its text-backs name the
\* conversation of the call's only message.
THEOREM OneTextBack == Spec => []OneTextBackPerCall
  <1>1. InboundInv => OneTextBackPerCall
    <2> SUFFICES ASSUME InboundInv, NEW c \in Calls
                 PROVE  Cardinality({v \in conversations :
                                       <<"textback", v, c>> \in enqueued}) <= 1
      BY DEF OneTextBackPerCall
    <2> DEFINE S == {v \in conversations : <<"textback", v, c>> \in enqueued}
    <2>1. ASSUME NEW v \in S, NEW w \in S
          PROVE  v = w
      BY DEF InboundInv, TablesInv, TextBackFollowsMessage, OneMessagePerCall
    <2> HIDE DEF S
    <2>2. CASE S = {}
      <3>1. Cardinality(S) = 0
        BY <2>2, FS_EmptySet
      <3> QED BY <3>1 DEF S
    <2>3. CASE S # {}
      <3>1. \E v : S = {v}
        BY <2>1, <2>3
      <3>2. Cardinality(S) = 1
        BY <3>1, FS_Singleton
      <3> QED BY <3>2 DEF S
    <2> QED BY <2>2, <2>3
  <1> QED BY <1>1, InboundInvariant, PTL

\* Only the handler of a START makes an opted-out contact anything else.
THEOREM OptOutIsKept == Spec => OptOutStands
  <1>1. [Next]_vars => (contact = "optedOut" /\ contact' # "optedOut" =>
                          \E k \in Keys : at[k] = "command" /\ Payload(k).text = "start")
    BY DEF Next, vars, Webhook, WebhookDrops, Claim, Handler, RouteFails, Route, FindContact,
           InsertContact, FindConversation, InsertConversation, InsertMessage, MessageExists,
           Command, CommandEvent, Audit, TextBack, Classify, Complete, StepFails, tables
  <1> QED BY <1>1, PTL DEF Spec, OptOutStands
=============================================================================
