---------------------------- MODULE LibraryProofs ----------------------------
(***************************************************************************)
(* What the library guarantees for any items, imports, uploads and faults,  *)
(* and, with its invariant, the types of all components of Office.          *)
(*                                                                          *)
(* LibBase says where the texts and the keys of an import can be, LostPaid  *)
(* counts the items that have no vector and will have none, a text's worth  *)
(* for each fault, and EditInv follows the vectors of an edited item while  *)
(* no call has failed.                                                      *)
(***************************************************************************)
EXTENDS OfficeProofs

-----------------------------------------------------------------------------
(* The library.                                                            *)

\* The kinds of jobs have their steps, ...
LibRow(k) ==
    /\ Sound(rows[k])
    /\ k \in L!EmbedJobs => rows[k].at \in {"read", "store", "report", "idle"}
    /\ k \notin L!EmbedJobs => rows[k].at \in {"insert", "enqueue", "report", "idle"}

\* ... an embedding is of an item that has a text, and of a version of it, ...
EmbedSound(k) ==
    /\ rows[k].state # "absent" => L!ItemOf(k) \in L!Items /\ item[L!ItemOf(k)].text > 0
    /\ rows[k].at = "store" => held[k] > 0

\* ... an upload has yet to store the pieces after the one it is at, ...
UploadSound(d) == \A p \in L!Pieces : p > piece[d] => item[<<d, 1, p>>].text = 0

\* The piece p of attempt n of import i is yet to be inserted.
ToCome(i, n, p) ==
    \/ n > rows[L!Import(i)].attempts
    \/ n = rows[L!Import(i)].attempts /\ rows[L!Import(i)].at = "insert" /\ p >= piece[i]
    \/ n = rows[L!Import(i)].attempts /\ rows[L!Import(i)].at = "enqueue" /\ p > piece[i]

\* ... and an import its own, whose embedding is enqueued under a key that remembers
\* the first item enqueued under it.
ImportSound(i) ==
    /\ rows[L!Import(i)].at \in {"insert", "enqueue"} => piece[i] \in L!Pieces
    /\ \A n \in 1 .. MaxAttempts, p \in L!Pieces : ToCome(i, n, p) => item[<<i, n, p>>].text = 0
    /\ rows[L!Import(i)].at = "enqueue" =>
          /\ item[L!At(i)].text > 0
          /\ payloads[<<i, piece[i]>>] # L!At(i)
    /\ \A p \in L!Pieces :
          /\ payloads[<<i, p>>] = L!NoItem <=> rows[L!Embed(<<i, p>>)].state = "absent"
          /\ rows[L!Import(i)].state = "absent" => payloads[<<i, p>>] = L!NoItem

\* The key under which the edit of x is to be embedded.
EditKey(x) == IF item[x].text = 1 THEN L!Embed(x) ELSE L!ReEmbed(x)

\* Somebody is about to make the vector of x.
Coming(x) ==
    \/ edit = x /\ rows[EditKey(x)].state = "absent"
    \/ \E k \in L!EmbedJobs : /\ L!ItemOf(k) = x
                              /\ rows[k].state = "ready" \/ rows[k].at \in {"read", "store"}
    \/ \E i \in Imports : /\ rows[L!Import(i)].at = "enqueue" /\ x = L!At(i)
                          /\ payloads[<<i, piece[i]>>] = L!NoItem

\* An item that has no vector and nobody to make it ...
Wanting(x) == item[x].text > 0 /\ item[x].vector = 0 /\ ~Coming(x)

\* ... or that will have none: the attempt of import i that is under way, or to come, ...
AttemptOf(i) ==
    IF rows[L!Import(i)].at = "idle" THEN rows[L!Import(i)].attempts + 1
    ELSE rows[L!Import(i)].attempts
\* ... has x as a piece whose key an earlier attempt has taken.
Doomed(x) ==
    \E i \in Imports, p \in L!Pieces :
        /\ rows[L!Import(i)].state \in {"ready", "running"}
        /\ x = <<i, AttemptOf(i), p>>
        /\ payloads[<<i, p>>] \notin {L!NoItem, x}

\* The items that are lost, one way or the other.
Lost == {x \in L!Items : Wanting(x) \/ Doomed(x)}

\* What is edited has a text; that of an imported or uploaded item is not its first.
EditHasText == item[edit].text > 0 /\ (edit \in Manual \/ item[edit].text > 1)

\* The type of every variable of the library.
LibTypes ==
    /\ rows \in [L!Jobs -> JobRows(L!Steps)]
    /\ cost \in 0 .. MaxCost
    /\ item \in [L!Items -> [text : 0 .. MaxEdits + 1, vector : 0 .. MaxEdits + 1]]
    /\ payloads \in [Imports \X L!Pieces -> L!Items \cup {L!NoItem}]
    /\ held \in [L!EmbedJobs -> 0 .. MaxEdits + 1]
    /\ piece \in [Imports \cup Files -> 0 .. Chunks]
    /\ edit \in L!Items \cup {L!NoItem}
    /\ raced \subseteq L!Items

\* What of it holds whatever fails.
LibBase ==
    /\ LibTypes
    /\ \A k \in L!Jobs : LibRow(k)
    /\ \A k \in L!EmbedJobs : EmbedSound(k)
    /\ \A d \in Files : UploadSound(d)
    /\ \A i \in Imports : ImportSound(i)
    /\ edit # L!NoItem => EditHasText

\* A fault loses the pieces of one text at most.
LostPaid == IsFiniteSet(Lost) /\ Cardinality(Lost) <= Chunks * cost

\* Where no call failed, the vector of the first text of x, and of its first edit, is made, or
\* is on its way: the embedding is enqueued, or the writer is about to enqueue it.
EditSound(x) ==
    LET e == rows[L!Embed(x)]
        r == rows[L!ReEmbed(x)]
    IN /\ item[x].text = 1 =>
             /\ r.state = "absent" /\ e.state # "dead"
             /\ edit = x <=> e.state = "absent"
             /\ e.at = "store" => held[L!Embed(x)] = 1
             /\ e.state = "done" \/ e.at = "report" => item[x].vector = 1
       /\ item[x].text = 2 =>
             /\ e.state = "done" /\ r.state # "dead"
             /\ edit = x <=> r.state = "absent"
             /\ r.at = "store" => held[L!ReEmbed(x)] = 2
             /\ r.state = "done" \/ r.at = "report" => item[x].vector = 2

\* Every item is so that was not edited while an embedding of it was being made.
EditInv == cost = 0 => \A x \in Manual \ raced : EditSound(x)

\* The keys of the embeddings.
LEMMA ManualKeys ==
  ASSUME NEW x \in Manual
  PROVE  /\ x \in L!Items
         /\ L!Embed(x) \in L!EmbedJobs /\ L!ItemOf(L!Embed(x)) = x
         /\ L!ReEmbed(x) \in L!EmbedJobs /\ L!ItemOf(L!ReEmbed(x)) = x
         /\ L!Embed(x) # L!ReEmbed(x)
  BY IdsAssumption DEF L!Items, L!Embed, L!ReEmbed, L!EmbedJobs, L!ItemOf

\* That of an edit is no other's.
LEMMA ReEmbedKeys ==
  ASSUME NEW x \in L!Items
  PROVE  /\ L!ReEmbed(x) \in L!EmbedJobs /\ L!ItemOf(L!ReEmbed(x)) = x
         /\ \A y : L!ReEmbed(x) # L!Embed(y)
  BY DEF L!Embed, L!ReEmbed, L!EmbedJobs, L!ItemOf

\* Those of the pieces of an upload, ...
LEMMA UploadKeys ==
  ASSUME NEW d \in Files, NEW p \in L!Pieces
  PROVE  /\ <<d, 1, p>> \in L!Items /\ <<d, 1, p>> \notin Manual
         /\ L!Embed(<<d, 1, p>>) \in L!EmbedJobs
         /\ L!ItemOf(L!Embed(<<d, 1, p>>)) = <<d, 1, p>>
  <1>1. <<d, 1, p>> \notin Imports \X L!Pieces
    OBVIOUS
  <1>2. 1 \in 1 .. MaxAttempts
    BY ExecutionAssumption
  <1> QED BY <1>1, <1>2, IdsAssumption
          DEF L!Items, L!Embed, L!EmbedJobs, L!ItemOf, L!Uploaded

\* ... and of an import, whose key is no embedding's.
LEMMA ImportKeys ==
  ASSUME NEW i \in Imports
  PROVE  /\ L!Import(i) \in L!Jobs /\ L!Import(i) \notin L!EmbedJobs
         /\ \A j : L!Import(j) = L!Import(i) => j = i
         /\ \A p \in L!Pieces : /\ L!Embed(<<i, p>>) \in L!EmbedJobs
                                /\ L!ItemOf(L!Embed(<<i, p>>)) = payloads[<<i, p>>]
         /\ \A n \in 1 .. MaxAttempts, p \in L!Pieces : /\ <<i, n, p>> \in L!Items
                                                        /\ <<i, n, p>> \notin Manual
  BY IdsAssumption DEF L!Jobs, L!Import, L!Embed, L!EmbedJobs, L!ItemOf, L!Items

\* There are no others.
LEMMA KindsOfJobs ==
  /\ L!EmbedJobs \subseteq L!Jobs
  /\ \A k \in L!Jobs : k \in L!EmbedJobs \/ \E i \in Imports : k = L!Import(i)
  /\ \A k \in L!EmbedJobs :
        \/ \E i \in Imports, p \in L!Pieces :
              k = L!Embed(<<i, p>>)
        \/ \E x \in Manual : k = L!Embed(x)
        \/ \E x \in L!Items : k = L!ReEmbed(x)
        \/ \E d \in Files, p \in L!Pieces : k = L!Embed(<<d, 1, p>>)
  BY DEF L!Jobs, L!EmbedJobs, L!Import, L!Embed, L!ReEmbed, L!Uploaded

\* The key under which the edit is enqueued.
LEMMA EditKeys ==
  ASSUME LibBase, edit # L!NoItem
  PROVE  /\ edit \in L!Items
         /\ EditKey(edit) \in L!EmbedJobs /\ EditKey(edit) \in L!Jobs
         /\ L!ItemOf(EditKey(edit)) = edit
         /\ \A i \in Imports, p \in L!Pieces : EditKey(edit) # L!Embed(<<i, p>>)
  <1>1. edit \in L!Items /\ EditHasText
    BY DEF LibBase, LibTypes
  <1>2. CASE edit \in Manual
    <2>1. L!Embed(edit) # L!ReEmbed(edit)
      BY <1>2, ManualKeys
    <2>2. ASSUME NEW i \in Imports, NEW p \in L!Pieces
          PROVE  L!Embed(edit) # L!Embed(<<i, p>>)
      BY <1>2, IdsAssumption DEF L!Embed
    <2> QED BY <1>1, <1>2, <2>2, ManualKeys, ReEmbedKeys, KindsOfJobs DEF EditKey
  <1>3. CASE edit \notin Manual
    <2>1. EditKey(edit) = L!ReEmbed(edit)
      BY <1>1, <1>3 DEF EditHasText, EditKey
    <2> QED BY <1>1, <2>1, ReEmbedKeys, KindsOfJobs
  <1> QED BY <1>2, <1>3

\* The tables of jobs.
LibTables == [L!Jobs -> JobRows(L!Steps)]

\* Only the row of k differs from table q.
OnlyFrom(q, k) == \A j \in L!Jobs : j # k => rows'[j] = q[j]

\* A key that has a row keeps it.
LEMMA LibEnqueues ==
  ASSUME NEW q \in LibTables, NEW k \in L!Jobs, NEW r, r = L!Enqueued(q, k)
  PROVE  /\ r \in LibTables
         /\ \A j \in L!Jobs : j # k => r[j] = q[j]
         /\ q[k].state = "absent" => r[k] = [state |-> "ready", attempts |-> 0, at |-> "idle"]
         /\ q[k].state # "absent" => r = q
         /\ r[k].state # "absent"
  <1>1. L!Ready = [state |-> "ready", attempts |-> 0, at |-> "idle"]
    BY DEF L!Ready, L!Absent
  <1>2. L!Ready \in JobRows(L!Steps)
    BY <1>1, ExecutionAssumption DEF JobRows, JobStates
  <1> QED BY <1>1, <1>2 DEF L!Enqueued, LibTables

\* The execution of k failed on table q.
LEMMA LibFails ==
  ASSUME NEW q \in LibTables, NEW k \in L!Jobs, rows' = L!Failed(q, k)
  PROVE  rows' \in LibTables /\ OnlyFrom(q, k) /\ Fell(q[k], rows'[k])
  <1> DEFINE state == IF q[k].attempts >= MaxAttempts THEN "dead" ELSE "ready"
  <1>1. /\ state \in {"ready", "dead"} /\ state \in JobStates
        /\ state = "ready" => q[k].attempts < MaxAttempts
    BY ExecutionAssumption DEF JobRows, JobStates, LibTables
  <1>2. rows' = [q EXCEPT ![k].state = state, ![k].at = "idle"]
    BY DEF L!Failed
  <1> HIDE DEF state
  <1>3. rows' \in LibTables
    BY <1>1, <1>2 DEF JobRows, LibTables
  <1>4. OnlyFrom(q, k)
    BY <1>2 DEF OnlyFrom, LibTables
  <1>5. rows'[k].state = state /\ rows'[k].attempts = q[k].attempts /\ rows'[k].at = "idle"
    BY <1>2 DEF JobRows, LibTables
  <1> QED BY <1>1, <1>3, <1>4, <1>5 DEF Fell

\* A fault is counted.
LEMMA LibFault == cost \in 0 .. MaxCost /\ L!Fault => cost' = cost + 1 /\ cost' \in 0 .. MaxCost
  BY OfficeAssumption DEF L!Fault

\* A handler goes on, or has failed at the cost of a fault.
LEMMA LibGoesOn ==
  ASSUME NEW q \in LibTables, NEW k \in L!Jobs, NEW step \in L!Steps, cost \in 0 .. MaxCost,
         L!GoesOnWith(q, k, step)
  PROVE  /\ rows' \in LibTables /\ cost' \in 0 .. MaxCost /\ OnlyFrom(q, k)
         /\ \/ cost' = cost /\ At(q[k], rows'[k], step)
            \/ cost' = cost + 1 /\ Fell(q[k], rows'[k])
  <1>1. CASE rows' = [q EXCEPT ![k].at = step] /\ cost' = cost
    BY <1>1 DEF JobRows, OnlyFrom, At, LibTables
  <1>2. CASE L!Fault /\ rows' = L!Failed(q, k)
    BY <1>2, LibFails, LibFault
  <1> QED BY <1>1, <1>2 DEF L!GoesOnWith

\* The other operations of the queue.
LEMMA LibQueue ==
  ASSUME rows \in LibTables, cost \in 0 .. MaxCost, NEW k \in L!Jobs
  PROVE  /\ \A step \in L!Steps : Sound(rows[k]) /\ L!Claim(k, step) =>
               /\ rows' \in LibTables /\ cost' = cost /\ OnlyFrom(rows, k)
               /\ rows[k].state = "ready" /\ rows[k].at = "idle"
               /\ rows'[k] =
                     [state |-> "running", attempts |-> rows[k].attempts + 1, at |-> step]
         /\ L!StepFails(k) =>
               /\ rows' \in LibTables /\ cost' \in 0 .. MaxCost /\ OnlyFrom(rows, k)
               /\ rows[k].at # "idle" /\ cost' = cost + 1 /\ Fell(rows[k], rows'[k])
         /\ L!Buries(k) =>
               /\ rows' \in LibTables /\ cost' = cost /\ OnlyFrom(rows, k)
               /\ rows'[k] = [state |-> "dead", attempts |-> rows[k].attempts, at |-> "idle"]
         /\ L!Complete(k) =>
               /\ rows' \in LibTables /\ cost' = cost /\ OnlyFrom(rows, k)
               /\ rows[k].at = "report"
               /\ rows'[k] = [state |-> "done", attempts |-> rows[k].attempts, at |-> "idle"]
  <1>1. ASSUME NEW step \in L!Steps, Sound(rows[k]), L!Claim(k, step)
        PROVE  /\ rows' \in LibTables /\ cost' = cost /\ OnlyFrom(rows, k)
               /\ rows[k].state = "ready" /\ rows[k].at = "idle"
               /\ rows'[k] =
                     [state |-> "running", attempts |-> rows[k].attempts + 1, at |-> step]
    BY <1>1, ExecutionAssumption DEF L!Claim, JobRows, JobStates, OnlyFrom, Sound, LibTables
  <1>2. ASSUME L!StepFails(k)
        PROVE  /\ rows' \in LibTables /\ cost' \in 0 .. MaxCost /\ OnlyFrom(rows, k)
               /\ rows[k].at # "idle" /\ cost' = cost + 1 /\ Fell(rows[k], rows'[k])
    BY <1>2, LibFails, LibFault DEF L!StepFails
  <1>3. ASSUME NEW state \in {"done", "dead"},
               rows' = [rows EXCEPT ![k].state = state, ![k].at = "idle"]
        PROVE  /\ rows' \in LibTables /\ OnlyFrom(rows, k)
               /\ rows'[k] = [state |-> state, attempts |-> rows[k].attempts, at |-> "idle"]
    BY <1>3 DEF JobRows, JobStates, OnlyFrom, LibTables
  <1> QED BY <1>1, <1>2, <1>3 DEF L!Buries, L!Complete

\* Only item x changed.
OnlyItem(x) == \A y \in L!Items : y # x => item'[y] = item[y]

\* A text is written.
LEMMA TextWritten ==
  ASSUME LibTypes, NEW x \in L!Items, item[x].text <= MaxEdits, L!NewText(x)
  PROVE  /\ item' \in [L!Items -> [text : 0 .. MaxEdits + 1, vector : 0 .. MaxEdits + 1]]
         /\ OnlyItem(x)
         /\ item'[x].text = item[x].text + 1 /\ item'[x].text > 0
         /\ item'[x].vector = item[x].vector
  <1>1. PICK t \in 0 .. MaxEdits + 1 : t = item[x].text
    BY DEF LibTypes
  <1>2. t + 1 \in 0 .. MaxEdits + 1 /\ t + 1 > 0
    BY <1>1, OfficeAssumption
  <1>3. item' = [item EXCEPT ![x].text = t + 1]
    BY <1>1 DEF L!NewText
  <1> QED BY <1>1, <1>2, <1>3 DEF LibTypes, OnlyItem

\* No text is lost, nor an edit of it, ...
TextsKept ==
    \A y \in L!Items : /\ item[y].text > 0 => item'[y].text > 0
                       /\ item[y].text > 1 => item'[y].text > 1
\* ... and no piece of import i comes or goes.
PiecesKept(i) ==
    \A n \in 1 .. MaxAttempts, p \in L!Pieces :
        /\ item[<<i, n, p>>].text = 0 => item'[<<i, n, p>>].text = 0
        /\ item[<<i, n, p>>].text > 0 => item'[<<i, n, p>>].text > 0

\* An embedding stays sound whose row and item stay.
LEMMA EmbedStays ==
  ASSUME NEW k \in L!EmbedJobs, EmbedSound(k), rows'[k] = rows[k], held'[k] = held[k],
         L!ItemOf(k)' = L!ItemOf(k), TextsKept
  PROVE  EmbedSound(k)'
  BY DEF EmbedSound, TextsKept

\* Where an import under way is.
LEMMA ImportAt ==
  ASSUME LibBase, NEW i \in Imports
  PROVE  /\ rows[L!Import(i)] \in JobRows(L!Steps) /\ LibRow(L!Import(i)) /\ ImportSound(i)
         /\ rows[L!Import(i)].attempts \in 0 .. MaxAttempts
         /\ rows[L!Import(i)].at \in {"insert", "enqueue"} =>
               /\ rows[L!Import(i)].attempts \in 1 .. MaxAttempts
               /\ piece[i] \in L!Pieces
               /\ L!At(i) \in L!Items
  <1>1. L!Import(i) \in L!Jobs
    BY ImportKeys
  <1>2. rows[L!Import(i)] \in JobRows(L!Steps) /\ LibRow(L!Import(i)) /\ ImportSound(i)
    BY <1>1 DEF LibBase, LibTypes
  <1>3. rows[L!Import(i)].attempts \in 0 .. MaxAttempts
    BY <1>2 DEF JobRows
  <1>4. rows[L!Import(i)].at # "idle" => rows[L!Import(i)].attempts \in 1 .. MaxAttempts
    BY <1>2, <1>3, ExecutionAssumption DEF LibRow, Sound
  <1>5. rows[L!Import(i)].at \in {"insert", "enqueue"} => piece[i] \in L!Pieces
    BY <1>2 DEF ImportSound
  <1> QED BY <1>2, <1>3, <1>4, <1>5, ImportKeys DEF L!At

\* An import stays sound whose row, piece, texts and keys stay.
LEMMA ImportStays ==
  ASSUME LibBase, NEW i \in Imports, rows'[L!Import(i)] = rows[L!Import(i)],
         piece'[i] = piece[i], PiecesKept(i),
         \A p \in L!Pieces :
            /\ payloads'[<<i, p>>] = payloads[<<i, p>>]
            /\ rows'[L!Embed(<<i, p>>)].state = "absent" <=>
                  rows[L!Embed(<<i, p>>)].state = "absent"
  PROVE  ImportSound(i)'
  <1>1. ImportSound(i)
    BY DEF LibBase
  <1>2. L!At(i)' = L!At(i)
    BY DEF L!At
  <1>3. rows[L!Import(i)].at = "enqueue" => item'[L!At(i)].text > 0
    BY <1>1, ImportAt DEF ImportSound, PiecesKept, L!At
  <1>4. \A n \in 1 .. MaxAttempts, p \in L!Pieces : ToCome(i, n, p)' <=> ToCome(i, n, p)
    BY DEF ToCome
  <1>5. rows'[L!Import(i)].at \in {"insert", "enqueue"} => piece'[i] \in L!Pieces
    BY <1>1 DEF ImportSound
  <1>6. \A n \in 1 .. MaxAttempts, p \in L!Pieces :
           ToCome(i, n, p)' => item'[<<i, n, p>>].text = 0
    BY <1>1, <1>4 DEF ImportSound, PiecesKept
  <1>7. rows'[L!Import(i)].at = "enqueue" =>
          /\ item'[L!At(i)'].text > 0
          /\ piece[i] \in L!Pieces
          /\ payloads'[<<i, piece'[i]>>] # L!At(i)'
    BY <1>1, <1>2, <1>3 DEF ImportSound
  <1>8. \A p \in L!Pieces :
          /\ payloads'[<<i, p>>] = L!NoItem <=> rows'[L!Embed(<<i, p>>)].state = "absent"
          /\ rows'[L!Import(i)].state = "absent" => payloads'[<<i, p>>] = L!NoItem
    BY <1>1 DEF ImportSound
  <1> QED BY <1>5, <1>6, <1>7, <1>8 DEF ImportSound

\* A step of one embedding, or that enqueues one, keeps what is said of the others.
LEMMA EmbedBase ==
  ASSUME LibBase, LibTypes', NEW k \in L!EmbedJobs, OnlyFrom(rows, k),
         Sound(rows'[k]), rows'[k].at \in {"read", "store", "report", "idle"}, EmbedSound(k)',
         \A j \in L!EmbedJobs : j # k => held'[j] = held[j],
         \A y \in L!Items : item'[y].text = item[y].text,
         UNCHANGED <<payloads, piece>>, edit' \in {edit, L!NoItem},
         \A i \in Imports, p \in L!Pieces : k = L!Embed(<<i, p>>) =>
            (rows'[k].state = "absent" <=> rows[k].state = "absent")
  PROVE  LibBase'
  <1>1. ASSUME NEW j \in L!Jobs PROVE LibRow(j)'
    BY DEF LibBase, LibRow, OnlyFrom
  <1>2. TextsKept
    BY DEF TextsKept
  <1>3. ASSUME NEW j \in L!EmbedJobs PROVE EmbedSound(j)'
    <2>1. CASE j = k
      BY <2>1
    <2>2. CASE j # k
      <3>1. j \in L!Jobs /\ L!ItemOf(j)' = L!ItemOf(j)
        BY KindsOfJobs DEF L!ItemOf
      <3> QED BY <1>2, <2>2, <3>1, EmbedStays DEF LibBase, OnlyFrom
    <2> QED BY <2>1, <2>2
  <1>4. ASSUME NEW d \in Files PROVE UploadSound(d)'
    <2>1. \A p \in L!Pieces : <<d, 1, p>> \in L!Items
      BY UploadKeys
    <2> QED BY <2>1 DEF LibBase, UploadSound
  <1>5. ASSUME NEW i \in Imports PROVE ImportSound(i)'
    <2>1. L!Import(i) \in L!Jobs /\ L!Import(i) # k
      BY ImportKeys
    <2>2. rows'[L!Import(i)] = rows[L!Import(i)]
      BY <2>1 DEF OnlyFrom
    <2>3. PiecesKept(i)
      BY ImportKeys DEF PiecesKept
    <2>4. ASSUME NEW p \in L!Pieces
          PROVE  rows'[L!Embed(<<i, p>>)].state = "absent" <=>
                    rows[L!Embed(<<i, p>>)].state = "absent"
      <3>1. L!Embed(<<i, p>>) \in L!Jobs
        BY ImportKeys, KindsOfJobs
      <3> QED BY <3>1 DEF OnlyFrom
    <2> QED BY <2>2, <2>3, <2>4, ImportStays
  <1>6. edit' # L!NoItem => EditHasText'
    <2>1. edit # L!NoItem => edit \in L!Items /\ EditHasText
      BY DEF LibBase, LibTypes
    <2> QED BY <2>1 DEF EditHasText
  <1> QED BY <1>1, <1>3, <1>4, <1>5, <1>6 DEF LibBase

\* What is known of an embedding.
LEMMA EmbedAt ==
  ASSUME LibBase, NEW k \in L!EmbedJobs
  PROVE  /\ k \in L!Jobs /\ rows[k] \in JobRows(L!Steps)
         /\ Sound(rows[k]) /\ rows[k].at \in {"read", "store", "report", "idle"}
         /\ EmbedSound(k)
         /\ rows[k].at # "idle" => rows[k].state = "running"
         /\ rows[k].state # "absent" =>
               L!ItemOf(k) \in L!Items /\ item[L!ItemOf(k)].text \in 1 .. MaxEdits + 1
  <1>1. k \in L!Jobs
    BY KindsOfJobs
  <1>2. L!ItemOf(k) \in L!Items => item[L!ItemOf(k)].text \in 0 .. MaxEdits + 1
    BY DEF LibBase, LibTypes
  <1> QED BY <1>1, <1>2, OfficeAssumption
          DEF LibBase, LibTypes, LibRow, Sound, EmbedSound

\* An execution of an embedding takes a step.
EmbedTurn(k) ==
    /\ LibTypes'
    /\ OnlyFrom(rows, k) /\ Sound(rows'[k])
    /\ rows'[k].at \in {"read", "store", "report", "idle"}
    /\ rows[k].state # "absent" /\ rows'[k].state # "absent"
    /\ \A j \in L!EmbedJobs : j # k => held'[j] = held[j]
    /\ rows'[k].at = "store" => held'[k] > 0
    /\ \A y \in L!Items : /\ item'[y].text = item[y].text
                          /\ y # L!ItemOf(k) => item'[y].vector = item[y].vector
    /\ UNCHANGED <<payloads, piece, edit, raced>>

\* It keeps what is known.
LEMMA EmbedTurnBase ==
  ASSUME LibBase, NEW k \in L!EmbedJobs, EmbedTurn(k)
  PROVE  LibBase'
  <1>1. L!ItemOf(k)' = L!ItemOf(k)
    BY DEF EmbedTurn, L!ItemOf
  <1>2. EmbedSound(k)'
    BY <1>1, EmbedAt DEF EmbedTurn, EmbedSound
  <1> QED BY <1>2, EmbedBase DEF EmbedTurn

\* A claim is such a step.
LEMMA StartEmbedTurn ==
  ASSUME LibBase, NEW k \in L!EmbedJobs, L!StartEmbed(k)
  PROVE  EmbedTurn(k) /\ cost' = cost /\ rows[k].state = "ready" /\ rows'[k].at = "read"
  <1>1. rows \in LibTables /\ cost \in 0 .. MaxCost
    BY DEF LibBase, LibTypes, LibTables
  <1>2. "read" \in L!Steps
    BY DEF L!Steps
  <1>3. /\ rows' \in LibTables /\ cost' = cost /\ OnlyFrom(rows, k)
        /\ rows[k].state = "ready"
        /\ rows'[k] = [state |-> "running", attempts |-> rows[k].attempts + 1, at |-> "read"]
    BY <1>1, <1>2, LibQueue, EmbedAt DEF L!StartEmbed
  <1>4. Sound(rows'[k])
    BY <1>3, EmbedAt DEF Sound, JobRows
  <1>5. LibTypes'
    BY <1>1, <1>3 DEF L!StartEmbed, LibTypes, LibBase, LibTables
  <1> QED BY <1>3, <1>4, <1>5, EmbedAt DEF EmbedTurn, L!StartEmbed, LibBase

\* Reading the text, ...
LEMMA ReadTextTurn ==
  ASSUME LibBase, NEW k \in L!EmbedJobs, L!ReadText(k)
  PROVE  /\ EmbedTurn(k)
         /\ \/ cost' = cost /\ rows'[k].at = "store" /\ held'[k] = item[L!ItemOf(k)].text
            \/ cost' = cost + 1
  <1>1. rows \in LibTables /\ cost \in 0 .. MaxCost
    BY DEF LibBase, LibTypes, LibTables
  <1>2. "store" \in L!Steps /\ "idle" \notin L!Steps /\ "report" \in L!Steps
    BY DEF L!Steps
  <1>3. /\ k \in L!Jobs /\ rows[k].at = "read" /\ rows[k].state = "running" /\ Sound(rows[k])
        /\ rows[k] \in JobRows(L!Steps)
        /\ L!ItemOf(k) \in L!Items /\ item[L!ItemOf(k)].text \in 1 .. MaxEdits + 1
    BY EmbedAt DEF L!ReadText
  <1>4. /\ rows' \in LibTables /\ cost' \in 0 .. MaxCost /\ OnlyFrom(rows, k)
        /\ \/ cost' = cost /\ At(rows[k], rows'[k], "store")
           \/ cost' = cost + 1 /\ Fell(rows[k], rows'[k])
           \/ cost' = cost + 1 /\ At(rows[k], rows'[k], "report")
    <2>1. CASE L!GoesOn(k, "store")
      BY <1>1, <1>2, <1>3, <2>1, LibGoesOn DEF L!GoesOn
    <2>2. CASE L!Fault /\ rows' = [rows EXCEPT ![k].at = "report"]
      BY <1>1, <1>2, <1>3, <2>2, LibFault DEF LibTables, JobRows, At, OnlyFrom
    <2> QED BY <2>1, <2>2 DEF L!ReadText
  <1>5. Sound(rows'[k]) /\ rows'[k].at \in {"store", "report", "idle"}
        /\ rows'[k].state # "absent"
    BY <1>2, <1>3, <1>4 DEF Sound, At, Fell
  <1>6. /\ held' = [held EXCEPT ![k] =
                          IF rows'[k].at = "store" THEN item[L!ItemOf(k)].text ELSE 0]
        /\ UNCHANGED <<item, payloads, piece, edit, raced>>
    BY DEF L!ReadText
  <1>7. /\ held' \in [L!EmbedJobs -> 0 .. MaxEdits + 1]
        /\ \A j \in L!EmbedJobs : j # k => held'[j] = held[j]
        /\ rows'[k].at = "store" => held'[k] > 0 /\ held'[k] = item[L!ItemOf(k)].text
    <2>1. held \in [L!EmbedJobs -> 0 .. MaxEdits + 1]
      BY DEF LibBase, LibTypes
    <2>2. (IF rows'[k].at = "store" THEN item[L!ItemOf(k)].text ELSE 0) \in 0 .. MaxEdits + 1
      BY <1>3, OfficeAssumption
    <2> QED BY <1>3, <1>6, <2>1, <2>2
  <1>8. LibTypes'
    BY <1>4, <1>6, <1>7 DEF LibTypes, LibBase, LibTables
  <1>9. EmbedTurn(k)
    BY <1>3, <1>4, <1>5, <1>6, <1>7, <1>8 DEF EmbedTurn
  <1>10. cost' = cost => rows'[k].at = "store"
    BY <1>1, <1>4 DEF At
  <1> QED BY <1>4, <1>7, <1>9, <1>10 DEF At

\* ... storing its vector ...
LEMMA StoreVectorTurn ==
  ASSUME LibBase, NEW k \in L!EmbedJobs, L!StoreVector(k)
  PROVE  /\ EmbedTurn(k)
         /\ rows[k].at = "store"
         /\ item'[L!ItemOf(k)].vector = held[k] /\ held[k] > 0
         /\ \/ cost' = cost /\ rows'[k].at = "report"
            \/ cost' = cost + 1
  <1>1. rows \in LibTables /\ cost \in 0 .. MaxCost
    BY DEF LibBase, LibTypes, LibTables
  <1>2. "idle" \notin L!Steps /\ "report" \in L!Steps
    BY DEF L!Steps
  <1>3. /\ k \in L!Jobs /\ rows[k].at = "store" /\ rows[k].state = "running" /\ Sound(rows[k])
        /\ L!ItemOf(k) \in L!Items /\ held[k] > 0
    BY EmbedAt DEF L!StoreVector, EmbedSound
  <1>4. /\ rows' \in LibTables /\ cost' \in 0 .. MaxCost /\ OnlyFrom(rows, k)
        /\ \/ cost' = cost /\ At(rows[k], rows'[k], "report")
           \/ cost' = cost + 1 /\ Fell(rows[k], rows'[k])
    BY <1>1, <1>2, <1>3, LibGoesOn DEF L!GoesOn, L!StoreVector
  <1>5. Sound(rows'[k]) /\ rows'[k].at \in {"report", "idle"} /\ rows'[k].state # "absent"
    BY <1>2, <1>3, <1>4 DEF Sound, At, Fell
  <1>6. /\ held \in [L!EmbedJobs -> 0 .. MaxEdits + 1]
        /\ item \in [L!Items -> [text : 0 .. MaxEdits + 1, vector : 0 .. MaxEdits + 1]]
        /\ held' = [held EXCEPT ![k] = 0]
        /\ item' = [item EXCEPT ![L!ItemOf(k)].vector = held[k]]
        /\ UNCHANGED <<payloads, piece, edit, raced>>
    BY DEF LibBase, LibTypes, L!StoreVector
  <1>7. /\ held' \in [L!EmbedJobs -> 0 .. MaxEdits + 1]
        /\ \A j \in L!EmbedJobs : j # k => held'[j] = held[j]
    BY <1>6, OfficeAssumption
  <1>8. /\ item' \in [L!Items -> [text : 0 .. MaxEdits + 1, vector : 0 .. MaxEdits + 1]]
        /\ item'[L!ItemOf(k)].vector = held[k]
        /\ \A y \in L!Items : /\ item'[y].text = item[y].text
                              /\ y # L!ItemOf(k) => item'[y].vector = item[y].vector
    BY <1>3, <1>6
  <1>9. LibTypes'
    BY <1>4, <1>6, <1>7, <1>8 DEF LibTypes, LibBase, LibTables
  <1>10. EmbedTurn(k)
    BY <1>3, <1>4, <1>5, <1>6, <1>7, <1>8, <1>9 DEF EmbedTurn
  <1> QED BY <1>3, <1>4, <1>8, <1>10 DEF At

\* ... and ending are others.
LEMMA EmbedEndsTurn ==
  ASSUME LibBase, NEW k \in L!EmbedJobs, L!Ends(k)
  PROVE  /\ EmbedTurn(k)
         /\ UNCHANGED item
         /\ \/ cost' = cost /\ rows[k].at = "report" /\ rows'[k].state = "done"
             /\ rows'[k].at = "idle"
            \/ cost' = cost + 1
  <1>1. rows \in LibTables /\ cost \in 0 .. MaxCost
    BY DEF LibBase, LibTypes, LibTables
  <1>2. k \in L!Jobs /\ Sound(rows[k]) /\ rows[k] \in JobRows(L!Steps)
    BY EmbedAt
  <1>3. /\ rows' \in LibTables /\ cost' \in 0 .. MaxCost /\ OnlyFrom(rows, k)
        /\ rows[k].at # "idle"
        /\ \/ /\ cost' = cost /\ rows[k].at = "report"
              /\ rows'[k] = [state |-> "done", attempts |-> rows[k].attempts, at |-> "idle"]
           \/ cost' = cost + 1 /\ Fell(rows[k], rows'[k])
    BY <1>1, <1>2, LibQueue DEF L!Ends
  <1>4. Sound(rows'[k]) /\ rows'[k].at = "idle" /\ rows'[k].state # "absent"
        /\ rows[k].state # "absent"
    BY <1>2, <1>3 DEF Sound, Fell
  <1>5. /\ held' = [j \in L!EmbedJobs |-> IF j = k THEN 0 ELSE held[j]]
        /\ UNCHANGED <<item, payloads, piece, edit, raced>>
    BY DEF L!Ends
  <1>6. held' \in [L!EmbedJobs -> 0 .. MaxEdits + 1]
        /\ \A j \in L!EmbedJobs : j # k => held'[j] = held[j]
    BY <1>5, OfficeAssumption DEF LibBase, LibTypes
  <1>7. LibTypes'
    BY <1>3, <1>5, <1>6 DEF LibTypes, LibBase, LibTables
  <1>8. EmbedTurn(k)
    BY <1>3, <1>4, <1>5, <1>6, <1>7 DEF EmbedTurn
  <1> QED BY <1>3, <1>5, <1>8

\* A row that was enqueued, or kept, is sound.
LEMMA EnqueuedSound ==
  ASSUME rows \in LibTables, NEW k \in L!Jobs, LibRow(k), rows' = L!Enqueued(rows, k)
  PROVE  /\ rows' \in LibTables /\ OnlyFrom(rows, k) /\ LibRow(k)'
         /\ rows'[k].state # "absent"
         /\ rows[k].state = "absent" => rows'[k].state = "ready" /\ rows'[k].at = "idle"
         /\ rows[k].state # "absent" => rows' = rows
  <1>1. /\ rows' \in LibTables
        /\ \A j \in L!Jobs : j # k => rows'[j] = rows[j]
        /\ rows[k].state = "absent" =>
              rows'[k] = [state |-> "ready", attempts |-> 0, at |-> "idle"]
        /\ rows[k].state # "absent" => rows' = rows
        /\ rows'[k].state # "absent"
    BY LibEnqueues
  <1>2. rows[k].state = "absent" => LibRow(k)'
    BY <1>1, ExecutionAssumption DEF LibRow, Sound
  <1>3. rows[k].state # "absent" => LibRow(k)'
    BY <1>1 DEF LibRow
  <1> QED BY <1>1, <1>2, <1>3 DEF OnlyFrom

\* A step of the routes for one item, which leaves the jobs alone.
LEMMA WrittenBase ==
  ASSUME LibBase, LibTypes', NEW x \in L!Items, x \in Manual \/ item[x].text > 0,
         OnlyItem(x), TextsKept,
         UNCHANGED <<rows, held, payloads, piece>>,
         edit' # L!NoItem => EditHasText'
  PROVE  LibBase'
  <1>1. \A k \in L!Jobs : LibRow(k)'
    BY DEF LibBase, LibRow
  <1>2. ASSUME NEW k \in L!EmbedJobs PROVE EmbedSound(k)'
    <2>1. L!ItemOf(k)' = L!ItemOf(k)
      BY DEF L!ItemOf
    <2> QED BY <2>1, EmbedStays DEF LibBase
  <1>3. ASSUME NEW d \in Files PROVE UploadSound(d)'
    <2>1. \A p \in L!Pieces : item[<<d, 1, p>>].text = 0 => item'[<<d, 1, p>>].text = 0
      BY UploadKeys DEF OnlyItem
    <2> QED BY <2>1 DEF UploadSound, LibBase
  <1>4. ASSUME NEW i \in Imports PROVE ImportSound(i)'
    <2>1. PiecesKept(i)
      BY ImportKeys DEF PiecesKept, OnlyItem, TextsKept
    <2> QED BY <2>1, ImportStays
  <1> QED BY <1>1, <1>2, <1>3, <1>4 DEF LibBase

\* An item is written, ...
LEMMA WriteBase ==
  ASSUME LibBase, NEW x \in L!Items, L!Write(x)
  PROVE  /\ LibBase' /\ cost' = cost
         /\ x \in Manual \/ item[x].text > 0
         /\ OnlyItem(x) /\ item'[x].text = item[x].text + 1 /\ item'[x].vector = item[x].vector
         /\ edit = L!NoItem /\ edit' = x
         /\ UNCHANGED <<rows, payloads, held, piece>>
  <1>1. x \in Manual \/ item[x].text > 0
    BY DEF L!Write
  <1>2. /\ item' \in [L!Items -> [text : 0 .. MaxEdits + 1, vector : 0 .. MaxEdits + 1]]
        /\ OnlyItem(x)
        /\ item'[x].text = item[x].text + 1 /\ item'[x].text > 0
        /\ item'[x].vector = item[x].vector
    BY TextWritten DEF LibBase, L!Write
  <1>0. item[x].text \in 0 .. MaxEdits + 1
    BY DEF LibBase, LibTypes
  <1>3. TextsKept /\ (item[x].text > 0 => item'[x].text > 1)
    <2>1. item[x].text > 0 => item'[x].text > 1
      BY <1>0, <1>2, OfficeAssumption
    <2>2. item[x].text > 1 => item'[x].text > 1
      BY <1>0, <1>2, OfficeAssumption
    <2> QED BY <1>2, <2>1, <2>2 DEF TextsKept, OnlyItem
  <1>4. raced' \subseteq L!Items
    BY DEF L!Write, LibBase, LibTypes
  <1>5. LibTypes'
    BY <1>2, <1>4 DEF LibBase, LibTypes, L!Write
  <1>6. UNCHANGED <<rows, cost, payloads, held, piece>> /\ edit = L!NoItem /\ edit' = x
    BY DEF L!Write
  <1>7. EditHasText'
    BY <1>1, <1>2, <1>3, <1>6 DEF EditHasText
  <1>8. LibBase'
    BY <1>1, <1>2, <1>3, <1>5, <1>6, <1>7, WrittenBase
  <1> QED BY <1>1, <1>2, <1>6, <1>8

\* ... its embedding is enqueued, ...
LEMMA WriteEnqueuesBase ==
  ASSUME LibBase, L!WriteEnqueues
  PROVE  /\ LibBase' /\ cost' = cost
         /\ edit \in L!Items /\ edit' = L!NoItem
         /\ rows' = L!Enqueued(rows, EditKey(edit))
         /\ OnlyFrom(rows, EditKey(edit))
         /\ rows[EditKey(edit)].state = "absent" => /\ rows'[EditKey(edit)].state = "ready"
                                                    /\ rows'[EditKey(edit)].at = "idle"
         /\ rows[EditKey(edit)].state # "absent" => rows' = rows
         /\ UNCHANGED <<item, payloads, held, piece, raced>>
  <1>1. edit \in L!Items /\ edit # L!NoItem
    BY EditKeys DEF L!WriteEnqueues
  <1>2. PICK k \in L!EmbedJobs : k = EditKey(edit) /\ L!ItemOf(k) = edit
                                 /\ \A i \in Imports, p \in L!Pieces : k # L!Embed(<<i, p>>)
    BY <1>1, EditKeys
  <1>3. rows' = L!Enqueued(rows, k) /\ edit' = L!NoItem
        /\ UNCHANGED <<cost, item, payloads, held, piece, raced>>
    BY <1>2 DEF L!WriteEnqueues, EditKey
  <1>4. k \in L!Jobs /\ rows \in LibTables /\ LibRow(k)
    BY KindsOfJobs DEF LibBase, LibTypes, LibTables
  <1>5. /\ rows' \in LibTables /\ OnlyFrom(rows, k) /\ LibRow(k)'
        /\ rows'[k].state # "absent"
        /\ rows[k].state = "absent" => rows'[k].state = "ready" /\ rows'[k].at = "idle"
        /\ rows[k].state # "absent" => rows' = rows
    BY <1>3, <1>4, EnqueuedSound
  <1>6. LibTypes'
    BY <1>3, <1>5 DEF LibTypes, LibBase, LibTables
  <1>7. L!ItemOf(k)' = edit
    BY <1>2, <1>3 DEF L!ItemOf
  <1>8. item[edit].text > 0
    BY <1>1 DEF LibBase, EditHasText
  <1>9. EmbedSound(k)'
    <2>1. rows'[k].at = "store" => rows' = rows
      BY <1>5
    <2>2. rows'[k].at = "store" => held'[k] > 0
      BY <2>1, <1>3 DEF LibBase, EmbedSound
    <2> QED BY <1>1, <1>3, <1>7, <1>8, <2>2 DEF EmbedSound
  <1>10. Sound(rows'[k]) /\ rows'[k].at \in {"read", "store", "report", "idle"}
    BY <1>5 DEF LibRow
  <1>11. \A i \in Imports, p \in L!Pieces : k = L!Embed(<<i, p>>) =>
            (rows'[k].state = "absent" <=> rows[k].state = "absent")
    BY <1>2
  <1>12. LibBase'
    BY <1>3, <1>5, <1>6, <1>9, <1>10, <1>11, EmbedBase
  <1> QED BY <1>1, <1>2, <1>3, <1>5, <1>12

\* ... or is not.
LEMMA WriteSwallowsBase ==
  ASSUME LibBase, L!WriteSwallows
  PROVE  /\ LibBase' /\ cost' = cost + 1
         /\ edit \in L!Items /\ edit' = L!NoItem
         /\ UNCHANGED <<rows, item, payloads, held, piece, raced>>
  <1>1. /\ edit \in L!Items /\ edit' = L!NoItem /\ EditHasText
        /\ UNCHANGED <<rows, item, payloads, held, piece, raced>>
        /\ cost \in 0 .. MaxCost
    BY DEF LibBase, LibTypes, L!WriteSwallows
  <1>2. cost' = cost + 1 /\ cost' \in 0 .. MaxCost
    BY <1>1, LibFault DEF L!WriteSwallows
  <1>3. LibTypes'
    BY <1>1, <1>2 DEF LibBase, LibTypes
  <1>4. OnlyItem(edit) /\ TextsKept
    BY <1>1 DEF OnlyItem, TextsKept
  <1>5. PICK x \in L!Items : x = edit /\ (x \in Manual \/ item[x].text > 0)
    BY <1>1 DEF EditHasText
  <1>6. LibBase'
    BY <1>1, <1>3, <1>4, <1>5, WrittenBase
  <1> QED BY <1>1, <1>2, <1>6

\* The piece that an upload is at.
AtUpload(d) == <<d, 1, piece[d] + 1>>

\* A request stores a piece, enqueues its embedding or does not, and goes on or ends.
UploadTurn(d, x) ==
    /\ LibTypes'
    /\ x = AtUpload(d)
    /\ item[x].text = 0 /\ rows[L!Embed(x)].state = "absent"
    /\ \/ /\ OnlyItem(x)
          /\ item'[x].text = 1 /\ item'[x].vector = item[x].vector
       \/ item' = item
    /\ \/ rows' = rows
       \/ /\ OnlyFrom(rows, L!Embed(x)) /\ LibRow(L!Embed(x))'
          /\ rows'[L!Embed(x)].state = "ready" /\ rows'[L!Embed(x)].at = "idle"
          /\ item' # item
    /\ piece'[d] > piece[d] /\ \A e \in Imports \cup Files : e # d => piece'[e] = piece[e]
    /\ UNCHANGED <<payloads, held, edit, raced>>

\* What it is at.
LEMMA UploadAt ==
  ASSUME LibBase, NEW d \in Files, piece[d] < Chunks
  PROVE  /\ piece[d] + 1 \in L!Pieces /\ piece[d] \in 0 .. Chunks
         /\ AtUpload(d) \in L!Items /\ AtUpload(d) \notin Manual
         /\ L!Embed(AtUpload(d)) \in L!EmbedJobs
         /\ \A i \in Imports : \A n, p : AtUpload(d) # <<i, n, p>>
         /\ L!ItemOf(L!Embed(AtUpload(d))) = AtUpload(d)
         /\ item[AtUpload(d)].text = 0
         /\ rows[L!Embed(AtUpload(d))].state = "absent"
  <1>1. piece[d] \in 0 .. Chunks
    BY DEF LibBase, LibTypes
  <1>2. piece[d] + 1 \in L!Pieces /\ piece[d] + 1 > piece[d]
    BY <1>1, OfficeAssumption DEF L!Pieces
  <1>3. /\ AtUpload(d) \in L!Items /\ AtUpload(d) \notin Manual
        /\ L!Embed(AtUpload(d)) \in L!EmbedJobs
        /\ L!ItemOf(L!Embed(AtUpload(d))) = AtUpload(d)
    BY <1>2, UploadKeys DEF AtUpload
  <1>4. item[AtUpload(d)].text = 0
    BY <1>2 DEF LibBase, UploadSound, AtUpload
  <1>5. rows[L!Embed(AtUpload(d))].state = "absent"
    BY <1>3, <1>4 DEF LibBase, EmbedSound
  <1>6. d \notin Imports
    BY IdsAssumption
  <1> QED BY <1>1, <1>2, <1>3, <1>4, <1>5, <1>6 DEF AtUpload

\* It keeps what is known.
LEMMA UploadTurnBase ==
  ASSUME LibBase, NEW d \in Files, piece[d] < Chunks, NEW x, UploadTurn(d, x)
  PROVE  LibBase'
  <1>0. PICK k : k = L!Embed(x)
    OBVIOUS
  <1>1. /\ x \in L!Items /\ x \notin Manual
        /\ k \in L!EmbedJobs /\ k \in L!Jobs
        /\ \A i \in Imports : \A n, p : x # <<i, n, p>>
        /\ L!ItemOf(k) = x
        /\ piece[d] \in 0 .. Chunks
    BY <1>0, UploadAt, KindsOfJobs DEF UploadTurn
  <1>2. L!ItemOf(k)' = x
    BY <1>1 DEF L!ItemOf, UploadTurn
  <1>3. TextsKept
    BY DEF UploadTurn, TextsKept, OnlyItem
  <1>4. \A j \in L!Jobs : j # k => rows'[j] = rows[j]
    BY <1>0 DEF UploadTurn, OnlyFrom
  <1>5. \A j \in L!Jobs : LibRow(j)'
    BY <1>0, <1>4 DEF UploadTurn, LibBase, LibRow
  <1>6. ASSUME NEW j \in L!EmbedJobs PROVE EmbedSound(j)'
    <2>1. L!ItemOf(j)' = L!ItemOf(j) /\ j \in L!Jobs /\ held'[j] = held[j]
      BY KindsOfJobs DEF L!ItemOf, UploadTurn
    <2>2. CASE rows'[j] = rows[j]
      BY <2>1, <2>2, <1>3, EmbedStays DEF LibBase
    <2>3. CASE rows' # rows /\ j = k
      <3>1. item'[x].text > 0
        BY <2>3 DEF UploadTurn
      <3>2. rows'[k].at = "idle"
        BY <1>0, <2>3 DEF UploadTurn
      <3>3. L!ItemOf(j)' = x
        BY <1>2, <2>3
      <3> QED BY <1>1, <3>1, <3>2, <3>3, <2>3 DEF EmbedSound
    <2> QED BY <1>4, <2>1, <2>2, <2>3
  <1>7. ASSUME NEW e \in Files PROVE UploadSound(e)'
    <2>1. ASSUME NEW p \in L!Pieces, p > piece'[e] PROVE item'[<<e, 1, p>>].text = 0
      <3>1. <<e, 1, p>> \in L!Items
        BY UploadKeys
      <3>2. CASE e # d
        <4>1. <<e, 1, p>> # x /\ piece'[e] = piece[e]
          BY <3>2 DEF AtUpload, UploadTurn
        <4> QED BY <2>1, <3>1, <4>1 DEF LibBase, UploadSound, UploadTurn, OnlyItem
      <3>3. CASE e = d
        <4>1. piece'[d] \in 0 .. Chunks
          BY DEF UploadTurn, LibTypes
        <4>2. p > piece[d] /\ p # piece[d] + 1
          BY <1>1, <2>1, <3>3, <4>1 DEF UploadTurn, L!Pieces
        <4>3. <<d, 1, p>> # x
          BY <4>2 DEF AtUpload, UploadTurn
        <4> QED BY <3>1, <3>3, <4>2, <4>3 DEF LibBase, UploadSound, UploadTurn, OnlyItem
      <3> QED BY <3>2, <3>3
    <2> QED BY <2>1 DEF UploadSound
  <1>8. ASSUME NEW i \in Imports PROVE ImportSound(i)'
    <2>1. L!Import(i) \in L!Jobs /\ L!Import(i) # k /\ i # d
      BY <1>1, ImportKeys, IdsAssumption
    <2>2. PiecesKept(i)
      BY <1>1, ImportKeys DEF PiecesKept, UploadTurn, OnlyItem
    <2>3. ASSUME NEW p \in L!Pieces PROVE L!Embed(<<i, p>>) \in L!Jobs /\ L!Embed(<<i, p>>) # k
      <3>1. L!Embed(<<i, p>>) \in L!Jobs
        BY ImportKeys, KindsOfJobs
      <3> QED BY <1>0, <3>1 DEF L!Embed, AtUpload, UploadTurn
    <2>4. rows'[L!Import(i)] = rows[L!Import(i)] /\ piece'[i] = piece[i] /\ payloads' = payloads
      BY <1>4, <2>1 DEF UploadTurn
    <2>5. \A p \in L!Pieces :
            /\ payloads'[<<i, p>>] = payloads[<<i, p>>]
            /\ rows'[L!Embed(<<i, p>>)].state = "absent" <=>
                  rows[L!Embed(<<i, p>>)].state = "absent"
      BY <1>4, <2>3, <2>4
    <2> QED BY <2>2, <2>4, <2>5, ImportStays
  <1>9. edit' # L!NoItem => EditHasText'
    <2>1. edit # L!NoItem => edit \in L!Items /\ EditHasText
      BY DEF LibBase, LibTypes
    <2> QED BY <1>3, <2>1 DEF EditHasText, UploadTurn, TextsKept
  <1>10. LibTypes'
    BY DEF UploadTurn
  <1> QED BY <1>5, <1>6, <1>7, <1>8, <1>9, <1>10 DEF LibBase

\* A piece stored is such a step, ...
LEMMA UploadDoes ==
  ASSUME LibBase, NEW d \in Files, L!Upload(d)
  PROVE  /\ piece[d] < Chunks
         /\ \E x : /\ UploadTurn(d, x)
                   /\ cost' = cost => rows'[L!Embed(x)].state = "ready"
         /\ cost' # cost => cost' = cost + 1
  <1>x. PICK x, k : x = AtUpload(d) /\ k = L!Embed(x)
    OBVIOUS
  <1>0. piece[d] < Chunks /\ item' # item
    <2>1. L!NewText(AtUpload(d)) /\ AtUpload(d) \in L!Items /\ LibTypes
          /\ item[AtUpload(d)].text = 0 /\ piece[d] < Chunks
      BY UploadAt DEF L!Upload, AtUpload, LibBase
    <2>2. item'[AtUpload(d)].text = 1
      BY <2>1, TextWritten, OfficeAssumption
    <2> QED BY <2>1, <2>2
  <1>1. /\ x \in L!Items /\ k \in L!Jobs /\ k \in L!EmbedJobs
        /\ piece[d] + 1 \in L!Pieces /\ piece[d] \in 0 .. Chunks
        /\ item[x].text = 0 /\ rows[k].state = "absent"
    BY <1>x, <1>0, UploadAt, KindsOfJobs
  <1>2. L!NewText(x) /\ LibTypes /\ item[x].text <= MaxEdits
    BY <1>x, <1>1, OfficeAssumption DEF L!Upload, AtUpload, LibBase
  <1>3. /\ item' \in [L!Items -> [text : 0 .. MaxEdits + 1, vector : 0 .. MaxEdits + 1]]
        /\ OnlyItem(x) /\ item'[x].text = 1 /\ item'[x].vector = item[x].vector
    BY <1>1, <1>2, TextWritten
  <1>4. rows \in LibTables /\ LibRow(k) /\ cost \in 0 .. MaxCost
    BY <1>1 DEF LibBase, LibTypes, LibTables
  <1>5. /\ rows' \in LibTables /\ cost' \in 0 .. MaxCost
        /\ \/ rows' = rows /\ cost' = cost + 1
           \/ /\ OnlyFrom(rows, k) /\ LibRow(k)' /\ cost' = cost
              /\ rows'[k].state = "ready" /\ rows'[k].at = "idle"
    <2>1. CASE rows' = L!Enqueued(rows, k) /\ cost' = cost
      BY <1>1, <1>4, <2>1, EnqueuedSound
    <2>2. CASE rows' = rows /\ L!Fault
      BY <1>4, <2>2, LibFault
    <2> QED BY <1>x, <2>1, <2>2 DEF L!Upload, AtUpload
  <1>6. /\ UNCHANGED <<payloads, held, edit, raced>>
        /\ piece' = [piece EXCEPT ![d] = @ + 1]
        /\ piece \in [Imports \cup Files -> 0 .. Chunks]
    BY <1>2 DEF L!Upload, LibTypes
  <1>7. piece[d] + 1 \in 0 .. Chunks
    BY <1>1 DEF L!Pieces
  <1>8. /\ piece' \in [Imports \cup Files -> 0 .. Chunks]
        /\ piece'[d] > piece[d]
         /\ \A e \in Imports \cup Files : e # d => piece'[e] = piece[e]
    BY <1>1, <1>6, <1>7
  <1>9. LibTypes'
    BY <1>2, <1>3, <1>5, <1>6, <1>8 DEF LibTypes, LibTables
  <1>10. UploadTurn(d, x)
    BY <1>x, <1>0, <1>1, <1>3, <1>5, <1>6, <1>8, <1>9 DEF UploadTurn
  <1>11. cost' = cost + 1 => cost' # cost
    BY <1>4
  <1> QED BY <1>x, <1>0, <1>5, <1>10, <1>11

\* ... and the last one of a request that fails.
LEMMA UploadFailsDoes ==
  ASSUME LibBase, NEW d \in Files, L!UploadFails(d)
  PROVE  piece[d] < Chunks /\ cost' = cost + 1 /\ \E x : UploadTurn(d, x)
  <1>x. PICK x, k : x = AtUpload(d) /\ k = L!Embed(x)
    OBVIOUS
  <1>0. piece[d] < Chunks
    BY DEF L!UploadFails
  <1>1. /\ x \in L!Items
        /\ piece[d] + 1 \in L!Pieces /\ piece[d] \in 0 .. Chunks
        /\ item[x].text = 0 /\ rows[k].state = "absent"
    BY <1>x, <1>0, UploadAt
  <1>2. LibTypes /\ item[x].text <= MaxEdits
    BY <1>1, OfficeAssumption DEF LibBase
  <1>3. /\ item' \in [L!Items -> [text : 0 .. MaxEdits + 1, vector : 0 .. MaxEdits + 1]]
        /\ \/ OnlyItem(x) /\ item'[x].text = 1 /\ item'[x].vector = item[x].vector
           \/ item' = item
    <2>1. CASE item' = item
      BY <1>2, <2>1 DEF LibTypes
    <2>2. CASE L!NewText(x)
      BY <1>1, <1>2, <2>2, TextWritten
    <2> QED BY <1>x, <2>1, <2>2 DEF L!UploadFails, AtUpload
  <1>4. cost' = cost + 1 /\ cost' \in 0 .. MaxCost
    BY <1>2, LibFault DEF L!UploadFails, LibTypes
  <1>5. /\ UNCHANGED <<rows, payloads, held, edit, raced>>
        /\ piece' = [piece EXCEPT ![d] = Chunks]
        /\ piece \in [Imports \cup Files -> 0 .. Chunks]
    BY <1>2 DEF L!UploadFails, LibTypes
  <1>6. /\ piece' \in [Imports \cup Files -> 0 .. Chunks]
        /\ piece'[d] > piece[d]
         /\ \A e \in Imports \cup Files : e # d => piece'[e] = piece[e]
    BY <1>0, <1>5, OfficeAssumption
  <1>7. LibTypes'
    BY <1>2, <1>3, <1>4, <1>5, <1>6 DEF LibTypes
  <1> QED BY <1>x, <1>0, <1>1, <1>3, <1>4, <1>5, <1>6, <1>7 DEF UploadTurn

\* A step of import i, at most on its piece p, keeps what is said of the others.
LEMMA ImportBase ==
  ASSUME LibBase, LibTypes', NEW i \in Imports, NEW p \in L!Pieces,
         \A j \in L!Jobs : j \notin {L!Import(i), L!Embed(<<i, p>>)} => rows'[j] = rows[j],
         LibRow(L!Import(i))', LibRow(L!Embed(<<i, p>>))', EmbedSound(L!Embed(<<i, p>>))',
         \A j \in L!EmbedJobs : held'[j] = held[j],
         \A r \in Imports \X L!Pieces : r # <<i, p>> => payloads'[r] = payloads[r],
         TextsKept,
         \A y \in L!Items : (\A n, m : y # <<i, n, m>>) => item'[y].text = item[y].text,
         edit' = edit, \A e \in Imports \cup Files : e # i => piece'[e] = piece[e],
         ImportSound(i)'
  PROVE  LibBase'
  <1>0. PICK k, l : k = L!Embed(<<i, p>>) /\ l = L!Import(i)
    OBVIOUS
  <1>1. /\ k \in L!EmbedJobs /\ k \in L!Jobs
        /\ l \in L!Jobs /\ l \notin L!EmbedJobs
    BY <1>0, ImportKeys, KindsOfJobs
  <1>2. ASSUME NEW j \in L!Jobs PROVE LibRow(j)'
    BY <1>0 DEF LibBase, LibRow
  <1>3. ASSUME NEW j \in L!EmbedJobs PROVE EmbedSound(j)'
    <2>1. CASE j = k
      BY <1>0, <2>1
    <2>2. CASE j # k
      <3>1. rows'[j] = rows[j]
        BY <1>0, <1>1, <2>2, KindsOfJobs
      <3>2. L!ItemOf(j)' = L!ItemOf(j)
        BY <1>0, <2>2 DEF L!ItemOf, L!Embed, L!EmbedJobs
      <3> QED BY <3>1, <3>2, EmbedStays DEF LibBase
    <2> QED BY <2>1, <2>2
  <1>4. ASSUME NEW d \in Files PROVE UploadSound(d)'
    <2>1. d # i /\ d \in Imports \cup Files
      BY IdsAssumption
    <2>2. \A m \in L!Pieces : item'[<<d, 1, m>>].text = item[<<d, 1, m>>].text
      BY <2>1, UploadKeys
    <2> QED BY <2>1, <2>2 DEF LibBase, UploadSound
  <1>5. ASSUME NEW h \in Imports PROVE ImportSound(h)'
    <2>1. CASE h = i
      BY <2>1
    <2>2. CASE h # i
      <3>1. L!Import(h) # l /\ L!Import(h) # k /\ L!Import(h) \in L!Jobs
        BY <1>0, <1>1, <2>2, ImportKeys
      <3>2. PiecesKept(h)
        BY <2>2, ImportKeys DEF PiecesKept
      <3>3. ASSUME NEW m \in L!Pieces
            PROVE  /\ rows'[L!Embed(<<h, m>>)] = rows[L!Embed(<<h, m>>)]
                   /\ payloads'[<<h, m>>] = payloads[<<h, m>>]
        <4>1. L!Embed(<<h, m>>) # k
          BY <1>0, <2>2 DEF L!Embed
        <4>2. L!Embed(<<h, m>>) # l /\ L!Embed(<<h, m>>) \in L!Jobs
          BY <1>1, ImportKeys, KindsOfJobs
        <4> QED BY <1>0, <4>1, <4>2, <2>2
      <3>4. rows'[L!Import(h)] = rows[L!Import(h)] /\ piece'[h] = piece[h]
        BY <1>0, <2>2, <3>1
      <3> QED BY <3>2, <3>3, <3>4, ImportStays
    <2> QED BY <2>1, <2>2
  <1>6. edit' # L!NoItem => EditHasText'
    <2>1. edit # L!NoItem => edit \in L!Items /\ EditHasText
      BY DEF LibBase, LibTypes
    <2> QED BY <2>1 DEF EditHasText, TextsKept
  <1> QED BY <1>2, <1>3, <1>4, <1>5, <1>6 DEF LibBase

\* So does one on the row of import i alone.
LEMMA ImportRowBase ==
  ASSUME LibBase, LibTypes', NEW i \in Imports, OnlyFrom(rows, L!Import(i)),
         LibRow(L!Import(i))',
         \A j \in L!EmbedJobs : held'[j] = held[j], payloads' = payloads, TextsKept,
         \A y \in L!Items : (\A n, m : y # <<i, n, m>>) => item'[y].text = item[y].text,
         edit' = edit, \A e \in Imports \cup Files : e # i => piece'[e] = piece[e],
         ImportSound(i)'
  PROVE  LibBase'
  <1>1. 1 \in L!Pieces
    BY OfficeAssumption DEF L!Pieces
  <1>2. PICK k : k = L!Embed(<<i, 1>>)
    OBVIOUS
  <1>3. k \in L!EmbedJobs /\ k \in L!Jobs /\ k # L!Import(i)
    BY <1>1, <1>2, ImportKeys, KindsOfJobs
  <1>4. rows'[k] = rows[k]
    BY <1>3 DEF OnlyFrom
  <1>5. L!ItemOf(k)' = L!ItemOf(k)
    BY DEF L!ItemOf
  <1>6. EmbedSound(k)'
    BY <1>3, <1>4, <1>5, EmbedStays DEF LibBase
  <1>7. LibRow(k)'
    BY <1>3, <1>4 DEF LibBase, LibRow
  <1>8. \A j \in L!Jobs : j \notin {L!Import(i), L!Embed(<<i, 1>>)} => rows'[j] = rows[j]
    BY DEF OnlyFrom
  <1> QED BY <1>1, <1>2, <1>6, <1>7, <1>8, ImportBase

\* An import is asked for, ...
LEMMA IngestBase ==
  ASSUME LibBase, NEW i \in Imports, L!Ingest(i)
  PROVE  /\ LibBase' /\ cost' = cost
         /\ OnlyFrom(rows, L!Import(i))
         /\ rows[L!Import(i)].state = "absent" /\ rows[L!Import(i)].at = "idle"
         /\ rows[L!Import(i)].attempts = 0
         /\ rows'[L!Import(i)].state = "ready" /\ rows'[L!Import(i)].at = "idle"
         /\ UNCHANGED <<item, payloads, held, piece, edit>>
  <1>1. /\ L!Import(i) \in L!Jobs /\ rows \in LibTables /\ LibRow(L!Import(i))
        /\ rows[L!Import(i)].state = "absent"
    BY ImportKeys DEF LibBase, LibTypes, LibTables, L!Ingest
  <1>2. rows[L!Import(i)].at = "idle" /\ rows[L!Import(i)].attempts = 0
    BY <1>1 DEF LibRow, Sound
  <1>3. /\ rows' = L!Enqueued(rows, L!Import(i))
        /\ UNCHANGED <<cost, item, payloads, held, piece, edit, raced>>
    BY DEF L!Ingest
  <1>4. /\ rows' \in LibTables /\ OnlyFrom(rows, L!Import(i)) /\ LibRow(L!Import(i))'
        /\ rows'[L!Import(i)] = [state |-> "ready", attempts |-> 0, at |-> "idle"]
    BY <1>1, <1>3, EnqueuedSound, LibEnqueues DEF OnlyFrom
  <1>5. LibTypes'
    BY <1>3, <1>4 DEF LibBase, LibTypes, LibTables
  <1>6. ImportSound(i)'
    <2>1. \A n \in 1 .. MaxAttempts, p \in L!Pieces : item'[<<i, n, p>>].text = 0
      <3>1. \A n \in 1 .. MaxAttempts : n > rows[L!Import(i)].attempts
        BY <1>2, ExecutionAssumption
      <3> QED BY <1>3, <3>1 DEF LibBase, ImportSound, ToCome
    <2>2. ASSUME NEW p \in L!Pieces
          PROVE payloads'[<<i, p>>] = L!NoItem <=> rows'[L!Embed(<<i, p>>)].state = "absent"
      <3>1. L!Embed(<<i, p>>) \in L!Jobs /\ L!Embed(<<i, p>>) # L!Import(i)
        BY ImportKeys, KindsOfJobs
      <3> QED BY <1>3, <1>4, <3>1 DEF LibBase, ImportSound, OnlyFrom
    <2> QED BY <1>4, <2>1, <2>2 DEF ImportSound
  <1>7. TextsKept
    BY <1>3 DEF TextsKept
  <1>8. LibBase'
    BY <1>3, <1>4, <1>5, <1>6, <1>7, ImportRowBase
  <1> QED BY <1>1, <1>2, <1>3, <1>4, <1>8

\* ... begins, ...
LEMMA StartImportBase ==
  ASSUME LibBase, NEW i \in Imports, L!StartImport(i)
  PROVE  /\ LibBase' /\ cost' = cost
         /\ OnlyFrom(rows, L!Import(i))
         /\ rows[L!Import(i)].state = "ready" /\ rows[L!Import(i)].at = "idle"
         /\ rows'[L!Import(i)].at = "insert"
         /\ rows'[L!Import(i)].attempts = rows[L!Import(i)].attempts + 1
         /\ UNCHANGED <<item, payloads, held, edit>>
         /\ \A e \in Imports \cup Files : e # i => piece'[e] = piece[e]
  <1>1. /\ L!Import(i) \in L!Jobs /\ L!Import(i) \notin L!EmbedJobs
        /\ rows \in LibTables /\ cost \in 0 .. MaxCost
        /\ Sound(rows[L!Import(i)]) /\ rows[L!Import(i)] \in JobRows(L!Steps)
        /\ "insert" \in L!Steps
    BY ImportKeys DEF LibBase, LibTypes, LibTables, LibRow, L!Steps
  <1>2. /\ rows' \in LibTables /\ cost' = cost /\ OnlyFrom(rows, L!Import(i))
        /\ rows[L!Import(i)].state = "ready" /\ rows[L!Import(i)].at = "idle"
        /\ rows'[L!Import(i)] =
              [state |-> "running", attempts |-> rows[L!Import(i)].attempts + 1,
                at |-> "insert"]
    BY <1>1, LibQueue DEF L!StartImport
  <1>3. /\ UNCHANGED <<item, payloads, held, edit, raced>>
        /\ piece' = [piece EXCEPT ![i] = 1]
        /\ piece \in [Imports \cup Files -> 0 .. Chunks]
    BY DEF L!StartImport, LibBase, LibTypes
  <1>4. /\ piece' \in [Imports \cup Files -> 0 .. Chunks] /\ piece'[i] = 1
        /\ \A e \in Imports \cup Files : e # i => piece'[e] = piece[e]
    BY <1>3, OfficeAssumption
  <1>5. LibTypes'
    BY <1>2, <1>3, <1>4 DEF LibBase, LibTypes, LibTables
  <1>6. LibRow(L!Import(i))'
    BY <1>1, <1>2 DEF LibRow, Sound, JobRows
  <1>7. ImportSound(i)'
    <2>1. \A n \in 1 .. MaxAttempts, p \in L!Pieces : ToCome(i, n, p)' => ToCome(i, n, p)
      BY <1>1, <1>2 DEF ToCome, JobRows
    <2>2. ASSUME NEW p \in L!Pieces
          PROVE payloads'[<<i, p>>] = L!NoItem <=> rows'[L!Embed(<<i, p>>)].state = "absent"
      <3>1. L!Embed(<<i, p>>) \in L!Jobs /\ L!Embed(<<i, p>>) # L!Import(i)
        BY ImportKeys, KindsOfJobs
      <3> QED BY <1>2, <1>3, <3>1 DEF LibBase, ImportSound, OnlyFrom
    <2>3. piece'[i] \in L!Pieces
      BY <1>4, OfficeAssumption DEF L!Pieces
    <2>4. \A n \in 1 .. MaxAttempts, p \in L!Pieces : ToCome(i, n, p)' =>
            item'[<<i, n, p>>].text = 0
      BY <1>3, <2>1 DEF LibBase, ImportSound
    <2> QED BY <1>2, <2>2, <2>3, <2>4 DEF ImportSound
  <1>8. TextsKept
    BY <1>3 DEF TextsKept
  <1>9. LibBase'
    BY <1>2, <1>3, <1>4, <1>5, <1>6, <1>7, <1>8, ImportRowBase
  <1> QED BY <1>2, <1>3, <1>4, <1>9

\* ... is given up, fails or ends.
LEMMA ImportEndsBase ==
  ASSUME LibBase, NEW i \in Imports, L!NotShared(i) \/ L!Ends(L!Import(i))
  PROVE  /\ LibBase'
         /\ OnlyFrom(rows, L!Import(i))
         /\ rows[L!Import(i)].at # "idle" /\ rows'[L!Import(i)].at = "idle"
         /\ rows'[L!Import(i)].attempts = rows[L!Import(i)].attempts
         /\ rows'[L!Import(i)].state = "ready" => rows[L!Import(i)].attempts < MaxAttempts
         /\ \/ /\ cost' = cost /\ rows[L!Import(i)].at # "enqueue"
               /\ rows'[L!Import(i)].state \in {"done", "dead"}
            \/ cost' = cost + 1
         /\ UNCHANGED <<item, payloads, piece, edit>>
         /\ \A k \in L!EmbedJobs : held'[k] = held[k]
  <1>1. /\ L!Import(i) \in L!Jobs /\ L!Import(i) \notin L!EmbedJobs
        /\ rows \in LibTables /\ cost \in 0 .. MaxCost
        /\ Sound(rows[L!Import(i)]) /\ rows[L!Import(i)] \in JobRows(L!Steps)
    BY ImportKeys DEF LibBase, LibTypes, LibTables, LibRow
  <1>2. /\ rows' \in LibTables /\ cost' \in 0 .. MaxCost /\ OnlyFrom(rows, L!Import(i))
        /\ rows[L!Import(i)].at # "idle"
        /\ rows'[L!Import(i)].at = "idle"
        /\ rows'[L!Import(i)].attempts = rows[L!Import(i)].attempts
        /\ rows'[L!Import(i)].state \in {"done", "dead", "ready"}
        /\ rows'[L!Import(i)].state = "ready" => rows[L!Import(i)].attempts < MaxAttempts
        /\ \/ /\ cost' = cost /\ rows[L!Import(i)].at # "enqueue"
              /\ rows'[L!Import(i)].state \in {"done", "dead"}
           \/ cost' = cost + 1
    <2>0. cost' = cost => cost' \in 0 .. MaxCost
      BY <1>1
    <2>1. CASE L!NotShared(i)
      <3>1. L!Buries(L!Import(i)) /\ rows[L!Import(i)].at = "insert"
        BY <2>1 DEF L!NotShared
      <3>2. /\ rows' \in LibTables /\ cost' = cost /\ OnlyFrom(rows, L!Import(i))
            /\ rows'[L!Import(i)] =
                  [state |-> "dead", attempts |-> rows[L!Import(i)].attempts, at |-> "idle"]
        BY <1>1, <3>1, LibQueue
      <3> QED BY <2>0, <3>1, <3>2
    <2>2. CASE L!StepFails(L!Import(i))
      BY <1>1, <2>2, LibQueue DEF Fell
    <2>3. CASE L!Complete(L!Import(i))
      <3>1. /\ rows' \in LibTables /\ cost' = cost /\ OnlyFrom(rows, L!Import(i))
            /\ rows[L!Import(i)].at = "report"
            /\ rows'[L!Import(i)] =
                  [state |-> "done", attempts |-> rows[L!Import(i)].attempts, at |-> "idle"]
        BY <1>1, <2>3, LibQueue
      <3> QED BY <2>0, <3>1
    <2> QED BY <2>1, <2>2, <2>3 DEF L!Ends
  <1>3. UNCHANGED <<item, payloads, piece, edit, raced>>
    BY DEF L!NotShared, L!Ends
  <1>4. held' \in [L!EmbedJobs -> 0 .. MaxEdits + 1]
        /\ \A k \in L!EmbedJobs : held'[k] = held[k]
    <2>1. held \in [L!EmbedJobs -> 0 .. MaxEdits + 1]
      BY DEF LibBase, LibTypes
    <2> QED BY <1>1, <2>1 DEF L!NotShared, L!Ends
  <1>5. LibTypes'
    BY <1>2, <1>3, <1>4 DEF LibBase, LibTypes, LibTables
  <1>6. LibRow(L!Import(i))'
    BY <1>1, <1>2 DEF LibRow, Sound
  <1>7. ImportSound(i)'
    <2>1. \A n \in 1 .. MaxAttempts, p \in L!Pieces : ToCome(i, n, p)' => ToCome(i, n, p)
      BY <1>2 DEF ToCome
    <2>2. ASSUME NEW p \in L!Pieces
          PROVE payloads'[<<i, p>>] = L!NoItem <=> rows'[L!Embed(<<i, p>>)].state = "absent"
      <3>1. L!Embed(<<i, p>>) \in L!Jobs /\ L!Embed(<<i, p>>) # L!Import(i)
        BY ImportKeys, KindsOfJobs
      <3> QED BY <1>2, <1>3, <3>1 DEF LibBase, ImportSound, OnlyFrom
    <2>3. \A n \in 1 .. MaxAttempts, p \in L!Pieces : ToCome(i, n, p)' =>
            item'[<<i, n, p>>].text = 0
      BY <1>3, <2>1 DEF LibBase, ImportSound
    <2> QED BY <1>2, <2>2, <2>3 DEF ImportSound
  <1>8. TextsKept
    BY <1>3 DEF TextsKept
  <1>9. LibBase'
    BY <1>2, <1>3, <1>4, <1>5, <1>6, <1>7, <1>8, ImportRowBase
  <1> QED BY <1>2, <1>3, <1>4, <1>9

\* The row of an import after a call that left the table q: it goes on to step, or fell.
LEMMA ImportGoesOn ==
  ASSUME LibBase, NEW i \in Imports, NEW q \in LibTables,
         q[L!Import(i)] = rows[L!Import(i)], rows[L!Import(i)].at \in {"insert", "enqueue"},
         NEW step \in {"insert", "enqueue", "report"}, L!GoesOnWith(q, L!Import(i), step)
  PROVE  /\ rows' \in LibTables /\ cost' \in 0 .. MaxCost /\ OnlyFrom(q, L!Import(i))
         /\ LibRow(L!Import(i))' /\ rows'[L!Import(i)].state # "absent"
         /\ rows'[L!Import(i)].attempts = rows[L!Import(i)].attempts
         /\ \/ /\ cost' = cost /\ rows'[L!Import(i)].at = step
               /\ rows'[L!Import(i)].state = rows[L!Import(i)].state
            \/ cost' = cost + 1 /\ rows'[L!Import(i)].at = "idle"
         /\ rows'[L!Import(i)].state = "ready" => rows[L!Import(i)].attempts < MaxAttempts
  <1>1. /\ L!Import(i) \in L!Jobs /\ L!Import(i) \notin L!EmbedJobs
        /\ cost \in 0 .. MaxCost /\ step \in L!Steps /\ "idle" \notin L!Steps
        /\ Sound(rows[L!Import(i)]) /\ rows[L!Import(i)] \in JobRows(L!Steps)
    BY ImportKeys DEF LibBase, LibTypes, LibRow, L!Steps
  <1>2. rows[L!Import(i)].state = "running"
    BY <1>1 DEF Sound
  <1>3. /\ rows' \in LibTables /\ cost' \in 0 .. MaxCost /\ OnlyFrom(q, L!Import(i))
        /\ \/ cost' = cost /\ At(rows[L!Import(i)], rows'[L!Import(i)], step)
           \/ cost' = cost + 1 /\ Fell(rows[L!Import(i)], rows'[L!Import(i)])
    BY <1>1, LibGoesOn
  <1>4. LibRow(L!Import(i))' /\ rows'[L!Import(i)].state # "absent"
    BY <1>1, <1>2, <1>3 DEF LibRow, Sound, At, Fell
  <1> QED BY <1>2, <1>3, <1>4 DEF At, Fell

\* A piece is inserted, ...
LEMMA InsertPieceBase ==
  ASSUME LibBase, NEW i \in Imports, L!InsertPiece(i)
  PROVE  /\ LibBase'
         /\ OnlyFrom(rows, L!Import(i)) /\ rows[L!Import(i)].at = "insert"
         /\ rows'[L!Import(i)].attempts = rows[L!Import(i)].attempts
         /\ \/ /\ cost' = cost /\ rows'[L!Import(i)].at = "enqueue"
               /\ rows'[L!Import(i)].state = rows[L!Import(i)].state
            \/ cost' = cost + 1 /\ rows'[L!Import(i)].at = "idle"
         /\ rows'[L!Import(i)].state = "ready" => rows[L!Import(i)].attempts < MaxAttempts
         /\ OnlyItem(L!At(i)) /\ item[L!At(i)].text = 0 /\ item'[L!At(i)].text = 1
         /\ item'[L!At(i)].vector = item[L!At(i)].vector
         /\ payloads[<<i, piece[i]>>] # L!At(i)
         /\ UNCHANGED <<payloads, held, piece, edit>>
  <1>0. PICK x, a, p : x = L!At(i) /\ a = rows[L!Import(i)].attempts /\ p = piece[i]
    OBVIOUS
  <1>1. /\ x = <<i, a, p>> /\ a \in 1 .. MaxAttempts /\ p \in L!Pieces /\ x \in L!Items
        /\ rows[L!Import(i)].at = "insert" /\ ImportSound(i)
    BY <1>0, ImportAt DEF L!InsertPiece, L!At
  <1>2. item[x].text = 0
    <2>1. ToCome(i, a, p)
      BY <1>0, <1>1 DEF ToCome, L!Pieces
    <2> QED BY <1>1, <2>1 DEF ImportSound
  <1>3. payloads[<<i, p>>] # x
    <2>1. PICK k : k = L!Embed(<<i, p>>)
      OBVIOUS
    <2>2. k \in L!EmbedJobs /\ L!ItemOf(k) = payloads[<<i, p>>]
      BY <1>1, <2>1, ImportKeys
    <2>3. payloads[<<i, p>>] = L!NoItem <=> rows[k].state = "absent"
      BY <1>1, <2>1 DEF ImportSound
    <2>4. rows[k].state # "absent" => item[payloads[<<i, p>>]].text \in 1 .. MaxEdits + 1
      BY <2>2, EmbedAt
    <2> QED BY <1>1, <1>2, <2>3, <2>4, IdsAssumption, OfficeAssumption
  <1>4. /\ item' \in [L!Items -> [text : 0 .. MaxEdits + 1, vector : 0 .. MaxEdits + 1]]
        /\ OnlyItem(x) /\ item'[x].text = 1 /\ item'[x].vector = item[x].vector
    <2>1. L!NewText(x) /\ LibTypes /\ item[x].text <= MaxEdits
      BY <1>0, <1>2, OfficeAssumption DEF L!InsertPiece, LibBase
    <2> QED BY <1>1, <1>2, <2>1, TextWritten
  <1>5. /\ rows' \in LibTables /\ cost' \in 0 .. MaxCost /\ OnlyFrom(rows, L!Import(i))
        /\ LibRow(L!Import(i))' /\ rows'[L!Import(i)].state # "absent"
        /\ rows'[L!Import(i)].attempts = a
        /\ \/ /\ cost' = cost /\ rows'[L!Import(i)].at = "enqueue"
              /\ rows'[L!Import(i)].state = rows[L!Import(i)].state
           \/ cost' = cost + 1 /\ rows'[L!Import(i)].at = "idle"
        /\ rows'[L!Import(i)].state = "ready" => rows[L!Import(i)].attempts < MaxAttempts
    <2>1. L!GoesOnWith(rows, L!Import(i), "enqueue") /\ rows \in LibTables
      BY DEF L!InsertPiece, L!GoesOn, LibBase, LibTypes, LibTables
    <2> QED BY <1>0, <1>1, <2>1, ImportGoesOn
  <1>6. UNCHANGED <<payloads, held, piece, edit, raced>>
    BY DEF L!InsertPiece
  <1>7. LibTypes'
    BY <1>4, <1>5, <1>6 DEF LibBase, LibTypes, LibTables
  <1>8. TextsKept
    BY <1>1, <1>2, <1>4 DEF TextsKept, OnlyItem
  <1>9. ImportSound(i)'
    <2>1. ASSUME NEW n \in 1 .. MaxAttempts, NEW m \in L!Pieces, ToCome(i, n, m)'
          PROVE  item'[<<i, n, m>>].text = 0
      <3>1. ToCome(i, n, m) /\ <<i, n, m>> # x
        BY <1>0, <1>1, <1>5, <1>6, <2>1 DEF ToCome, L!Pieces
      <3>2. <<i, n, m>> \in L!Items
        BY ImportKeys
      <3> QED BY <1>1, <1>4, <3>1, <3>2 DEF ImportSound, OnlyItem
    <2>2. ASSUME NEW m \in L!Pieces
          PROVE payloads'[<<i, m>>] = L!NoItem <=> rows'[L!Embed(<<i, m>>)].state = "absent"
      <3>1. L!Embed(<<i, m>>) \in L!Jobs /\ L!Embed(<<i, m>>) # L!Import(i)
        BY ImportKeys, KindsOfJobs
      <3> QED BY <1>1, <1>5, <1>6, <3>1 DEF ImportSound, OnlyFrom
    <2>3. L!At(i)' = x /\ piece'[i] = p
      BY <1>0, <1>1, <1>5, <1>6 DEF L!At
    <2> QED BY <1>1, <1>3, <1>4, <1>5, <1>6, <2>1, <2>2, <2>3 DEF ImportSound
  <1>10. \A y \in L!Items : (\A n, m : y # <<i, n, m>>) => item'[y].text = item[y].text
    BY <1>1, <1>4 DEF OnlyItem
  <1>11. LibBase'
    BY <1>5, <1>6, <1>7, <1>8, <1>9, <1>10, ImportRowBase
  <1> QED BY <1>0, <1>1, <1>2, <1>3, <1>4, <1>5, <1>6, <1>11

\* Which piece is next.
LEMMA NextPieces ==
  ASSUME LibBase, NEW i \in Imports, rows[L!Import(i)].at = "enqueue", L!NextPiece(i)
  PROVE  /\ piece' \in [Imports \cup Files -> 0 .. Chunks]
         /\ \A e \in Imports \cup Files : e # i => piece'[e] = piece[e]
         /\ L!AfterPiece(i) \in {"insert", "report"}
         /\ L!AfterPiece(i) = "insert" => /\ piece'[i] = piece[i] + 1
                                          /\ piece[i] + 1 \in L!Pieces
         /\ UNCHANGED <<item, held, edit, raced>>
  <1>1. PICK p : p = piece[i]
    OBVIOUS
  <1>2. p \in L!Pieces
    BY <1>1, ImportAt
  <1>3. /\ piece' = [piece EXCEPT ![i] = IF p < Chunks THEN p + 1 ELSE p]
        /\ piece \in [Imports \cup Files -> 0 .. Chunks]
    BY <1>1 DEF L!NextPiece, LibBase, LibTypes
  <1>4. p < Chunks => p + 1 \in L!Pieces /\ p + 1 \in 0 .. Chunks
    BY <1>2, OfficeAssumption DEF L!Pieces
  <1> QED BY <1>1, <1>3, <1>4 DEF L!NextPiece, L!AfterPiece

\* ... its embedding is enqueued, ...
LEMMA EnqueueEmbedBase ==
  ASSUME LibBase, NEW i \in Imports, L!EnqueueEmbed(i)
  PROVE  /\ LibBase'
         /\ \A j \in L!Jobs : j \notin {L!Import(i), L!Embed(<<i, piece[i]>>)} =>
                  rows'[j] = rows[j]
         /\ rows[L!Import(i)].at = "enqueue"
         /\ rows'[L!Import(i)].attempts = rows[L!Import(i)].attempts
         /\ \/ /\ cost' = cost /\ rows'[L!Import(i)].at \in {"insert", "report"}
               /\ rows'[L!Import(i)].state = rows[L!Import(i)].state
            \/ cost' = cost + 1 /\ rows'[L!Import(i)].at = "idle"
         /\ rows'[L!Import(i)].state = "ready" => rows[L!Import(i)].attempts < MaxAttempts
         /\ payloads[<<i, piece[i]>>] = L!NoItem =>
               /\ payloads' = [payloads EXCEPT ![<<i, piece[i]>>] = L!At(i)]
               /\ rows[L!Embed(<<i, piece[i]>>)].state = "absent"
               /\ \A k : k = L!Embed(<<i, piece[i]>>) => rows'[k].state = "ready"
         /\ payloads[<<i, piece[i]>>] # L!NoItem => 
               /\ payloads' = payloads
               /\ \A k : k = L!Embed(<<i, piece[i]>>) => rows'[k] = rows[k]
         /\ \A e \in Imports \cup Files : e # i => piece'[e] = piece[e]
         /\ UNCHANGED <<item, held, edit>>
  <1>0. PICK x, a, p, k, l : /\ x = L!At(i) /\ a = rows[L!Import(i)].attempts /\ p = piece[i]
                             /\ k = L!Embed(<<i, p>>) /\ l = L!Import(i)
    OBVIOUS
  <1>1. /\ x = <<i, a, p>> /\ a \in 1 .. MaxAttempts /\ p \in L!Pieces /\ x \in L!Items
        /\ rows[l].at = "enqueue" /\ ImportSound(i)
        /\ item[x].text > 0 /\ payloads[<<i, p>>] # x
    BY <1>0, ImportAt DEF L!EnqueueEmbed, L!At, ImportSound
  <1>2. /\ k \in L!EmbedJobs /\ k \in L!Jobs /\ l \in L!Jobs /\ k # l
        /\ L!ItemOf(k) = payloads[<<i, p>>]
        /\ rows \in LibTables
    BY <1>0, <1>1, ImportKeys, KindsOfJobs DEF LibBase, LibTypes, LibTables
  <1>3. payloads[<<i, p>>] = L!NoItem <=> rows[k].state = "absent"
    BY <1>0, <1>1 DEF ImportSound
  <1>4. PICK q : q = L!Enqueued(rows, k)
    OBVIOUS
  <1>5. /\ q \in LibTables
        /\ \A j \in L!Jobs : j # k => q[j] = rows[j]
        /\ rows[k].state = "absent" => q[k] = [state |-> "ready", attempts |-> 0, at |-> "idle"]
        /\ rows[k].state # "absent" => q = rows
    BY <1>2, <1>4, LibEnqueues
  <1>6. L!GoesOnWith(q, l, L!AfterPiece(i)) /\ L!NextPiece(i)
    BY <1>0, <1>4 DEF L!EnqueueEmbed
  <1>7. /\ piece' \in [Imports \cup Files -> 0 .. Chunks]
        /\ \A e \in Imports \cup Files : e # i => piece'[e] = piece[e]
        /\ L!AfterPiece(i) \in {"insert", "report"}
        /\ L!AfterPiece(i) = "insert" => piece'[i] = p + 1 /\ p + 1 \in L!Pieces
        /\ UNCHANGED <<item, held, edit, raced>>
    BY <1>0, <1>1, <1>6, NextPieces
  <1>8. /\ rows' \in LibTables /\ cost' \in 0 .. MaxCost /\ OnlyFrom(q, l)
        /\ LibRow(l)' /\ rows'[l].state # "absent"
        /\ rows'[l].attempts = a
        /\ \/ /\ cost' = cost /\ rows'[l].at = L!AfterPiece(i)
              /\ rows'[l].state = rows[l].state
           \/ cost' = cost + 1 /\ rows'[l].at = "idle"
        /\ rows'[l].state = "ready" => rows[l].attempts < MaxAttempts
    <2>1. PICK step \in {"insert", "report"} : step = L!AfterPiece(i)
      BY <1>7
    <2>2. q[l] = rows[l]
      BY <1>2, <1>5
    <2> QED BY <1>0, <1>1, <1>2, <1>5, <1>6, <2>1, <2>2, ImportGoesOn
  <1>9. payloads' = [payloads EXCEPT ![<<i, p>>] = IF @ = L!NoItem THEN x ELSE @]
    BY <1>0 DEF L!EnqueueEmbed
  <1>10. /\ payloads \in [Imports \X L!Pieces -> L!Items \cup {L!NoItem}]
         /\ <<i, p>> \in Imports \X L!Pieces
    BY <1>1 DEF LibBase, LibTypes
  <1>11. /\ payloads' \in [Imports \X L!Pieces -> L!Items \cup {L!NoItem}]
         /\ payloads'[<<i, p>>] # L!NoItem
         /\ \A r \in Imports \X L!Pieces : r # <<i, p>> => payloads'[r] = payloads[r]
         /\ payloads[<<i, p>>] = L!NoItem =>
               payloads' = [payloads EXCEPT ![<<i, p>>] = x] /\ payloads'[<<i, p>>] = x
         /\ payloads[<<i, p>>] # L!NoItem => payloads' = payloads
    <2>1. CASE payloads[<<i, p>>] = L!NoItem
      <3>1. payloads' = [payloads EXCEPT ![<<i, p>>] = x]
        BY <1>9, <2>1
      <3>2. x # L!NoItem
        BY <1>1, IdsAssumption
      <3> QED BY <1>1, <1>10, <2>1, <3>1, <3>2
    <2>2. CASE payloads[<<i, p>>] # L!NoItem
      <3>1. payloads' = payloads
        BY <1>9, <1>10, <2>2
      <3> QED BY <1>10, <2>2, <3>1
    <2> QED BY <2>1, <2>2
  <1>12. LibTypes'
    BY <1>7, <1>8, <1>11 DEF LibBase, LibTypes, LibTables
  <1>13. \A j \in L!Jobs : j \notin {l, k} => rows'[j] = rows[j]
    BY <1>5, <1>8 DEF OnlyFrom
  <1>14. /\ payloads[<<i, p>>] = L!NoItem =>
               rows'[k] = [state |-> "ready", attempts |-> 0, at |-> "idle"]
         /\ payloads[<<i, p>>] # L!NoItem => rows'[k] = rows[k]
    BY <1>2, <1>3, <1>5, <1>8 DEF OnlyFrom
  <1>15. LibRow(k)'
    BY <1>2, <1>14, ExecutionAssumption DEF LibBase, LibRow, Sound
  <1>16. EmbedSound(k)'
    <2>1. L!ItemOf(k)' = payloads'[<<i, p>>]
      BY <1>0, <1>10 DEF L!ItemOf, L!Embed
    <2>2. CASE payloads[<<i, p>>] = L!NoItem
      BY <1>1, <1>7, <1>11, <1>14, <2>1, <2>2 DEF EmbedSound
    <2>3. CASE payloads[<<i, p>>] # L!NoItem
      BY <1>2, <1>7, <1>11, <1>14, <2>1, <2>3 DEF EmbedSound, LibBase
    <2> QED BY <2>2, <2>3
  <1>17. ImportSound(i)'
    <2>1. ASSUME NEW n \in 1 .. MaxAttempts, NEW m \in L!Pieces, ToCome(i, n, m)'
          PROVE  item'[<<i, n, m>>].text = 0
      <3>1. ToCome(i, n, m)
        BY <1>0, <1>1, <1>7, <1>8, <2>1 DEF ToCome, L!Pieces
      <3> QED BY <1>1, <1>7, <3>1 DEF ImportSound
    <2>2. ASSUME NEW m \in L!Pieces
          PROVE payloads'[<<i, m>>] = L!NoItem <=> rows'[L!Embed(<<i, m>>)].state = "absent"
      <3>1. CASE m = p
        BY <1>0, <1>3, <1>11, <1>14, <3>1
      <3>2. CASE m # p
        <4>1. L!Embed(<<i, m>>) \in L!Jobs /\ L!Embed(<<i, m>>) # l /\ L!Embed(<<i, m>>) # k
          <5>1. L!Embed(<<i, m>>) \in L!Jobs /\ L!Embed(<<i, m>>) # l
            BY <1>0, ImportKeys, KindsOfJobs
          <5> QED BY <1>0, <3>2, <5>1 DEF L!Embed
        <4>2. payloads'[<<i, m>>] = payloads[<<i, m>>]
          BY <1>11, <3>2
        <4> QED BY <1>1, <1>13, <4>1, <4>2 DEF ImportSound
      <3> QED BY <3>1, <3>2
    <2>3. rows'[L!Import(i)].at \in {"insert", "enqueue"} =>
            rows'[L!Import(i)].at = "insert" /\ piece'[i] \in L!Pieces
      BY <1>0, <1>7, <1>8
    <2> QED BY <1>0, <1>8, <2>1, <2>2, <2>3 DEF ImportSound
  <1>18. /\ TextsKept
         /\ \A y \in L!Items : (\A n, m : y # <<i, n, m>>) => item'[y].text = item[y].text
         /\ \A j \in L!EmbedJobs : held'[j] = held[j]
         /\ edit' = edit
    BY <1>7 DEF TextsKept
  <1>19. LibBase'
    BY <1>0, <1>1, <1>7, <1>8, <1>11, <1>12, <1>13, <1>15, <1>16, <1>17, <1>18, ImportBase
  <1> QED BY <1>0, <1>1, <1>3, <1>7, <1>8, <1>11, <1>13, <1>14, <1>19

\* ... or is not.
LEMMA EnqueueEmbedSwallowsBase ==
  ASSUME LibBase, NEW i \in Imports, L!EnqueueEmbedSwallows(i)
  PROVE  /\ LibBase' /\ cost' = cost + 1
         /\ OnlyFrom(rows, L!Import(i)) /\ rows[L!Import(i)].at = "enqueue"
         /\ rows'[L!Import(i)].attempts = rows[L!Import(i)].attempts
         /\ rows'[L!Import(i)].state = rows[L!Import(i)].state
         /\ rows'[L!Import(i)].at \in {"insert", "report"}
         /\ \A e \in Imports \cup Files : e # i => piece'[e] = piece[e]
         /\ UNCHANGED <<item, payloads, held, edit>>
  <1>0. PICK a, p, l : a = rows[L!Import(i)].attempts /\ p = piece[i] /\ l = L!Import(i)
    OBVIOUS
  <1>1. /\ a \in 1 .. MaxAttempts /\ p \in L!Pieces
        /\ rows[l].at = "enqueue" /\ ImportSound(i)
        /\ L!NextPiece(i)
    BY <1>0, ImportAt DEF L!EnqueueEmbedSwallows, ImportSound
  <1>2. /\ l \in L!Jobs /\ l \notin L!EmbedJobs
        /\ rows \in LibTables /\ cost \in 0 .. MaxCost
        /\ Sound(rows[l]) /\ rows[l] \in JobRows(L!Steps)
    BY <1>0, ImportKeys DEF LibBase, LibTypes, LibTables, LibRow
  <1>3. /\ piece' \in [Imports \cup Files -> 0 .. Chunks]
        /\ \A e \in Imports \cup Files : e # i => piece'[e] = piece[e]
        /\ L!AfterPiece(i) \in {"insert", "report"}
        /\ L!AfterPiece(i) = "insert" => piece'[i] = p + 1 /\ p + 1 \in L!Pieces
        /\ UNCHANGED <<item, held, edit, raced>>
    BY <1>0, <1>1, NextPieces
  <1>4. PICK step \in {"insert", "report"} : step = L!AfterPiece(i)
    BY <1>3
  <1>5. rows' = [rows EXCEPT ![l].at = step] /\ L!Fault /\ payloads' = payloads
    BY <1>0, <1>4 DEF L!EnqueueEmbedSwallows
  <1>6. cost' = cost + 1 /\ cost' \in 0 .. MaxCost
    BY <1>2, <1>5, LibFault
  <1>7. /\ rows' \in LibTables /\ OnlyFrom(rows, l) /\ rows'[l].attempts = a
        /\ rows'[l].state = rows[l].state /\ rows'[l].at = step
    <2>1. step \in L!Steps
      BY DEF L!Steps
    <2> QED BY <1>0, <1>2, <1>5, <2>1 DEF LibTables, JobRows, OnlyFrom
  <1>8. LibRow(l)' /\ rows'[l].state # "absent"
    BY <1>1, <1>2, <1>7, <1>0 DEF LibRow, Sound
  <1>9. LibTypes'
    BY <1>3, <1>5, <1>6, <1>7 DEF LibBase, LibTypes, LibTables
  <1>10. ImportSound(i)'
    <2>1. ASSUME NEW n \in 1 .. MaxAttempts, NEW m \in L!Pieces, ToCome(i, n, m)'
          PROVE  item'[<<i, n, m>>].text = 0
      <3>1. ToCome(i, n, m)
        BY <1>0, <1>1, <1>3, <1>4, <1>7, <2>1 DEF ToCome, L!Pieces
      <3> QED BY <1>1, <1>3, <3>1 DEF ImportSound
    <2>2. ASSUME NEW m \in L!Pieces
          PROVE payloads'[<<i, m>>] = L!NoItem <=> rows'[L!Embed(<<i, m>>)].state = "absent"
      <3>1. L!Embed(<<i, m>>) \in L!Jobs /\ L!Embed(<<i, m>>) # l
        BY <1>0, ImportKeys, KindsOfJobs
      <3> QED BY <1>1, <1>5, <1>7, <3>1 DEF ImportSound, OnlyFrom
    <2>3. rows'[L!Import(i)].at \in {"insert", "enqueue"} =>
            rows'[L!Import(i)].at = "insert" /\ piece'[i] \in L!Pieces
      BY <1>0, <1>3, <1>4, <1>7
    <2> QED BY <1>0, <1>8, <2>1, <2>2, <2>3 DEF ImportSound
  <1>11. TextsKept
    BY <1>3 DEF TextsKept
  <1>12. LibBase'
    BY <1>0, <1>3, <1>5, <1>7, <1>8, <1>9, <1>10, <1>11, ImportRowBase
  <1> QED BY <1>0, <1>1, <1>3, <1>4, <1>5, <1>6, <1>7, <1>12

\* Nothing more is lost, ...
LosesNothing == cost' = cost /\ Lost' \subseteq Lost
\* ... or one item at most, at the cost of a fault.
LosesOne == cost' = cost + 1 /\ \E x : Lost' \subseteq Lost \cup {x}

\* To know it of each item is enough.
LEMMA LostItems ==
  ASSUME NEW X, \A x \in L!Items : Wanting(x)' \/ Doomed(x)' =>
                Wanting(x) \/ Doomed(x) \/ x \in X
  PROVE  Lost' \subseteq Lost \cup X
  <1>1. ASSUME NEW x \in Lost' PROVE x \in Lost \cup X
    <2>1. x \in L!Items /\ (Wanting(x)' \/ Doomed(x)')
      BY DEF Lost
    <2> QED BY <2>1 DEF Lost
  <1> QED BY <1>1

\* A step of an embedding can lose its item only.
LEMMA EmbedLoses ==
  ASSUME LibBase, NEW k \in L!EmbedJobs, EmbedTurn(k)
  PROVE  /\ Lost' \subseteq Lost \cup {L!ItemOf(k)}
         /\ \A x \in L!Items : x = L!ItemOf(k) /\ (Wanting(x)' => Wanting(x)) =>
                Lost' \subseteq Lost
  <1>1. \A j \in L!EmbedJobs : L!ItemOf(j)' = L!ItemOf(j) /\ j \in L!Jobs
    BY KindsOfJobs DEF L!ItemOf, EmbedTurn
  <1>2. \A j \in L!Jobs : j # k => rows'[j] = rows[j]
    BY DEF EmbedTurn, OnlyFrom
  <1>3. \A i \in Imports : /\ rows'[L!Import(i)] = rows[L!Import(i)]
                           /\ L!At(i)' = L!At(i) /\ payloads' = payloads /\ piece' = piece
    <2>1. ASSUME NEW i \in Imports PROVE rows'[L!Import(i)] = rows[L!Import(i)]
      BY <1>2, ImportKeys
    <2> QED BY <2>1 DEF L!At, EmbedTurn
  <1>4. \A x \in L!Items : Doomed(x)' => Doomed(x)
    BY <1>3 DEF Doomed, AttemptOf
  <1>5. ASSUME NEW x \in L!Items, x # L!ItemOf(k), Wanting(x)' PROVE Wanting(x)
    <2>1. item'[x] = item[x]
      <3>1. item'[x].text = item[x].text /\ item'[x].vector = item[x].vector
        BY <1>5 DEF EmbedTurn
      <3> QED BY <3>1 DEF LibBase, LibTypes, EmbedTurn
    <2>2. ASSUME Coming(x) PROVE Coming(x)'
      <3>1. CASE edit = x /\ rows[EditKey(x)].state = "absent"
        <4>1. edit # L!NoItem
          BY <3>1, IdsAssumption
        <4>2. EditKey(x) \in L!Jobs /\ EditKey(x) # k
          BY <1>5, <3>1, <4>1, EditKeys
        <4>3. EditKey(x)' = EditKey(x) /\ edit' = x
          BY <2>1, <3>1 DEF EditKey, EmbedTurn
        <4> QED BY <1>2, <3>1, <4>2, <4>3 DEF Coming
      <3>2. ASSUME NEW j \in L!EmbedJobs, L!ItemOf(j) = x,
                   rows[j].state = "ready" \/ rows[j].at \in {"read", "store"}
            PROVE  Coming(x)'
        BY <1>1, <1>2, <1>5, <3>2 DEF Coming
      <3>3. ASSUME NEW i \in Imports, rows[L!Import(i)].at = "enqueue", x = L!At(i),
                   payloads[<<i, piece[i]>>] = L!NoItem
            PROVE  Coming(x)'
        BY <1>3, <3>3 DEF Coming
      <3> QED BY <2>2, <3>1, <3>2, <3>3 DEF Coming
    <2> QED BY <1>5, <2>1, <2>2 DEF Wanting
  <1>6. Lost' \subseteq Lost \cup {L!ItemOf(k)}
    BY <1>4, <1>5, LostItems
  <1>7. ASSUME NEW x \in L!Items, x = L!ItemOf(k), Wanting(x)' => Wanting(x)
        PROVE  Lost' \subseteq Lost
    <2>1. Lost' \subseteq Lost \cup {}
      BY <1>4, <1>5, <1>7, LostItems
    <2> QED BY <2>1
  <1> QED BY <1>6, <1>7

\* An embedding loses its item at the cost of a fault, if at all.
LEMMA EmbedsLose ==
  ASSUME LibBase, NEW k \in L!EmbedJobs,
         L!StartEmbed(k) \/ L!ReadText(k) \/ L!StoreVector(k) \/ L!Ends(k)
  PROVE  LosesNothing \/ LosesOne
  <1>0. PICK x : x = L!ItemOf(k)
    OBVIOUS
  <1>1. EmbedTurn(k) /\ rows[k].state # "absent" /\ x \in L!Items
        /\ cost \in 0 .. MaxCost /\ (cost' = cost \/ cost' = cost + 1)
    <2>1. EmbedTurn(k) /\ (cost' = cost \/ cost' = cost + 1)
      BY StartEmbedTurn, ReadTextTurn, StoreVectorTurn, EmbedEndsTurn
    <2> QED BY <1>0, <2>1, EmbedAt DEF EmbedTurn, LibBase, LibTypes
  <1>2. CASE cost' = cost + 1
    BY <1>1, <1>2, EmbedLoses DEF LosesOne
  <1>3. CASE cost' = cost
    <2>1. L!ItemOf(k)' = x /\ cost' # cost + 1
      BY <1>0, <1>1, <1>3 DEF EmbedTurn, L!ItemOf
    <2>2. CASE L!StartEmbed(k) \/ L!ReadText(k)
      <3>1. rows'[k].at \in {"read", "store"}
        BY <2>1, <2>2, StartEmbedTurn, ReadTextTurn
      <3>2. Coming(x)'
        BY <2>1, <3>1 DEF Coming
      <3>3. ~Wanting(x)'
        BY <3>2 DEF Wanting
      <3> QED BY <1>0, <1>1, <1>3, <3>3, EmbedLoses DEF LosesNothing
    <2>3. CASE L!StoreVector(k)
      <3>1. item'[x].vector > 0
        BY <1>0, <2>3, StoreVectorTurn
      <3>2. ~Wanting(x)'
        BY <3>1 DEF Wanting
      <3> QED BY <1>0, <1>1, <1>3, <3>2, EmbedLoses DEF LosesNothing
    <2>4. CASE L!Ends(k)
      <3>1. rows[k].at = "report" /\ rows[k].state = "running" /\ UNCHANGED item
        BY <2>1, <2>4, EmbedEndsTurn, EmbedAt
      <3>2. \A j \in L!Jobs : j # k => rows'[j] = rows[j]
        BY <1>1 DEF EmbedTurn, OnlyFrom
      <3>3. ASSUME Coming(x) PROVE Coming(x)'
        <4>1. CASE edit = x /\ rows[EditKey(x)].state = "absent"
          <5>1. edit # L!NoItem
            BY <1>1, <4>1, IdsAssumption
          <5>2. EditKey(x) \in L!Jobs /\ EditKey(x) # k
            BY <3>1, <4>1, <5>1, EditKeys
          <5>3. EditKey(x)' = EditKey(x) /\ edit' = x
            BY <1>1, <3>1, <4>1 DEF EditKey, EmbedTurn
          <5> QED BY <3>2, <4>1, <5>2, <5>3 DEF Coming
        <4>2. ASSUME NEW j \in L!EmbedJobs, L!ItemOf(j) = x,
                     rows[j].state = "ready" \/ rows[j].at \in {"read", "store"}
              PROVE  Coming(x)'
          <5>1. j # k /\ j \in L!Jobs
            BY <3>1, <4>2, KindsOfJobs
          <5>2. L!ItemOf(j)' = x
            BY <1>1, <4>2 DEF L!ItemOf, EmbedTurn
          <5> QED BY <3>2, <4>2, <5>1, <5>2 DEF Coming
        <4>3. ASSUME NEW i \in Imports, rows[L!Import(i)].at = "enqueue", x = L!At(i),
                     payloads[<<i, piece[i]>>] = L!NoItem
              PROVE  Coming(x)'
          <5>1. rows'[L!Import(i)] = rows[L!Import(i)]
            BY <3>2, ImportKeys
          <5>2. L!At(i)' = L!At(i) /\ payloads'[<<i, piece'[i]>>] = payloads[<<i, piece[i]>>]
            BY <1>1, <5>1 DEF L!At, EmbedTurn
          <5> QED BY <4>3, <5>1, <5>2 DEF Coming
        <4> QED BY <3>3, <4>1, <4>2, <4>3 DEF Coming
      <3>4. Wanting(x)' => Wanting(x)
        BY <3>1, <3>3 DEF Wanting
      <3> QED BY <1>0, <1>1, <1>3, <3>4, EmbedLoses DEF LosesNothing
    <2> QED BY <2>2, <2>3, <2>4
  <1> QED BY <1>1, <1>2, <1>3

\* What is doomed depends on the imports and their keys alone.
LEMMA DoomedSame ==
  ASSUME NEW x, \A i \in Imports : rows'[L!Import(i)] = rows[L!Import(i)], payloads' = payloads,
         Doomed(x)'
  PROVE  Doomed(x)
  BY DEF Doomed, AttemptOf

\* The routes of a written item lose it at the cost of a fault, if at all.
LEMMA WrittenLoses ==
  ASSUME LibBase, (\E x \in L!Items : L!Write(x)) \/ L!WriteEnqueues \/ L!WriteSwallows
  PROVE  LosesNothing \/ LosesOne
  <1>1. ASSUME NEW x \in L!Items, L!Write(x) PROVE LosesNothing
    <2>1. /\ cost' = cost /\ (x \in Manual \/ item[x].text > 0)
          /\ OnlyItem(x) /\ item'[x].text = item[x].text + 1 /\ item'[x].vector = item[x].vector
          /\ edit = L!NoItem /\ edit' = x
          /\ UNCHANGED <<rows, payloads, held, piece>>
      BY <1>1, WriteBase
    <2>2. item[x].text \in 0 .. MaxEdits + 1
      BY DEF LibBase, LibTypes
    <2>3. ASSUME NEW y \in L!Items, Wanting(y)' PROVE Wanting(y)
      <3>1. y # edit
        BY <2>1, IdsAssumption
      <3>2. ASSUME Coming(y) PROVE Coming(y)'
        <4>1. CASE \E k \in L!EmbedJobs : /\ L!ItemOf(k) = y
                                          /\ rows[k].state = "ready"
                                              \/ rows[k].at \in {"read", "store"}
          <5>1. \A k \in L!EmbedJobs : L!ItemOf(k)' = L!ItemOf(k)
            BY <2>1 DEF L!ItemOf
          <5> QED BY <2>1, <4>1, <5>1 DEF Coming
        <4>2. CASE \E i \in Imports : /\ rows[L!Import(i)].at = "enqueue" /\ y = L!At(i)
                                      /\ payloads[<<i, piece[i]>>] = L!NoItem
          <5>1. \A i \in Imports : L!At(i)' = L!At(i)
            BY <2>1 DEF L!At
          <5> QED BY <2>1, <4>2, <5>1 DEF Coming
        <4> QED BY <3>1, <3>2, <4>1, <4>2 DEF Coming
      <3>3. CASE y # x
        <4>1. item'[y] = item[y]
          BY <2>1, <3>3 DEF OnlyItem
        <4> QED BY <2>3, <3>2, <4>1 DEF Wanting
      <3>4. CASE y = x
        <4>1. CASE item[x].text = 0
          <5>1. item'[x].text = 1
            BY <2>1, <4>1
          <5>2. EditKey(x)' = L!Embed(x)
            BY <5>1 DEF EditKey
          <5>3. rows[L!Embed(x)].state = "absent"
            BY <2>1, <4>1, ManualKeys DEF LibBase, EmbedSound
          <5>4. Coming(x)'
            BY <2>1, <5>2, <5>3 DEF Coming
          <5> QED BY <2>3, <3>4, <5>4 DEF Wanting
        <4>2. CASE item[x].text # 0
          <5>1. item[x].text > 0
            BY <2>2, <4>2, OfficeAssumption
          <5> QED BY <2>1, <2>3, <3>2, <3>4, <5>1 DEF Wanting
        <4> QED BY <4>1, <4>2
      <3> QED BY <3>3, <3>4
    <2>4. \A y \in L!Items : Doomed(y)' => Doomed(y)
      BY <2>1, DoomedSame
    <2>5. Lost' \subseteq Lost \cup {}
      BY <2>3, <2>4, LostItems
    <2> QED BY <2>1, <2>5 DEF LosesNothing
  <1>2. CASE L!WriteEnqueues
    <2>0. PICK x, k : x = edit /\ k = EditKey(edit)
      OBVIOUS
    <2>1. /\ cost' = cost /\ x \in L!Items /\ edit' = L!NoItem
          /\ OnlyFrom(rows, k)
          /\ rows[k].state = "absent" => rows'[k].state = "ready"
          /\ rows[k].state # "absent" => rows' = rows
          /\ UNCHANGED <<item, payloads, held, piece, raced>>
      BY <1>2, <2>0, WriteEnqueuesBase
    <2>2. x \in L!Items /\ k \in L!EmbedJobs /\ k \in L!Jobs /\ L!ItemOf(k) = x
      BY <2>0, <2>1, IdsAssumption, EditKeys
    <2>3. \A j \in L!EmbedJobs : L!ItemOf(j)' = L!ItemOf(j)
      BY <2>1 DEF L!ItemOf
    <2>4. \A i \in Imports : rows'[L!Import(i)] = rows[L!Import(i)] /\ L!At(i)' = L!At(i)
      <3>1. ASSUME NEW i \in Imports PROVE rows'[L!Import(i)] = rows[L!Import(i)]
        BY <2>1, <2>2, ImportKeys DEF OnlyFrom
      <3> QED BY <2>1, <3>1 DEF L!At
    <2>5. ASSUME NEW y \in L!Items, Coming(y) PROVE Coming(y)'
      <3>1. CASE edit = y /\ rows[EditKey(y)].state = "absent"
        <4>1. rows'[k].state = "ready" /\ L!ItemOf(k)' = y
          BY <2>0, <2>1, <2>2, <2>3, <3>1
        <4> QED BY <2>2, <4>1 DEF Coming
      <3>2. ASSUME NEW j \in L!EmbedJobs, L!ItemOf(j) = y,
                   rows[j].state = "ready" \/ rows[j].at \in {"read", "store"}
            PROVE  Coming(y)'
        <4>1. j \in L!Jobs
          BY KindsOfJobs
        <4>2. rows'[j].state = "ready" \/ rows'[j].at \in {"read", "store"}
          BY <2>1, <3>2, <4>1 DEF OnlyFrom
        <4> QED BY <2>3, <3>2, <4>2 DEF Coming
      <3>3. ASSUME NEW i \in Imports, rows[L!Import(i)].at = "enqueue", y = L!At(i),
                   payloads[<<i, piece[i]>>] = L!NoItem
            PROVE  Coming(y)'
        BY <2>1, <2>4, <3>3 DEF Coming
      <3> QED BY <2>5, <3>1, <3>2, <3>3 DEF Coming
    <2>6. \A y \in L!Items : (Wanting(y)' => Wanting(y)) /\ (Doomed(y)' => Doomed(y))
      BY <2>1, <2>4, <2>5, DoomedSame DEF Wanting
    <2>7. Lost' \subseteq Lost \cup {}
      BY <2>6, LostItems
    <2> QED BY <2>1, <2>7 DEF LosesNothing
  <1>3. CASE L!WriteSwallows
    <2>0. PICK x : x = edit
      OBVIOUS
    <2>1. /\ cost' = cost + 1 /\ edit' = L!NoItem
          /\ UNCHANGED <<rows, item, payloads, held, piece, raced>>
      BY <1>3, WriteSwallowsBase
    <2>2. ASSUME NEW y \in L!Items, y # x, Coming(y) PROVE Coming(y)'
      <3>1. \A j \in L!EmbedJobs : L!ItemOf(j)' = L!ItemOf(j)
        BY <2>1 DEF L!ItemOf
      <3>2. \A i \in Imports : L!At(i)' = L!At(i)
        BY <2>1 DEF L!At
      <3> QED BY <2>0, <2>1, <2>2, <3>1, <3>2 DEF Coming
    <2>3. \A y \in L!Items : (y # x /\ Wanting(y)' => Wanting(y)) /\ (Doomed(y)' => Doomed(y))
      BY <2>1, <2>2, DoomedSame DEF Wanting
    <2>4. Lost' \subseteq Lost \cup {x}
      BY <2>3, LostItems
    <2> QED BY <2>1, <2>4 DEF LosesOne
  <1> QED BY <1>1, <1>2, <1>3

\* An upload loses the piece it is at at the cost of a fault, if at all.
LEMMA UploadLoses ==
  ASSUME LibBase, NEW d \in Files, L!Upload(d) \/ L!UploadFails(d)
  PROVE  LosesNothing \/ LosesOne
  <1>1. PICK x : /\ UploadTurn(d, x) /\ piece[d] < Chunks
                 /\ \/ cost' = cost /\ rows'[L!Embed(x)].state = "ready"
                    \/ cost' = cost + 1
    <2>1. CASE L!Upload(d)
      <3>1. PICK x : UploadTurn(d, x) /\ (cost' = cost => rows'[L!Embed(x)].state = "ready")
        BY <2>1, UploadDoes
      <3>2. piece[d] < Chunks /\ (cost' # cost => cost' = cost + 1)
        BY <2>1, UploadDoes
      <3> QED BY <3>1, <3>2
    <2>2. CASE L!UploadFails(d)
      BY <2>2, UploadFailsDoes
    <2> QED BY <2>1, <2>2
  <1>2. PICK k : k = L!Embed(x)
    OBVIOUS
  <1>3. /\ x \in L!Items /\ x \notin Manual
        /\ k \in L!EmbedJobs /\ k \in L!Jobs
        /\ \A i \in Imports : \A n, p : x # <<i, n, p>>
        /\ L!ItemOf(k) = x
        /\ item[x].text = 0
    BY <1>1, <1>2, UploadAt, KindsOfJobs DEF UploadTurn
  <1>4. /\ \A j \in L!Jobs : j # k => rows'[j] = rows[j]
        /\ \A y \in L!Items : y # x => item'[y] = item[y]
        /\ payloads' = payloads /\ edit' = edit
        /\ \A i \in Imports : piece'[i] = piece[i]
    <2>1. \A i \in Imports : i # d
      BY IdsAssumption
    <2> QED BY <1>1, <1>2, <2>1 DEF UploadTurn, OnlyFrom, OnlyItem
  <1>5. \A j \in L!EmbedJobs : L!ItemOf(j)' = L!ItemOf(j) /\ j \in L!Jobs
    BY <1>4, KindsOfJobs DEF L!ItemOf
  <1>6. \A i \in Imports : rows'[L!Import(i)] = rows[L!Import(i)] /\ L!At(i)' = L!At(i)
    <2>1. ASSUME NEW i \in Imports PROVE rows'[L!Import(i)] = rows[L!Import(i)]
      BY <1>3, <1>4, ImportKeys
    <2> QED BY <1>4, <2>1 DEF L!At
  <1>7. ASSUME NEW y \in L!Items, y # x, Wanting(y)' PROVE Wanting(y)
    <2>1. ASSUME Coming(y) PROVE Coming(y)'
      <3>1. CASE edit = y /\ rows[EditKey(y)].state = "absent"
        <4>1. edit # L!NoItem
          BY <1>7, <3>1, IdsAssumption
        <4>2. EditKey(y) \in L!Jobs /\ EditKey(y) # k
          BY <1>3, <1>7, <3>1, <4>1, EditKeys
        <4>3. EditKey(y)' = EditKey(y) /\ edit' = y
          BY <1>4, <1>7, <3>1 DEF EditKey
        <4> QED BY <1>4, <3>1, <4>2, <4>3 DEF Coming
      <3>2. ASSUME NEW j \in L!EmbedJobs, L!ItemOf(j) = y,
                   rows[j].state = "ready" \/ rows[j].at \in {"read", "store"}
            PROVE  Coming(y)'
        BY <1>3, <1>4, <1>5, <1>7, <3>2 DEF Coming
      <3>3. ASSUME NEW i \in Imports, rows[L!Import(i)].at = "enqueue", y = L!At(i),
                   payloads[<<i, piece[i]>>] = L!NoItem
            PROVE  Coming(y)'
        BY <1>4, <1>6, <3>3 DEF Coming
      <3> QED BY <2>1, <3>1, <3>2, <3>3 DEF Coming
    <2> QED BY <1>4, <1>7, <2>1 DEF Wanting
  <1>8. \A y \in L!Items : Doomed(y)' => Doomed(y)
    BY <1>4, <1>6, DoomedSame
  <1>9. CASE cost' = cost + 1
    <2>1. Lost' \subseteq Lost \cup {x}
      BY <1>7, <1>8, LostItems
    <2> QED BY <1>9, <2>1 DEF LosesOne
  <1>10. CASE cost' = cost /\ rows'[k].state = "ready"
    <2>1. Coming(x)'
      BY <1>3, <1>5, <1>10 DEF Coming
    <2>2. ~Wanting(x)'
      BY <2>1 DEF Wanting
    <2>3. Lost' \subseteq Lost \cup {}
      BY <1>7, <1>8, <2>2, LostItems
    <2> QED BY <1>10, <2>3 DEF LosesNothing
  <1> QED BY <1>1, <1>2, <1>9, <1>10

\* What is embedded already, and the other imports, are left alone.
ImportMoves(i) ==
    /\ \A j \in L!EmbedJobs :
          L!ItemOf(j) \in L!Items => rows'[j] = rows[j] /\ L!ItemOf(j)' = L!ItemOf(j)
    /\ \A h \in Imports : h # i =>
          /\ rows'[L!Import(h)] = rows[L!Import(h)] /\ piece'[h] = piece[h]
          /\ \A p \in L!Pieces : payloads'[<<h, p>>] = payloads[<<h, p>>]
    /\ edit' = edit

\* Then only the piece that import i is at can come to miss its vector, ...
LEMMA ImportMissing ==
  ASSUME LibBase, NEW i \in Imports, ImportMoves(i), NEW x \in L!Items, item'[x] = item[x],
         rows[L!Import(i)].at = "enqueue" /\ payloads[<<i, piece[i]>>] = L!NoItem =>
            x # L!At(i),
         Wanting(x)'
  PROVE  Wanting(x)
  <1>1. ASSUME Coming(x) PROVE Coming(x)'
    <2>1. CASE edit = x /\ rows[EditKey(x)].state = "absent"
      <3>1. edit # L!NoItem
        BY <2>1, IdsAssumption
      <3>2. EditKey(x) \in L!EmbedJobs /\ L!ItemOf(EditKey(x)) = x
        BY <2>1, <3>1, EditKeys
      <3>3. EditKey(x)' = EditKey(x) /\ edit' = x
        BY <2>1 DEF EditKey, ImportMoves
      <3>4. rows'[EditKey(x)] = rows[EditKey(x)]
        BY <3>2 DEF ImportMoves
      <3> QED BY <2>1, <3>3, <3>4 DEF Coming
    <2>2. ASSUME NEW j \in L!EmbedJobs, L!ItemOf(j) = x,
                 rows[j].state = "ready" \/ rows[j].at \in {"read", "store"}
          PROVE  Coming(x)'
      BY <2>2 DEF Coming, ImportMoves
    <2>3. ASSUME NEW h \in Imports, rows[L!Import(h)].at = "enqueue", x = L!At(h),
                 payloads[<<h, piece[h]>>] = L!NoItem
          PROVE  Coming(x)'
      <3>1. h # i /\ piece[h] \in L!Pieces
        BY <2>3, ImportAt
      <3>2. /\ rows'[L!Import(h)] = rows[L!Import(h)] /\ piece'[h] = piece[h]
            /\ payloads'[<<h, piece[h]>>] = payloads[<<h, piece[h]>>]
        BY <3>1 DEF ImportMoves
      <3>3. L!At(h)' = L!At(h)
        BY <3>2 DEF L!At
      <3> QED BY <2>3, <3>2, <3>3 DEF Coming
    <2> QED BY <1>1, <2>1, <2>2, <2>3 DEF Coming
  <1> QED BY <1>1 DEF Wanting

\* ... and only its own pieces can come to be doomed.
DoomedBy(i, x) ==
    \E p \in L!Pieces :
        /\ rows[L!Import(i)].state \in {"ready", "running"}
        /\ x = <<i, AttemptOf(i), p>>
        /\ payloads[<<i, p>>] \notin {L!NoItem, x}

\* The step of import i dooms no other's pieces.
LEMMA ImportDoomed ==
  ASSUME NEW i \in Imports, ImportMoves(i), NEW x, Doomed(x)'
  PROVE  /\ Doomed(x) \/ DoomedBy(i, x)'
         /\ DoomedBy(i, x) => Doomed(x)
  <1>1. ASSUME NEW h \in Imports, h # i, NEW p \in L!Pieces,
               rows'[L!Import(h)].state \in {"ready", "running"},
               x = <<h, AttemptOf(h)', p>>, payloads'[<<h, p>>] \notin {L!NoItem, x}
        PROVE  Doomed(x)
    BY <1>1 DEF ImportMoves, Doomed, AttemptOf
  <1> QED BY <1>1 DEF Doomed, DoomedBy

\* A step on the row of the import alone is such a step.
LEMMA ImportRowMoves ==
  ASSUME LibBase, NEW i \in Imports, OnlyFrom(rows, L!Import(i)), payloads' = payloads,
         edit' = edit, \A e \in Imports \cup Files : e # i => piece'[e] = piece[e]
  PROVE  ImportMoves(i)
  <1>1. ASSUME NEW j \in L!EmbedJobs
        PROVE rows'[j] = rows[j] /\ L!ItemOf(j)' = L!ItemOf(j)
    <2>1. j \in L!Jobs /\ j # L!Import(i)
      BY KindsOfJobs, ImportKeys
    <2> QED BY <2>1 DEF OnlyFrom, L!ItemOf
  <1>2. ASSUME NEW h \in Imports, h # i PROVE rows'[L!Import(h)] = rows[L!Import(h)]
    BY <1>2, ImportKeys DEF OnlyFrom
  <1> QED BY <1>1, <1>2 DEF ImportMoves

\* A failure of an import may lose a piece for each of its places.
LosesMany == cost' = cost + 1 /\ \E f : Lost' \subseteq Lost \cup {f[p] : p \in L!Pieces}

\* An import is asked for, or begins.
LEMMA ImportBegins ==
  ASSUME LibBase, NEW i \in Imports, L!Ingest(i) \/ L!StartImport(i)
  PROVE  LosesNothing
  <1>1. /\ cost' = cost /\ OnlyFrom(rows, L!Import(i))
        /\ rows[L!Import(i)].at = "idle"
        /\ item' = item /\ payloads' = payloads /\ edit' = edit
        /\ \A e \in Imports \cup Files : e # i => piece'[e] = piece[e]
    BY IngestBase, StartImportBase
  <1>2. ImportMoves(i)
    BY <1>1, ImportRowMoves
  <1>3. \A x \in L!Items : Wanting(x)' => Wanting(x)
    BY <1>1, <1>2, ImportMissing
  <1>4. ASSUME NEW x \in L!Items, DoomedBy(i, x)' PROVE DoomedBy(i, x)
    <2>1. CASE L!Ingest(i)
      <3>1. \A p \in L!Pieces : payloads[<<i, p>>] = L!NoItem
        BY <2>1, IngestBase DEF LibBase, ImportSound
      <3> QED BY <1>1, <1>4, <3>1 DEF DoomedBy
    <2>2. CASE L!StartImport(i)
      <3>1. /\ rows[L!Import(i)].state = "ready" /\ rows[L!Import(i)].at = "idle"
            /\ rows'[L!Import(i)].at = "insert"
            /\ rows'[L!Import(i)].attempts = rows[L!Import(i)].attempts + 1
        BY <2>2, StartImportBase
      <3>2. AttemptOf(i)' = AttemptOf(i)
        BY <3>1 DEF AttemptOf
      <3> QED BY <1>1, <1>4, <3>1, <3>2 DEF DoomedBy
    <2> QED BY <2>1, <2>2
  <1>5. \A x \in L!Items : Doomed(x)' => Doomed(x)
    BY <1>2, <1>4, ImportDoomed
  <1>6. Lost' \subseteq Lost \cup {}
    BY <1>3, <1>5, LostItems
  <1> QED BY <1>1, <1>6 DEF LosesNothing

\* When an execution of an import fails, for each place either the piece that it stored there,
\* or the one that the next execution will store, can be lost.
LEMMA ImportFallLoses ==
  ASSUME LibBase, NEW i \in Imports, ImportMoves(i), NEW a, a = rows[L!Import(i)].attempts,
         rows'[L!Import(i)].at = "idle", rows'[L!Import(i)].attempts = a, cost' = cost + 1,
         NEW p \in L!Pieces, NEW z, z = <<i, a, p>>,
         \A x \in L!Items : x # z /\ Wanting(x)' => Wanting(x),
         Wanting(z)' => payloads'[<<i, p>>] = L!NoItem \/ Wanting(z) \/ Doomed(z)
  PROVE  LosesMany
  <1> DEFINE f == [m \in L!Pieces |->
                     IF payloads'[<<i, m>>] = L!NoItem THEN <<i, a, m>> ELSE <<i, a + 1, m>>]
  <1>1. ASSUME NEW x \in L!Items, Wanting(x)'
        PROVE  Wanting(x) \/ Doomed(x) \/ x \in {f[m] : m \in L!Pieces}
    <2>1. CASE x # z
      BY <1>1, <2>1
    <2>2. CASE x = z /\ payloads'[<<i, p>>] = L!NoItem
      <3>1. f[p] = x
        BY <2>2
      <3> QED BY <3>1
    <2> QED BY <1>1, <2>1, <2>2
  <1>2. ASSUME NEW x \in L!Items, Doomed(x)'
        PROVE  Doomed(x) \/ x \in {f[m] : m \in L!Pieces}
    <2>1. CASE Doomed(x)
      BY <2>1
    <2>2. CASE DoomedBy(i, x)'
      <3>1. AttemptOf(i)' = a + 1
        BY DEF AttemptOf
      <3>2. PICK m \in L!Pieces : x = <<i, a + 1, m>> /\ payloads'[<<i, m>>] # L!NoItem
        BY <2>2, <3>1 DEF DoomedBy
      <3>3. f[m] = x
        BY <3>2
      <3> QED BY <3>3
    <2> QED BY <1>2, <2>1, <2>2, ImportDoomed
  <1> HIDE DEF f
  <1>3. PICK X : X = {f[m] : m \in L!Pieces}
    OBVIOUS
  <1>4. Lost' \subseteq Lost \cup X
    BY <1>1, <1>2, <1>3, LostItems
  <1> QED BY <1>3, <1>4 DEF LosesMany

\* A step of an import under way.
LEMMA ImportStepLoses ==
  ASSUME LibBase, NEW i \in Imports,
         \/ L!NotShared(i) \/ L!Ends(L!Import(i)) \/ L!InsertPiece(i) \/ L!EnqueueEmbed(i)
         \/ L!EnqueueEmbedSwallows(i)
  PROVE  LosesNothing \/ LosesOne \/ LosesMany
  <1>0. PICK z, a, p, l, k : /\ z = L!At(i) /\ a = rows[L!Import(i)].attempts /\ p = piece[i]
                             /\ l = L!Import(i) /\ k = L!Embed(<<i, p>>)
    OBVIOUS
  <1>1. cost \in 0 .. MaxCost
    BY DEF LibBase, LibTypes
  <1>2. CASE L!NotShared(i) \/ L!Ends(L!Import(i))
    <2>1. /\ OnlyFrom(rows, l)
          /\ rows[l].at # "idle" /\ rows'[l].at = "idle" /\ rows'[l].attempts = a
          /\ \/ /\ cost' = cost /\ rows[l].at # "enqueue"
                /\ rows'[l].state \in {"done", "dead"}
             \/ cost' = cost + 1
          /\ item' = item /\ payloads' = payloads /\ piece' = piece /\ edit' = edit
      BY <1>0, <1>2, ImportEndsBase
    <2>2. ImportMoves(i)
      BY <1>0, <2>1, ImportRowMoves
    <2>3. CASE cost' = cost /\ rows[l].at # "enqueue" /\ rows'[l].state \in {"done", "dead"}
      <3>1. \A x \in L!Items : Wanting(x)' => Wanting(x)
        BY <1>0, <2>1, <2>2, <2>3, ImportMissing
      <3>2. \A x : ~DoomedBy(i, x)'
        BY <1>0, <2>3 DEF DoomedBy
      <3>3. \A x \in L!Items : Doomed(x)' => Doomed(x)
        BY <2>2, <3>2, ImportDoomed
      <3>4. Lost' \subseteq Lost \cup {}
        BY <3>1, <3>3, LostItems
      <3> QED BY <2>3, <3>4 DEF LosesNothing
    <2>4. CASE cost' = cost + 1
      <3>1. CASE rows[l].at = "enqueue"
        <4>1. \A x \in L!Items : x # z /\ Wanting(x)' => Wanting(x)
          BY <1>0, <2>1, <2>2, ImportMissing
        <4>2. z = <<i, a, p>> /\ p \in L!Pieces /\ z \in L!Items
          BY <1>0, <3>1, ImportAt DEF L!At
        <4>3. Wanting(z)' => payloads'[<<i, p>>] = L!NoItem \/ Wanting(z) \/ Doomed(z)
          <5>1. payloads'[<<i, p>>] # L!NoItem /\ Wanting(z)' => Wanting(z)
            BY <1>0, <2>1, <2>2, <4>2, ImportMissing
          <5> QED BY <5>1
        <4> QED BY <1>0, <2>1, <2>2, <2>4, <4>1, <4>2, <4>3, ImportFallLoses
      <3>2. CASE rows[l].at # "enqueue"
        <4>1. \A x \in L!Items : Wanting(x)' => Wanting(x)
          BY <1>0, <2>1, <2>2, <3>2, ImportMissing
        <4>2. PICK m : m = 1
          OBVIOUS
        <4>3. m \in L!Pieces
          BY <4>2, OfficeAssumption DEF L!Pieces
        <4>4. PICK y : y = <<i, a, m>>
          OBVIOUS
        <4>5. y \in L!Items
          <5>1. a \in 1 .. MaxAttempts
            BY <1>0, <2>1, ImportAt, ExecutionAssumption DEF LibRow, Sound
          <5> QED BY <4>3, <4>4, <5>1, ImportKeys
        <4> QED BY <1>0, <2>1, <2>2, <2>4, <4>1, <4>3, <4>4, <4>5, ImportFallLoses
      <3> QED BY <3>1, <3>2
    <2> QED BY <2>1, <2>3, <2>4
  <1>3. CASE L!InsertPiece(i)
    <2>1. /\ OnlyFrom(rows, l) /\ rows[l].at = "insert"
          /\ rows'[l].attempts = a
          /\ \/ /\ cost' = cost /\ rows'[l].at = "enqueue"
                /\ rows'[l].state = rows[l].state
             \/ cost' = cost + 1 /\ rows'[l].at = "idle"
          /\ OnlyItem(z) /\ item[z].text = 0 /\ item'[z].text = 1
          /\ payloads[<<i, p>>] # z
          /\ payloads' = payloads /\ piece' = piece /\ edit' = edit
      BY <1>0, <1>3, InsertPieceBase
    <2>2. ImportMoves(i)
      BY <1>0, <2>1, ImportRowMoves
    <2>3. /\ z = <<i, a, p>> /\ p \in L!Pieces /\ z \in L!Items
          /\ rows[l].state = "running"
      BY <1>0, <2>1, ImportAt DEF L!At, LibRow, Sound
    <2>4. \A x \in L!Items : x # z /\ Wanting(x)' => Wanting(x)
      <3>1. ASSUME NEW x \in L!Items, x # z, Wanting(x)' PROVE Wanting(x)
        <4>1. item'[x] = item[x]
          BY <2>1, <3>1 DEF OnlyItem
        <4> QED BY <1>0, <2>1, <2>2, <3>1, <4>1, ImportMissing
      <3> QED BY <3>1
    <2>5. payloads[<<i, p>>] # L!NoItem => Doomed(z)
      <3>1. AttemptOf(i) = a
        BY <1>0, <2>1 DEF AttemptOf
      <3> QED BY <1>0, <2>1, <2>3, <3>1 DEF Doomed
    <2>6. CASE cost' = cost /\ rows'[l].at = "enqueue" /\ rows'[l].state = rows[l].state
      <3>1. L!At(i)' = z
        BY <1>0, <2>1, <2>3 DEF L!At
      <3>2. payloads[<<i, p>>] = L!NoItem => Coming(z)'
        BY <1>0, <2>1, <2>6, <3>1 DEF Coming
      <3>3. Wanting(z)' => Doomed(z)
        BY <2>5, <3>2 DEF Wanting
      <3>4. AttemptOf(i)' = AttemptOf(i)
        BY <1>0, <2>1, <2>6 DEF AttemptOf
      <3>5. \A x : DoomedBy(i, x)' => DoomedBy(i, x)
        BY <1>0, <2>1, <2>6, <3>4 DEF DoomedBy
      <3>6. \A x \in L!Items : Doomed(x)' => Doomed(x)
        BY <2>2, <3>5, ImportDoomed
      <3>7. Lost' \subseteq Lost \cup {}
        BY <2>4, <3>3, <3>6, LostItems
      <3> QED BY <2>6, <3>7 DEF LosesNothing
    <2>7. CASE cost' = cost + 1 /\ rows'[l].at = "idle"
      <3>1. Wanting(z)' => payloads'[<<i, p>>] = L!NoItem \/ Wanting(z) \/ Doomed(z)
        BY <2>1, <2>5
      <3> QED BY <1>0, <2>1, <2>2, <2>3, <2>4, <2>7, <3>1, ImportFallLoses
    <2> QED BY <2>1, <2>6, <2>7
  <1>4. CASE L!EnqueueEmbed(i)
    <2>1. /\ \A j \in L!Jobs : j \notin {l, k} => rows'[j] = rows[j]
          /\ rows[l].at = "enqueue" /\ rows'[l].attempts = a
          /\ \/ /\ cost' = cost /\ rows'[l].at \in {"insert", "report"}
                /\ rows'[l].state = rows[l].state
             \/ cost' = cost + 1 /\ rows'[l].at = "idle"
          /\ payloads[<<i, p>>] = L!NoItem =>
                /\ payloads' = [payloads EXCEPT ![<<i, p>>] = z]
                /\ rows'[k].state = "ready"
          /\ payloads[<<i, p>>] # L!NoItem => payloads' = payloads /\ rows'[k] = rows[k]
          /\ \A e \in Imports \cup Files : e # i => piece'[e] = piece[e]
          /\ item' = item /\ edit' = edit
      BY <1>0, <1>4, EnqueueEmbedBase
    <2>2. /\ z = <<i, a, p>> /\ p \in L!Pieces /\ z \in L!Items
          /\ rows[l].state = "running"
      BY <1>0, <2>1, ImportAt DEF L!At, LibRow, Sound
    <2>3. /\ k \in L!EmbedJobs /\ k \in L!Jobs /\ L!ItemOf(k) = payloads[<<i, p>>]
          /\ payloads \in [Imports \X L!Pieces -> L!Items \cup {L!NoItem}]
      BY <1>0, <2>2, ImportKeys, KindsOfJobs DEF LibBase, LibTypes
    <2>4. ImportMoves(i)
      <3>1. ASSUME NEW j \in L!EmbedJobs, L!ItemOf(j) \in L!Items
            PROVE rows'[j] = rows[j] /\ L!ItemOf(j)' = L!ItemOf(j)
        <4>1. j \in L!Jobs /\ j # l
          BY <1>0, KindsOfJobs, ImportKeys
        <4>2. CASE j = k
          <5>1. payloads[<<i, p>>] # L!NoItem
            BY <2>3, <3>1, <4>2, IdsAssumption
          <5> QED BY <2>1, <4>2, <5>1 DEF L!ItemOf
        <4>3. CASE j # k
          <5>1. rows'[j] = rows[j]
            BY <2>1, <4>1, <4>3
          <5>2. \A r \in Imports \X L!Pieces : r # <<i, p>> => payloads'[r] = payloads[r]
            BY <2>1, <2>3
          <5>3. L!ItemOf(j)' = L!ItemOf(j)
            BY <1>0, <4>3, <5>2 DEF L!ItemOf, L!Embed, L!EmbedJobs
          <5> QED BY <5>1, <5>3
        <4> QED BY <4>2, <4>3
      <3>2. ASSUME NEW h \in Imports, h # i PROVE rows'[L!Import(h)] = rows[L!Import(h)]
        <4>1. L!Import(h) \in L!Jobs /\ L!Import(h) # l /\ L!Import(h) # k
          BY <1>0, <2>3, <3>2, ImportKeys
        <4> QED BY <2>1, <4>1
      <3>3. ASSUME NEW h \in Imports, h # i, NEW m \in L!Pieces
            PROVE payloads'[<<h, m>>] = payloads[<<h, m>>]
        BY <2>1, <2>3, <3>3
      <3> QED BY <2>1, <3>1, <3>2, <3>3 DEF ImportMoves
    <2>5. \A x \in L!Items : x # z /\ Wanting(x)' => Wanting(x)
      BY <1>0, <2>1, <2>4, ImportMissing
    <2>6. Wanting(z)' => Wanting(z)
      <3>1. CASE payloads[<<i, p>>] = L!NoItem
        <4>1. L!ItemOf(k)' = z /\ rows'[k].state = "ready"
          BY <1>0, <2>1, <2>2, <2>3, <3>1 DEF L!ItemOf, L!Embed
        <4>2. Coming(z)'
          BY <2>3, <4>1 DEF Coming
        <4> QED BY <4>2 DEF Wanting
      <3>2. CASE payloads[<<i, p>>] # L!NoItem
        BY <1>0, <2>1, <2>2, <2>4, <3>2, ImportMissing
      <3> QED BY <3>1, <3>2
    <2>7. CASE cost' = cost /\ rows'[l].at \in {"insert", "report"}
               /\ rows'[l].state = rows[l].state
      <3>1. AttemptOf(i)' = a /\ AttemptOf(i) = a
        BY <1>0, <2>1, <2>7 DEF AttemptOf
      <3>2. ASSUME NEW x, DoomedBy(i, x)' PROVE DoomedBy(i, x)
        <4>1. PICK m \in L!Pieces : /\ rows'[l].state \in {"ready", "running"}
                                    /\ x = <<i, a, m>>
                                    /\ payloads'[<<i, m>>] \notin {L!NoItem, x}
          BY <1>0, <3>1, <3>2 DEF DoomedBy
        <4>2. payloads'[<<i, m>>] = payloads[<<i, m>>]
          <5>1. CASE payloads[<<i, p>>] = L!NoItem
            <6>1. m # p
              BY <2>1, <2>2, <2>3, <4>1, <5>1
            <6> QED BY <2>1, <2>3, <5>1, <6>1
          <5>2. CASE payloads[<<i, p>>] # L!NoItem
            BY <2>1, <5>2
          <5> QED BY <5>1, <5>2
        <4> QED BY <1>0, <2>7, <3>1, <4>1, <4>2 DEF DoomedBy
      <3>3. \A x \in L!Items : Doomed(x)' => Doomed(x)
        BY <2>4, <3>2, ImportDoomed
      <3>4. Lost' \subseteq Lost \cup {}
        BY <2>5, <2>6, <3>3, LostItems
      <3> QED BY <2>7, <3>4 DEF LosesNothing
    <2>8. CASE cost' = cost + 1 /\ rows'[l].at = "idle"
      <3>1. Wanting(z)' => payloads'[<<i, p>>] = L!NoItem \/ Wanting(z) \/ Doomed(z)
        BY <2>6
      <3> QED BY <1>0, <2>1, <2>2, <2>4, <2>5, <2>8, <3>1, ImportFallLoses
    <2> QED BY <2>1, <2>7, <2>8
  <1>5. CASE L!EnqueueEmbedSwallows(i)
    <2>1. /\ cost' = cost + 1
          /\ OnlyFrom(rows, l) /\ rows[l].at = "enqueue"
          /\ rows'[l].attempts = a /\ rows'[l].state = rows[l].state
          /\ rows'[l].at \in {"insert", "report"}
          /\ \A e \in Imports \cup Files : e # i => piece'[e] = piece[e]
          /\ item' = item /\ payloads' = payloads /\ edit' = edit
      BY <1>0, <1>5, EnqueueEmbedSwallowsBase
    <2>2. ImportMoves(i)
      BY <1>0, <2>1, ImportRowMoves
    <2>3. \A x \in L!Items : x # z /\ Wanting(x)' => Wanting(x)
      BY <1>0, <2>1, <2>2, ImportMissing
    <2>4. AttemptOf(i)' = AttemptOf(i)
      BY <1>0, <2>1 DEF AttemptOf
    <2>5. \A x : DoomedBy(i, x)' => DoomedBy(i, x)
      BY <1>0, <2>1, <2>4 DEF DoomedBy
    <2>6. \A x \in L!Items : Doomed(x)' => Doomed(x)
      BY <2>2, <2>5, ImportDoomed
    <2>7. Lost' \subseteq Lost \cup {z}
      BY <2>3, <2>6, LostItems
    <2> QED BY <2>1, <2>7 DEF LosesOne
  <1> QED BY <1>2, <1>3, <1>4, <1>5

\* What is paid for by a fault is a piece for each place.
LEMMA PiecesPaidFor ==
  ASSUME NEW P, NEW T, NEW m \in Nat, NEW f,
         IsFiniteSet(P), Cardinality(P) <= Chunks * m,
         T \subseteq P \cup {f[p] : p \in L!Pieces}
  PROVE  IsFiniteSet(T) /\ Cardinality(T) <= Chunks * (m + 1)
  <1> DEFINE X == {f[p] : p \in L!Pieces}
             g == [p \in L!Pieces |-> f[p]]
  <1>1. IsFiniteSet(L!Pieces) /\ Cardinality(L!Pieces) = Chunks
    <2>1. Chunks \in Int /\ 1 \in Int /\ ~(1 > Chunks) /\ Chunks - 1 + 1 = Chunks
      BY OfficeAssumption
    <2>2. IsFiniteSet(1 .. Chunks) /\ Cardinality(1 .. Chunks) = Chunks
      BY <2>1, FS_Interval
    <2> QED BY <2>2 DEF L!Pieces
  <1>2. g \in Surjection(L!Pieces, X)
    BY DEF Surjection
  <1>3. IsFiniteSet(X) /\ Cardinality(X) <= Chunks
    BY <1>1, <1>2, FS_Surjection
  <1> HIDE DEF X, g
  <1>4. /\ IsFiniteSet(P \cup X)
        /\ Cardinality(P \cup X) = Cardinality(P) + Cardinality(X) - Cardinality(P \cap X)
        /\ Cardinality(P \cap X) \in Nat /\ Cardinality(P) \in Nat /\ Cardinality(X) \in Nat
    BY <1>3, FS_Union, FS_Intersection, FS_CardinalityType
  <1>5. T \subseteq P \cup X
    BY DEF X
  <1>6. IsFiniteSet(T) /\ Cardinality(T) <= Cardinality(P \cup X) /\ Cardinality(T) \in Nat
    BY <1>4, <1>5, FS_Subset, FS_CardinalityType
  <1>7. PICK c \in Nat, u \in Nat : c = Chunks /\ u = Chunks * m
    BY OfficeAssumption
  <1>8. Chunks * (m + 1) = u + c
    BY <1>7
  <1>9. Cardinality(P) <= u /\ Cardinality(X) <= c
    BY <1>3, <1>7
  <1> QED BY <1>4, <1>6, <1>8, <1>9

\* A step of the library loses nothing, or what a fault has paid for.
LEMMA LibStepLoses ==
  ASSUME LibBase, L!Next
  PROVE  LosesNothing \/ LosesOne \/ LosesMany
  <1>1. CASE (\E x \in L!Items : L!Write(x)) \/ L!WriteEnqueues \/ L!WriteSwallows
    BY <1>1, WrittenLoses
  <1>2. ASSUME NEW d \in Files, L!Upload(d) \/ L!UploadFails(d)
        PROVE  LosesNothing \/ LosesOne
    BY <1>2, UploadLoses
  <1>3. ASSUME NEW k \in L!EmbedJobs,
               L!StartEmbed(k) \/ L!ReadText(k) \/ L!StoreVector(k) \/ L!Ends(k)
        PROVE  LosesNothing \/ LosesOne
    BY <1>3, EmbedsLose
  <1>4. ASSUME NEW i \in Imports, L!Ingest(i) \/ L!StartImport(i)
        PROVE  LosesNothing
    BY <1>4, ImportBegins
  <1>5. ASSUME NEW i \in Imports,
               \/ L!NotShared(i) \/ L!Ends(L!Import(i)) \/ L!InsertPiece(i) \/ L!EnqueueEmbed(i)
               \/ L!EnqueueEmbedSwallows(i)
        PROVE  LosesNothing \/ LosesOne \/ LosesMany
    BY <1>5, ImportStepLoses
  <1>6. ASSUME NEW k \in L!Jobs, L!Ends(k) PROVE LosesNothing \/ LosesOne \/ LosesMany
    BY <1>3, <1>5, <1>6, KindsOfJobs
  <1> QED BY <1>1, <1>2, <1>3, <1>4, <1>5, <1>6 DEF L!Next

\* A step of the library keeps what is known.
LEMMA LibStepBase ==
  ASSUME LibBase, L!Next
  PROVE  LibBase'
  <1>1. ASSUME NEW x \in L!Items, L!Write(x) PROVE LibBase'
    BY <1>1, WriteBase
  <1>2. CASE L!WriteEnqueues \/ L!WriteSwallows
    BY <1>2, WriteEnqueuesBase, WriteSwallowsBase
  <1>3. ASSUME NEW d \in Files, L!Upload(d) \/ L!UploadFails(d) PROVE LibBase'
    BY <1>3, UploadDoes, UploadFailsDoes, UploadTurnBase
  <1>4. ASSUME NEW k \in L!EmbedJobs,
               L!StartEmbed(k) \/ L!ReadText(k) \/ L!StoreVector(k) \/ L!Ends(k)
        PROVE  LibBase'
    BY <1>4, StartEmbedTurn, ReadTextTurn, StoreVectorTurn, EmbedEndsTurn, EmbedTurnBase
  <1>5. ASSUME NEW i \in Imports,
               \/ L!Ingest(i) \/ L!StartImport(i) \/ L!NotShared(i) \/ L!Ends(L!Import(i))
               \/ L!InsertPiece(i) \/ L!EnqueueEmbed(i) \/ L!EnqueueEmbedSwallows(i)
        PROVE  LibBase'
    BY <1>5, IngestBase, StartImportBase, ImportEndsBase, InsertPieceBase, EnqueueEmbedBase,
       EnqueueEmbedSwallowsBase
  <1>6. ASSUME NEW k \in L!Jobs, L!Ends(k) PROVE LibBase'
    BY <1>4, <1>5, <1>6, KindsOfJobs
  <1> QED BY <1>1, <1>2, <1>3, <1>4, <1>5, <1>6 DEF L!Next

\* Together.
LEMMA LostStep ==
  ASSUME LibBase, LostPaid, L!Next
  PROVE  LostPaid'
  <1>1. cost \in Nat /\ Chunks \in Nat
    BY OfficeAssumption DEF LibBase, LibTypes
  <1>2. CASE LosesNothing
    <2>1. cost' = cost /\ Lost' \subseteq Lost
      BY <1>2 DEF LosesNothing
    <2>2. IsFiniteSet(Lost') /\ Cardinality(Lost') <= Cardinality(Lost)
          /\ Cardinality(Lost') \in Nat /\ Cardinality(Lost) \in Nat
      BY <2>1, FS_Subset, FS_CardinalityType DEF LostPaid
    <2>3. PICK n \in Nat : n = Chunks * cost
      BY <1>1
    <2>4. Cardinality(Lost') <= n
      BY <2>2, <2>3 DEF LostPaid
    <2> QED BY <2>1, <2>2, <2>3, <2>4 DEF LostPaid
  <1>3. ASSUME cost' = cost + 1, NEW f, Lost' \subseteq Lost \cup {f[p] : p \in L!Pieces}
        PROVE  LostPaid'
    <2>1. PICK T : T = Lost'
      OBVIOUS
    <2>2. IsFiniteSet(T) /\ Cardinality(T) <= Chunks * (cost + 1)
      BY <1>1, <1>3, <2>1, PiecesPaidFor DEF LostPaid
    <2> QED BY <1>3, <2>1, <2>2 DEF LostPaid
  <1>4. CASE LosesMany
    BY <1>3, <1>4 DEF LosesMany
  <1>5. CASE LosesOne
    <2>1. PICK x : Lost' \subseteq Lost \cup {x}
      BY <1>5 DEF LosesOne
    <2>2. 1 \in L!Pieces
      BY OfficeAssumption DEF L!Pieces
    <2>3. PICK f : f = [p \in L!Pieces |-> x]
      OBVIOUS
    <2>4. x \in {f[p] : p \in L!Pieces}
      BY <2>2, <2>3
    <2>5. Lost' \subseteq Lost \cup {f[p] : p \in L!Pieces}
      BY <2>1, <2>4
    <2> QED BY <1>3, <1>5, <2>5 DEF LosesOne
  <1> QED BY <1>2, <1>4, <1>5, LibStepLoses

\* An item that is bare is lost.
LEMMA BareLost ==
  ASSUME LibBase
  PROVE  L!Bare \subseteq Lost
  <1>1. ASSUME NEW x \in L!Items, Coming(x) PROVE L!Pending(x)
    <2>1. CASE edit = x
      BY <2>1 DEF L!Pending
    <2>2. ASSUME NEW k \in L!EmbedJobs, L!ItemOf(k) = x,
                 rows[k].state = "ready" \/ rows[k].at \in {"read", "store"}
          PROVE  L!Pending(x)
      <3>1. rows[k].state \in {"ready", "running"}
        BY <2>2, EmbedAt
      <3> QED BY <2>2, <3>1 DEF L!Pending, L!Embedding
    <2>3. ASSUME NEW i \in Imports, rows[L!Import(i)].at = "enqueue", x = L!At(i)
          PROVE  L!Pending(x)
      BY <2>3 DEF L!Pending
    <2> QED BY <1>1, <2>1, <2>2, <2>3 DEF Coming
  <1> QED BY <1>1 DEF L!Bare, Lost, Wanting

\* The keys of the imports' embeddings are of imported items.
ImportedOnly == \A i \in Imports, p \in L!Pieces : payloads[<<i, p>>] \notin Manual

\* What is said of the edits of x depends on this.
EditSame(x) ==
    /\ item'[x] = item[x]
    /\ \A k \in {L!Embed(x), L!ReEmbed(x)} : rows'[k] = rows[k] /\ held'[k] = held[k]
    /\ edit' = x <=> edit = x

\* What is the same stays sound.
LEMMA EditKept ==
  ASSUME NEW x, EditSound(x), EditSame(x)
  PROVE  EditSound(x)'
  <1>1. PICK e, r : e = L!Embed(x) /\ r = L!ReEmbed(x)
    OBVIOUS
  <1>2. rows'[e] = rows[e] /\ rows'[r] = rows[r] /\ held'[e] = held[e] /\ held'[r] = held[r]
    BY <1>1 DEF EditSame
  <1> QED BY <1>1, <1>2 DEF EditSame, EditSound

\* The embedding of an edit makes the vector of it, if no call fails.
LEMMA EditEmbeds ==
  ASSUME LibBase, ImportedOnly, NEW x \in Manual, EditSound(x), NEW k \in L!EmbedJobs,
         L!StartEmbed(k) \/ L!ReadText(k) \/ L!StoreVector(k) \/ L!Ends(k), cost' = cost
  PROVE  EditSound(x)'
  <1>0. PICK e, r : e = L!Embed(x) /\ r = L!ReEmbed(x)
    OBVIOUS
  <1>1. /\ EmbedTurn(k) /\ rows[k].state # "absent" /\ cost' # cost + 1
    <2>1. cost' # cost + 1
      BY DEF LibBase, LibTypes
    <2>2. EmbedTurn(k)
      BY StartEmbedTurn, ReadTextTurn, StoreVectorTurn, EmbedEndsTurn
    <2> QED BY <2>1, <2>2 DEF EmbedTurn
  <1>2. /\ x \in L!Items /\ e \in L!EmbedJobs /\ r \in L!EmbedJobs /\ e # r
        /\ e \in L!Jobs /\ r \in L!Jobs
        /\ L!ItemOf(e) = x /\ L!ItemOf(r) = x
    BY <1>0, ManualKeys, KindsOfJobs
  <1>3. /\ \A j \in {e, r} : j # k => rows'[j] = rows[j] /\ held'[j] = held[j]
        /\ item'[x].text = item[x].text /\ edit' = edit
        /\ x # L!ItemOf(k) => item'[x].vector = item[x].vector
    BY <1>1, <1>2 DEF EmbedTurn, OnlyFrom
  <1>4. CASE k \notin {e, r}
    <2>1. L!ItemOf(k) # x
      <3>1. CASE \E i \in Imports, p \in L!Pieces : k = L!Embed(<<i, p>>)
        BY <3>1, ImportKeys DEF ImportedOnly
      <3>2. CASE \E y \in Manual : k = L!Embed(y)
        BY <1>0, <1>4, <3>2, ManualKeys
      <3>4. CASE \E y \in L!Items : k = L!ReEmbed(y)
        BY <1>0, <1>4, <3>4, ReEmbedKeys
      <3>3. CASE \E d \in Files, p \in L!Pieces : k = L!Embed(<<d, 1, p>>)
        BY <3>3, UploadKeys
      <3> QED BY <3>1, <3>2, <3>3, <3>4, KindsOfJobs
    <2>2. item'[x] = item[x]
      <3>1. item \in [L!Items -> [text : 0 .. MaxEdits + 1, vector : 0 .. MaxEdits + 1]]
            /\ item' \in [L!Items -> [text : 0 .. MaxEdits + 1, vector : 0 .. MaxEdits + 1]]
        BY <1>1 DEF LibBase, LibTypes, EmbedTurn
      <3> QED BY <1>2, <1>3, <2>1, <3>1
    <2> QED BY <1>0, <1>3, <1>4, <2>2, EditKept DEF EditSame
  <1>5. CASE k \in {e, r}
    <2>0. L!ItemOf(k) = x
      BY <1>2, <1>5
    <2>1. \/ rows[k].state = "ready" /\ rows'[k].state = "running" /\ rows'[k].at = "read"
             /\ item'[x].vector = item[x].vector
          \/ rows[k].state = "running" /\ rows'[k].state = "running" /\ rows'[k].at = "store"
             /\ held'[k] = item[x].text /\ item'[x].vector = item[x].vector
          \/ rows[k].state = "running" /\ rows'[k].state = "running" /\ rows'[k].at = "report"
             /\ rows[k].at = "store" /\ item'[x].vector = held[k]
          \/ rows[k].state = "running" /\ rows[k].at = "report" /\ rows'[k].at = "idle"
             /\ rows'[k].state = "done" /\ item'[x].vector = item[x].vector
      <3>1. rows'[k].at # "idle" => rows'[k].state = "running"
        BY <1>1 DEF EmbedTurn, Sound
      <3>2. rows[k].at # "idle" => rows[k].state = "running"
        BY EmbedAt
      <3>3. CASE L!StartEmbed(k)
        BY <3>1, <3>3, StartEmbedTurn DEF L!StartEmbed
      <3>4. CASE L!ReadText(k)
        <4>1. rows[k].at = "read" /\ UNCHANGED item
          BY <3>4 DEF L!ReadText
        <4> QED BY <1>1, <2>0, <3>1, <3>2, <3>4, <4>1, ReadTextTurn
      <3>5. CASE L!StoreVector(k)
        BY <1>1, <2>0, <3>1, <3>2, <3>5, StoreVectorTurn
      <3>6. CASE L!Ends(k)
        BY <1>1, <2>0, <3>2, <3>6, EmbedEndsTurn
      <3> QED BY <3>3, <3>4, <3>5, <3>6
    <2>2. CASE k = e
      <3>1. rows'[r] = rows[r] /\ held'[r] = held[r]
        BY <1>2, <1>3, <2>2
      <3>2. CASE item[x].text = 1
        <4>1. /\ rows[r].state = "absent" /\ rows[e].state # "dead"
              /\ edit = x <=> rows[e].state = "absent"
              /\ rows[e].at = "store" => held[e] = 1
              /\ rows[e].state = "done" \/ rows[e].at = "report" => item[x].vector = 1
          BY <1>0, <3>2 DEF EditSound
        <4>2. rows'[e].state \in {"running", "done"}
          BY <2>1, <2>2
        <4>3. edit' # x
          BY <1>1, <1>3, <2>2, <4>1
        <4>4. rows'[e].at = "store" => held'[e] = 1
          BY <2>1, <2>2, <3>2
        <4>5. rows'[e].state = "done" \/ rows'[e].at = "report" => item'[x].vector = 1
          BY <2>1, <2>2, <4>1
        <4> QED BY <1>0, <1>3, <3>1, <3>2, <4>1, <4>2, <4>3, <4>4, <4>5 DEF EditSound
      <3>3. CASE item[x].text # 1
        <4>1. item[x].text # 2
          BY <1>0, <2>1, <2>2 DEF EditSound
        <4> QED BY <1>3, <3>3, <4>1 DEF EditSound
      <3> QED BY <3>2, <3>3
    <2>3. CASE k = r
      <3>1. rows'[e] = rows[e] /\ held'[e] = held[e]
        BY <1>2, <1>3, <2>3
      <3>2. CASE item[x].text = 2
        <4>1. /\ rows[e].state = "done" /\ rows[r].state # "dead"
              /\ edit = x <=> rows[r].state = "absent"
              /\ rows[r].at = "store" => held[r] = 2
              /\ rows[r].state = "done" \/ rows[r].at = "report" => item[x].vector = 2
          BY <1>0, <3>2 DEF EditSound
        <4>2. rows'[r].state \in {"running", "done"}
          BY <2>1, <2>3
        <4>3. edit' # x
          BY <1>1, <1>3, <2>3, <4>1
        <4>4. rows'[r].at = "store" => held'[r] = 2
          BY <2>1, <2>3, <3>2
        <4>5. rows'[r].state = "done" \/ rows'[r].at = "report" => item'[x].vector = 2
          BY <2>1, <2>3, <4>1
        <4> QED BY <1>0, <1>3, <3>1, <3>2, <4>1, <4>2, <4>3, <4>4, <4>5 DEF EditSound
      <3>3. CASE item[x].text # 2
        <4>1. item[x].text # 1
          BY <1>0, <2>1, <2>3 DEF EditSound
        <4> QED BY <1>3, <3>3, <4>1 DEF EditSound
      <3> QED BY <3>2, <3>3
    <2> QED BY <1>5, <2>2, <2>3
  <1> QED BY <1>4, <1>5

\* An edit while nothing embeds the item, and its embedding enqueued.
LEMMA EditWritten ==
  ASSUME LibBase, NEW x \in Manual, EditSound(x), NEW y \in L!Items, L!Write(y), x \notin raced'
  PROVE  EditSound(x)'
  <1>0. PICK e, r : e = L!Embed(x) /\ r = L!ReEmbed(x)
    OBVIOUS
  <1>1. /\ OnlyItem(y) /\ item'[y].text = item[y].text + 1 /\ item'[y].vector = item[y].vector
        /\ edit = L!NoItem /\ edit' = y
        /\ rows' = rows /\ held' = held
    BY WriteBase
  <1>2. x \in L!Items /\ x # L!NoItem
    BY ManualKeys, IdsAssumption
  <1>3. CASE x # y
    <2>1. item'[x] = item[x]
      BY <1>1, <1>2, <1>3 DEF OnlyItem
    <2> QED BY <1>1, <1>2, <1>3, <2>1, EditKept DEF EditSame
  <1>4. CASE x = y
    <2>1. rows[e].state \notin {"ready", "running"} /\ rows[r].state \notin {"ready", "running"}
      BY <1>0, <1>2, <1>4, ManualKeys DEF L!Write, L!Embedding
    <2>2. /\ rows[e] \in JobRows(L!Steps) /\ rows[r] \in JobRows(L!Steps)
          /\ rows[e].at # "idle" => rows[e].state = "running"
          /\ rows[r].at # "idle" => rows[r].state = "running"
      BY <1>0, ManualKeys, EmbedAt
    <2>3. item[x].text \in 0 .. MaxEdits + 1
      BY <1>2 DEF LibBase, LibTypes
    <2>4. CASE item[x].text = 0
      <3>1. rows[e].state = "absent" /\ rows[r].state = "absent"
        BY <1>0, <2>4, ManualKeys DEF LibBase, EmbedSound
      <3>2. item'[x].text = 1
        BY <1>1, <1>4, <2>4
      <3> QED BY <1>0, <1>1, <1>4, <2>2, <3>1, <3>2 DEF EditSound
    <2>5. CASE item[x].text = 1
      <3>1. rows[r].state = "absent" /\ rows[e].state = "done"
        BY <1>0, <1>1, <1>2, <2>1, <2>2, <2>5 DEF EditSound, JobRows, JobStates
      <3>2. item'[x].text = 2
        BY <1>1, <1>4, <2>5
      <3> QED BY <1>0, <1>1, <1>4, <2>2, <3>1, <3>2 DEF EditSound
    <2>6. CASE item[x].text \notin 0 .. 1
      <3>1. item'[x].text \notin 1 .. 2
        BY <1>1, <1>4, <2>3, <2>6, OfficeAssumption
      <3> QED BY <3>1 DEF EditSound
    <2> QED BY <2>3, <2>4, <2>5, <2>6
  <1> QED BY <1>3, <1>4

\* The writer that enqueues does so under a key of its own.
LEMMA EditEnqueued ==
  ASSUME LibBase, NEW x \in Manual, EditSound(x), L!WriteEnqueues
  PROVE  EditSound(x)'
  <1>0. PICK e, r, k : e = L!Embed(x) /\ r = L!ReEmbed(x) /\ k = EditKey(edit)
    OBVIOUS
  <1>1. /\ edit \in L!Items /\ edit' = L!NoItem
        /\ OnlyFrom(rows, k)
        /\ rows[k].state = "absent" => rows'[k].state = "ready" /\ rows'[k].at = "idle"
        /\ rows[k].state # "absent" => rows' = rows
        /\ item' = item /\ held' = held
    BY <1>0, WriteEnqueuesBase
  <1>2. /\ x \in L!Items /\ x # L!NoItem
        /\ e \in L!EmbedJobs /\ r \in L!EmbedJobs /\ e # r
        /\ e \in L!Jobs /\ r \in L!Jobs
        /\ L!ItemOf(e) = x /\ L!ItemOf(r) = x
    BY <1>0, ManualKeys, KindsOfJobs, IdsAssumption
  <1>3. CASE edit # x
    <2>1. k \notin {e, r}
      BY <1>0, <1>1, <1>2, <1>3, IdsAssumption, EditKeys
    <2>2. rows'[e] = rows[e] /\ rows'[r] = rows[r]
      BY <1>1, <1>2, <2>1 DEF OnlyFrom
    <2> QED BY <1>0, <1>1, <1>2, <1>3, <2>2, EditKept DEF EditSame
  <1>4. CASE edit = x
    <2>1. CASE item[x].text = 1
      <3>1. k = e /\ rows[e].state = "absent" /\ rows[r].state = "absent"
        BY <1>0, <1>4, <2>1 DEF EditKey, EditSound
      <3>2. rows'[e].state = "ready" /\ rows'[e].at = "idle" /\ rows'[r].state = "absent"
        BY <1>1, <1>2, <3>1 DEF OnlyFrom
      <3> QED BY <1>0, <1>1, <1>2, <2>1, <3>2 DEF EditSound
    <2>2. CASE item[x].text = 2
      <3>1. k = r /\ rows[r].state = "absent" /\ rows[e].state = "done"
        BY <1>0, <1>4, <2>2 DEF EditKey, EditSound
      <3>2. rows'[r].state = "ready" /\ rows'[r].at = "idle" /\ rows'[e].state = "done"
        BY <1>1, <1>2, <3>1 DEF OnlyFrom
      <3> QED BY <1>0, <1>1, <1>2, <2>2, <3>2 DEF EditSound
    <2>3. CASE item[x].text \notin {1, 2}
      BY <1>1, <2>3 DEF EditSound
    <2> QED BY <2>1, <2>2, <2>3
  <1> QED BY <1>3, <1>4

\* The uploads and imports leave the edits alone.
LEMMA EditElsewhere ==
  ASSUME LibBase, NEW x \in Manual,
         \/ \E d \in Files : L!Upload(d) \/ L!UploadFails(d)
         \/ \E i \in Imports :
               \/ L!Ingest(i) \/ L!StartImport(i) \/ L!NotShared(i) \/ L!Ends(L!Import(i))
               \/ L!InsertPiece(i) \/ L!EnqueueEmbed(i) \/ L!EnqueueEmbedSwallows(i)
  PROVE  EditSame(x)
  <1>1. /\ x \in L!Items
        /\ \A k \in {L!Embed(x), L!ReEmbed(x)} :
              k \in L!EmbedJobs /\ k \in L!Jobs /\ L!ItemOf(k) = x
    BY ManualKeys, KindsOfJobs
  <1>2. ASSUME NEW d \in Files, L!Upload(d) \/ L!UploadFails(d) PROVE EditSame(x)
    <2>1. PICK z : UploadTurn(d, z) /\ piece[d] < Chunks
      BY <1>2, UploadDoes, UploadFailsDoes
    <2>2. z \notin Manual /\ L!ItemOf(L!Embed(z)) = z
      BY <2>1, UploadAt DEF UploadTurn
    <2>3. \A k \in {L!Embed(x), L!ReEmbed(x)} : k # L!Embed(z)
      BY <1>1, <2>2
    <2> QED BY <1>1, <2>1, <2>2, <2>3 DEF UploadTurn, OnlyItem, OnlyFrom, EditSame
  <1>3. ASSUME NEW i \in Imports,
               \/ L!Ingest(i) \/ L!StartImport(i) \/ L!NotShared(i) \/ L!Ends(L!Import(i))
               \/ L!EnqueueEmbedSwallows(i)
        PROVE  EditSame(x)
    <2>1. /\ OnlyFrom(rows, L!Import(i)) /\ item' = item /\ edit' = edit
          /\ \A k \in L!EmbedJobs : held'[k] = held[k]
      BY <1>3, IngestBase, StartImportBase, ImportEndsBase, EnqueueEmbedSwallowsBase
    <2>2. \A k \in {L!Embed(x), L!ReEmbed(x)} : k # L!Import(i)
      BY <1>1, ImportKeys
    <2> QED BY <1>1, <2>1, <2>2 DEF OnlyFrom, EditSame
  <1>4. ASSUME NEW i \in Imports, L!InsertPiece(i) PROVE EditSame(x)
    <2>1. /\ OnlyFrom(rows, L!Import(i)) /\ OnlyItem(L!At(i)) /\ edit' = edit /\ held' = held
          /\ rows[L!Import(i)].at = "insert"
      BY <1>4, InsertPieceBase
    <2>2. x # L!At(i)
      BY <2>1, ImportAt, ImportKeys DEF L!At
    <2>3. \A k \in {L!Embed(x), L!ReEmbed(x)} : k # L!Import(i)
      BY <1>1, ImportKeys
    <2> QED BY <1>1, <2>1, <2>2, <2>3 DEF OnlyFrom, OnlyItem, EditSame
  <1>5. ASSUME NEW i \in Imports, L!EnqueueEmbed(i) PROVE EditSame(x)
    <2>1. /\ \A j \in L!Jobs : j \notin {L!Import(i), L!Embed(<<i, piece[i]>>)} =>
                  rows'[j] = rows[j]
          /\ item' = item /\ held' = held /\ edit' = edit
          /\ piece[i] \in L!Pieces
      BY <1>5, EnqueueEmbedBase, ImportAt
    <2>2. x # <<i, piece[i]>>
      BY <2>1, IdsAssumption
    <2>3. \A k \in {L!Embed(x), L!ReEmbed(x)} : k # L!Import(i) /\ k # L!Embed(<<i, piece[i]>>)
      <3>1. \A k \in {L!Embed(x), L!ReEmbed(x)} : k # L!Embed(<<i, piece[i]>>)
        BY <2>2 DEF L!Embed, L!ReEmbed
      <3> QED BY <1>1, <3>1, ImportKeys
    <2> QED BY <1>1, <2>1, <2>3 DEF EditSame
  <1> QED BY <1>2, <1>3, <1>4, <1>5

\* What an import's key embeds is imported.
LEMMA ImportedStep ==
  ASSUME LibBase, ImportedOnly, L!Next
  PROVE  ImportedOnly'
  <1>1. ASSUME NEW i \in Imports, L!EnqueueEmbed(i) PROVE ImportedOnly'
    <2>1. /\ L!At(i) \notin Manual
          /\ payloads \in [Imports \X L!Pieces -> L!Items \cup {L!NoItem}]
      BY <1>1, ImportAt, ImportKeys DEF L!EnqueueEmbed, L!At, LibBase, LibTypes
    <2>2. \/ payloads' = [payloads EXCEPT ![<<i, piece[i]>>] = L!At(i)]
          \/ payloads' = payloads
      BY <1>1, EnqueueEmbedBase
    <2> QED BY <2>1, <2>2 DEF ImportedOnly
  <1>2. CASE payloads' = payloads
    BY <1>2 DEF ImportedOnly
  <1>3. payloads' = payloads \/ \E i \in Imports : L!EnqueueEmbed(i)
    BY DEF L!Next, L!Write, L!WriteEnqueues, L!WriteSwallows, L!Upload, L!UploadFails,
           L!StartEmbed, L!ReadText, L!StoreVector, L!Ingest, L!StartImport, L!NotShared,
           L!InsertPiece, L!EnqueueEmbedSwallows, L!Ends
  <1> QED BY <1>1, <1>2, <1>3

\* Who edits while an item is embedded is known for good.
LEMMA RacedGrows == L!Next => raced \subseteq raced'
  BY DEF L!Next, L!Write, L!WriteEnqueues, L!WriteSwallows, L!Upload, L!UploadFails,
         L!StartEmbed, L!ReadText, L!StoreVector, L!Ingest, L!StartImport, L!NotShared,
         L!InsertPiece, L!EnqueueEmbed, L!NextPiece, L!EnqueueEmbedSwallows, L!Ends

\* A call that fails is counted.
LEMMA CostOnlyGrows == LibBase /\ L!Next => cost' = cost \/ cost' = cost + 1
  BY LibStepLoses DEF LosesNothing, LosesOne, LosesMany

\* A step during which no call fails keeps every edit sound.
LEMMA EditStep ==
  ASSUME LibBase, ImportedOnly, EditInv, L!Next
  PROVE  EditInv'
  <1> SUFFICES ASSUME cost' = 0, NEW x \in Manual, x \notin raced'
               PROVE  EditSound(x)'
    BY DEF EditInv
  <1>1. cost = 0 /\ cost' = cost
    BY CostOnlyGrows, OfficeAssumption DEF LibBase, LibTypes
  <1>2. EditSound(x)
    BY <1>1, RacedGrows DEF EditInv
  <1>3. ASSUME NEW y \in L!Items, L!Write(y) PROVE EditSound(x)'
    BY <1>2, <1>3, EditWritten
  <1>4. CASE L!WriteEnqueues
    BY <1>2, <1>4, EditEnqueued
  <1>5. CASE L!WriteSwallows
    BY <1>1, <1>5, WriteSwallowsBase DEF LibBase, LibTypes
  <1>6. ASSUME NEW d \in Files, L!Upload(d) \/ L!UploadFails(d) PROVE EditSound(x)'
    BY <1>2, <1>6, EditElsewhere, EditKept
  <1>7. ASSUME NEW k \in L!EmbedJobs,
               L!StartEmbed(k) \/ L!ReadText(k) \/ L!StoreVector(k) \/ L!Ends(k)
        PROVE  EditSound(x)'
    BY <1>1, <1>2, <1>7, EditEmbeds
  <1>8. ASSUME NEW i \in Imports,
               \/ L!Ingest(i) \/ L!StartImport(i) \/ L!NotShared(i) \/ L!Ends(L!Import(i))
               \/ L!InsertPiece(i) \/ L!EnqueueEmbed(i) \/ L!EnqueueEmbedSwallows(i)
        PROVE  EditSound(x)'
    BY <1>2, <1>8, EditElsewhere, EditKept
  <1>9. ASSUME NEW k \in L!Jobs, L!Ends(k) PROVE EditSound(x)'
    BY <1>7, <1>8, <1>9, KindsOfJobs
  <1> QED BY <1>3, <1>4, <1>5, <1>6, <1>7, <1>8, <1>9 DEF L!Next

\* It tells the vectors of the items that no edit raced.
LEMMA EditsSeen ==
  ASSUME LibBase, EditInv
  PROVE  L!FirstEditIsEmbedded
  <1> SUFFICES ASSUME NEW x \in Manual, x \notin raced, item[x].text \in 1 .. 2,
                      ~L!Pending(x), cost = 0
               PROVE  item[x].vector = item[x].text
    BY DEF L!FirstEditIsEmbedded
  <1>1. EditSound(x)
    BY DEF EditInv
  <1>2. edit # x /\ \A k \in L!EmbedJobs : L!ItemOf(k) = x =>
                  rows[k].state \notin {"ready", "running"}
    BY DEF L!Pending, L!Embedding
  <1>3. \A k \in {L!Embed(x), L!ReEmbed(x)} :
           k \in L!EmbedJobs /\ L!ItemOf(k) = x /\ rows[k] \in JobRows(L!Steps)
    BY ManualKeys, EmbedAt
  <1>4. CASE item[x].text = 1
    <2>1. rows[L!Embed(x)].state = "done"
      BY <1>1, <1>2, <1>3, <1>4 DEF EditSound, JobRows, JobStates
    <2> QED BY <1>1, <1>4, <2>1 DEF EditSound
  <1>5. CASE item[x].text = 2
    <2>1. rows[L!ReEmbed(x)].state = "done"
      BY <1>1, <1>2, <1>3, <1>5 DEF EditSound, JobRows, JobStates
    <2> QED BY <1>1, <1>5, <2>1 DEF EditSound
  <1> QED BY <1>4, <1>5

\* The inductive invariant.
LibInv == LibBase /\ LostPaid /\ ImportedOnly /\ EditInv

\* It holds at first, ...
LEMMA LibInit ==
  ASSUME L!Init
  PROVE  LibInv
  <1>0. L!Absent = [state |-> "absent", attempts |-> 0, at |-> "idle"]
    BY DEF L!Absent
  <1>1. \A k \in L!Jobs : rows[k] = [state |-> "absent", attempts |-> 0, at |-> "idle"]
    BY <1>0 DEF L!Init
  <1>2. /\ cost = 0 /\ item = [x \in L!Items |-> [text |-> 0, vector |-> 0]]
        /\ payloads = [p \in Imports \X L!Pieces |-> L!NoItem]
        /\ held = [k \in L!EmbedJobs |-> 0]
        /\ piece = [s \in Imports \cup Files |-> 0]
        /\ edit = L!NoItem /\ raced = {}
    BY DEF L!Init
  <1>3. LibTypes
    <2>1. L!Absent \in JobRows(L!Steps)
      BY <1>0, ExecutionAssumption DEF JobRows, JobStates
    <2>2. rows \in [L!Jobs -> JobRows(L!Steps)]
      BY <2>1 DEF L!Init
    <2>3. 0 \in 0 .. MaxEdits + 1 /\ 0 \in 0 .. Chunks /\ 0 \in 0 .. MaxCost
      BY OfficeAssumption
    <2>4. item \in [L!Items -> [text : 0 .. MaxEdits + 1, vector : 0 .. MaxEdits + 1]]
      BY <1>2, <2>3
    <2> QED BY <1>2, <2>2, <2>3, <2>4 DEF LibTypes
  <1>4. \A k \in L!Jobs : LibRow(k)
    BY <1>1, ExecutionAssumption DEF LibRow, Sound
  <1>5. \A k \in L!EmbedJobs : EmbedSound(k)
    BY <1>1, KindsOfJobs DEF EmbedSound
  <1>6. \A d \in Files : UploadSound(d)
    BY <1>2, UploadKeys DEF UploadSound
  <1>7. ASSUME NEW i \in Imports PROVE ImportSound(i)
    <2>1. L!Import(i) \in L!Jobs /\ \A p \in L!Pieces : L!Embed(<<i, p>>) \in L!Jobs
      BY ImportKeys, KindsOfJobs
    <2>2. \A p \in L!Pieces : payloads[<<i, p>>] = L!NoItem
      BY <1>2
    <2>3. \A n \in 1 .. MaxAttempts, p \in L!Pieces : item[<<i, n, p>>].text = 0
      BY <1>2, ImportKeys
    <2> QED BY <1>1, <2>1, <2>2, <2>3 DEF ImportSound
  <1>8. LibBase
    BY <1>2, <1>3, <1>4, <1>5, <1>6, <1>7 DEF LibBase
  <1>9. Lost = {}
    <2>1. ASSUME NEW x \in L!Items PROVE ~Wanting(x) /\ ~Doomed(x)
      <3>1. ~Wanting(x)
        BY <1>2 DEF Wanting
      <3>2. ~Doomed(x)
        <4>1. \A i \in Imports : rows[L!Import(i)].state = "absent"
          BY <1>1, ImportKeys
        <4> QED BY <4>1 DEF Doomed
      <3> QED BY <3>1, <3>2
    <2> QED BY <2>1 DEF Lost
  <1>10. LostPaid
    BY <1>2, <1>9, FS_EmptySet, OfficeAssumption DEF LostPaid
  <1>11. ImportedOnly
    <2>1. L!NoItem \notin Manual
      BY ManualKeys, IdsAssumption
    <2> QED BY <1>2, <2>1 DEF ImportedOnly
  <1>12. EditInv
    BY <1>2, ManualKeys DEF EditInv, EditSound
  <1> QED BY <1>8, <1>10, <1>11, <1>12 DEF LibInv

\* ... is kept by every step ...
LEMMA LibStep ==
  ASSUME LibInv, L!Next \/ UNCHANGED L!vars
  PROVE  LibInv'
  <1>1. CASE L!Next
    BY <1>1, LibStepBase, LostStep, ImportedStep, EditStep DEF LibInv
  <1>2. CASE UNCHANGED L!vars
    <2>1. LibBase'
      BY <1>2 DEF L!vars, LibInv, LibBase, LibTypes, LibRow, EmbedSound, UploadSound,
                   ImportSound,
                  EditHasText, ToCome, L!ItemOf, L!At
    <2>2. Lost' = Lost
      BY <1>2 DEF L!vars, Lost, Wanting, Doomed, Coming, AttemptOf, EditKey, L!ItemOf, L!At
    <2> QED BY <1>2, <2>1, <2>2
            DEF L!vars, LibInv, LostPaid, ImportedOnly, EditInv, EditSound
  <1> QED BY <1>1, <1>2

\* A knowledge item without a vector, and nobody about to make it, needs a fault (in a model of
\* knowledge_ingestion.py with any number of items, imports, pieces, attempts and faults).
THEOREM BareItems == OfficeSpec => []BareNeedsFault
  <1> DEFINE Inv == chosen = "library" => LibInv
  <1>1. OfficeInit => Inv
    BY LibInit DEF OfficeInit
  <1>2. Inv /\ [OfficeNext]_officeVars => Inv'
    BY OneComponent, LibStep
  <1>3. Inv => BareNeedsFault
    <2> SUFFICES ASSUME chosen = "library", LibInv PROVE L!BareNeedsFault
      BY DEF BareNeedsFault
    <2>1. IsFiniteSet(Lost) /\ Cardinality(Lost) <= Chunks * cost /\ L!Bare \subseteq Lost
      BY BareLost DEF LibInv, LostPaid
    <2>2. /\ Cardinality(L!Bare) <= Cardinality(Lost)
          /\ Cardinality(L!Bare) \in Nat /\ Cardinality(Lost) \in Nat
      BY <2>1, FS_Subset, FS_CardinalityType
    <2>3. PICK n \in Nat : n = Chunks * cost
      BY OfficeAssumption DEF LibInv, LibBase, LibTypes
    <2>4. L!Cardinality(L!Bare) <= n
      BY <2>1, <2>2, <2>3, Cardinalities
    <2> QED BY <2>3, <2>4 DEF L!BareNeedsFault
  <1> QED BY <1>1, <1>2, <1>3, PTL DEF OfficeSpec

\* The first edit of an item is embedded if no call failed and none was being made of it.
THEOREM FirstEdits == OfficeSpec => []FirstEditIsEmbedded
  <1> DEFINE Inv == chosen = "library" => LibInv
  <1>1. OfficeInit => Inv
    BY LibInit DEF OfficeInit
  <1>2. Inv /\ [OfficeNext]_officeVars => Inv'
    BY OneComponent, LibStep
  <1>3. Inv => FirstEditIsEmbedded
    BY EditsSeen DEF LibInv, FirstEditIsEmbedded
  <1> QED BY <1>1, <1>2, <1>3, PTL DEF OfficeSpec

-----------------------------------------------------------------------------
(* Types.                                                                  *)

\* A lead is one of the three that the hand-off knows.
LeadType == lead \in {"none", "open", "closed"}

\* Only a closing lead changes.
LEMMA LeadStep == ASSUME LeadType, H!Next \/ UNCHANGED H!vars PROVE LeadType'
  <1>1. CASE UNCHANGED H!vars
    BY <1>1 DEF H!vars, LeadType
  <1>2. CASE H!LeadCloses
    BY <1>2 DEF H!LeadCloses, LeadType
  <1>3. CASE H!Next /\ ~H!LeadCloses
    <2>1. lead' = lead
      BY <1>3 DEF H!Next, H!Start, H!NoConversation, H!InsertTask, H!AwaitHuman, H!Notify,
                  H!FollowUp, H!AwaitCustomer, H!UpdateTask
    <2> QED BY <2>1 DEF LeadType
  <1> QED BY <1>1, <1>2, <1>3

\* No more businesses are mailed in a round, or yet to be mailed, than there are.
RoundSound(p) ==
    left[p].count + Cardinality(left[p].businesses) <= Cardinality(Businesses)

\* The summaries keep to their bounds.
BoundsKept ==
    /\ {deployed, evening} \subseteq BOOLEAN
    /\ restarts \in 0 .. MaxRestarts
    /\ cost \in 0 .. MaxCost
    /\ \A p \in Loops : RoundSound(p)

\* One business fewer is to be mailed.
LEMMA OneFewer ==
  ASSUME NEW P \in SUBSET Businesses
  PROVE  /\ IsFiniteSet(P) /\ Cardinality(P) \in Nat
         /\ Cardinality(P) <= Cardinality(Businesses)
         /\ Cardinality(Businesses) \in Nat
         /\ \A b \in P : Cardinality(P \ {b}) = Cardinality(P) - 1
  <1>1. IsFiniteSet(P)
    BY OfficeAssumption, FS_Subset
  <1> QED BY <1>1, OfficeAssumption, FS_Subset, FS_CardinalityType, FS_RemoveElement

\* A loop that mails, fails to mail, or begins or ends its round keeps to the bound.
LEMMA RoundsSound ==
  ASSUME SummariesInv, BoundsKept, NEW p \in Loops,
         NEW todo, todo \subseteq Businesses, NEW day \in Nat, NEW count \in Nat,
         left' = [left EXCEPT ![p] = Round(todo, day, count)],
         count + Cardinality(todo) <= Cardinality(Businesses)
  PROVE  \A q \in Loops : RoundSound(q)'
  <1> SUFFICES ASSUME NEW q \in Loops
               PROVE  left'[q].count + Cardinality(left'[q].businesses)
                         <= Cardinality(Businesses)
    BY DEF RoundSound
  <1>1. CASE q = p
    <2>1. left'[q] = Round(todo, day, count)
      BY <1>1 DEF SummariesInv, SummariesTypes
    <2> QED BY <2>1 DEF Round
  <1>2. CASE q # p
    <2>1. left'[q] = left[q]
      BY <1>2 DEF SummariesInv, SummariesTypes
    <2> QED BY <2>1 DEF BoundsKept, RoundSound
  <1> QED BY <1>1, <1>2

\* The bounds are kept.
LEMMA BoundsStep ==
  ASSUME SummariesInv, BoundsKept, M!Next \/ UNCHANGED M!vars
  PROVE  BoundsKept'
  <1>0. /\ MaxRestarts \in Nat /\ MaxCost \in Nat
        /\ Businesses \subseteq Businesses /\ {} \subseteq Businesses /\ 0 \in Nat
        /\ Cardinality({}) = 0 /\ Cardinality(Businesses) \in Nat
        /\ 0 + Cardinality(Businesses) <= Cardinality(Businesses)
        /\ 0 + Cardinality({}) <= Cardinality(Businesses)
    <2>1. Cardinality({}) = 0
      BY FS_EmptySet
    <2>2. Cardinality(Businesses) \in Nat
      BY OfficeAssumption, FS_CardinalityType
    <2> QED BY <2>1, <2>2, OfficeAssumption
  <1>1. CASE UNCHANGED M!vars
    BY <1>1 DEF M!vars, BoundsKept, RoundSound
  <1>2. ASSUME NEW p \in Loops, M!Wake(p) PROVE BoundsKept'
    <2>1. /\ left' = [left EXCEPT ![p] = Round(Businesses, today, 0)]
          /\ UNCHANGED <<deployed, evening, restarts, cost>>
      BY <1>2 DEF M!Wake, Round
    <2>2. today \in Nat
      BY LoopNumbers
    <2>3. \A q \in Loops : RoundSound(q)'
      BY <1>0, <2>1, <2>2, RoundsSound
    <2> QED BY <2>1, <2>3 DEF BoundsKept
  <1>3. ASSUME NEW p \in Loops, M!Remember(p) PROVE BoundsKept'
    <2>1. /\ left' = [left EXCEPT ![p] = Round({}, 0, 0)]
          /\ UNCHANGED <<deployed, evening, restarts, cost>>
      BY <1>3 DEF M!Remember, M!Waiting, Round
    <2>2. \A q \in Loops : RoundSound(q)'
      BY <1>0, <2>1, RoundsSound
    <2> QED BY <2>1, <2>2 DEF BoundsKept
  <1>4. ASSUME NEW p \in Loops, M!Restart(p) PROVE BoundsKept'
    <2>1. /\ left' = [left EXCEPT ![p] = Round({}, 0, 0)]
          /\ UNCHANGED <<deployed, evening, cost>>
          /\ restarts < MaxRestarts /\ restarts' = restarts + 1
      BY <1>4 DEF M!Restart, M!Waiting, Round
    <2>2. \A q \in Loops : RoundSound(q)'
      BY <1>0, <2>1, RoundsSound
    <2>3. restarts' \in 0 .. MaxRestarts
      BY <1>0, <2>1 DEF BoundsKept
    <2> QED BY <2>1, <2>2, <2>3 DEF BoundsKept
  <1>5. ASSUME NEW p \in Loops, NEW b \in Businesses, M!Mail(p, b) \/ M!MailFails(p, b)
        PROVE  BoundsKept'
    <2>0. \/ left' = [left EXCEPT ![p] = Round(left[p].businesses \ {b}, left[p].day,
                                              left[p].count)]
          \/ left' = [left EXCEPT ![p] = Round(left[p].businesses \ {b}, left[p].day,
                                              left[p].count + 1)]
      BY <1>5, RowOf DEF M!Mail, M!MailFails
    <2>1. PICK todo, count :
            /\ todo = left[p].businesses \ {b}
            /\ count \in {left[p].count, left[p].count + 1}
            /\ left' = [left EXCEPT ![p] = Round(todo, left[p].day, count)]
      BY <2>0
    <2>2. /\ b \in left[p].businesses
          /\ UNCHANGED <<deployed, evening, restarts>>
          /\ cost' = cost \/ (cost < MaxCost /\ cost' = cost + 1)
      BY <1>5 DEF M!Mail, M!MailFails
    <2>3. /\ left[p].businesses \in SUBSET Businesses
          /\ left[p].day \in Nat /\ left[p].count \in Nat
      BY LoopNumbers
    <2>4. left[p].count + Cardinality(left[p].businesses) <= Cardinality(Businesses)
      BY DEF BoundsKept, RoundSound
    <2>5. /\ Cardinality(left[p].businesses) \in Nat
          /\ Cardinality(todo) = Cardinality(left[p].businesses) - 1
      BY <2>1, <2>2, <2>3, OneFewer
    <2>6. /\ count \in Nat /\ todo \subseteq Businesses
          /\ count + Cardinality(todo) <= Cardinality(Businesses)
      BY <1>0, <2>1, <2>3, <2>4, <2>5
    <2>7. \A q \in Loops : RoundSound(q)'
      BY <2>1, <2>3, <2>6, RoundsSound
    <2>8. cost' \in 0 .. MaxCost
      BY <1>0, <2>2 DEF BoundsKept
    <2> QED BY <2>2, <2>7, <2>8 DEF BoundsKept
  <1>6. CASE M!Clock
    BY <1>6 DEF M!Clock, BoundsKept, RoundSound
  <1> QED BY <1>1, <1>2, <1>3, <1>4, <1>5, <1>6 DEF M!Next

\* At first no loop has begun a round.
LEMMA BoundsInit == ASSUME M!Init PROVE BoundsKept
  <1>1. Cardinality({}) = 0 /\ Cardinality(Businesses) \in Nat
    BY OfficeAssumption, FS_EmptySet, FS_CardinalityType
  <1>2. \A p \in Loops : left[p].count = 0 /\ left[p].businesses = {}
    BY DEF M!Init, M!Waiting
  <1>3. ASSUME NEW p \in Loops PROVE RoundSound(p)
    <2>1. left[p].count = 0 /\ Cardinality(left[p].businesses) = 0
      BY <1>1, <1>2, <1>3
    <2> QED BY <1>1, <2>1 DEF RoundSound
  <1>4. restarts \in 0 .. MaxRestarts /\ cost \in 0 .. MaxCost
    BY OfficeAssumption DEF M!Init
  <1>5. {deployed, evening} \subseteq BOOLEAN
    BY DEF M!Init
  <1> QED BY <1>3, <1>4, <1>5 DEF BoundsKept

\* With them, the summaries keep their types.
LEMMA SummariesTyped == ASSUME SummariesInv, BoundsKept PROVE M!TypeOK
  <1>1. MaxDays \in Nat /\ today \in Nat /\ today <= MaxDays
    BY OfficeAssumption DEF SummariesInv, SummariesTypes, M!Days
  <1>2. ASSUME NEW p \in Loops
        PROVE  /\ lastSent[p] \in 0 .. MaxDays
               /\ left[p] \in [businesses : SUBSET Businesses, day : 0 .. MaxDays,
                               count : 0 .. M!Cardinality(Businesses)]
    <2>1. /\ lastSent[p] \in Nat /\ lastSent[p] <= today
          /\ left[p].day \in Nat /\ left[p].day <= today
          /\ left[p].businesses \in SUBSET Businesses /\ left[p].count \in Nat
      BY LoopNumbers
    <2>2. left[p].count <= Cardinality(Businesses)
      <3>1. left[p].count + Cardinality(left[p].businesses) <= Cardinality(Businesses)
        BY DEF BoundsKept, RoundSound
      <3>2. Cardinality(left[p].businesses) \in Nat /\ Cardinality(Businesses) \in Nat
        BY <2>1, OneFewer
      <3> QED BY <2>1, <3>1, <3>2
    <2>3. Cardinality(Businesses) \in Nat /\ M!Cardinality(Businesses) = Cardinality(Businesses)
      BY <2>1, OneFewer, Cardinalities
    <2>4. left[p] \in [businesses : SUBSET Businesses, day : Nat, count : Nat]
      BY DEF SummariesInv, SummariesTypes
    <2>5. /\ lastSent[p] \in 0 .. MaxDays /\ left[p].day \in 0 .. MaxDays
          /\ left[p].count \in 0 .. M!Cardinality(Businesses)
      BY <1>1, <2>1, <2>2, <2>3
    <2> QED BY <2>1, <2>4, <2>5
  <1>3. lastSent \in [Loops -> 0 .. MaxDays]
    BY <1>2 DEF SummariesInv, SummariesTypes
  <1>4. left \in [Loops -> [businesses : SUBSET Businesses, day : 0 .. MaxDays,
                            count : 0 .. M!Cardinality(Businesses)]]
    BY <1>2 DEF SummariesInv, SummariesTypes
  <1> QED BY <1>3, <1>4 DEF M!TypeOK, SummariesInv, SummariesTypes, BoundsKept

\* What the types of all components rest on.
OfficeInv ==
    /\ chosen \in {"quotes", "intake", "handoff", "library", "settings", "uploads", "rollup",
                   "summaries", "times"}
    /\ chosen = "quotes" => BaseInv
    /\ chosen = "intake" => IntakeInv
    /\ chosen = "handoff" => HandInv /\ LeadType
    /\ chosen = "library" => LibInv
    /\ chosen = "settings" => S!TypeOK
    /\ chosen = "uploads" => UploadsInv
    /\ chosen = "rollup" => RollupInv
    /\ chosen = "summaries" => SummariesInv /\ BoundsKept
    /\ chosen = "times" => input.of \in {"slots", "hours", "words"}

\* It holds at first, ...
LEMMA OfficeInits == ASSUME OfficeInit PROVE OfficeInv
  <1>1. chosen = "times" => input.of \in {"slots", "hours", "words"}
    <2> SUFFICES ASSUME A!Init PROVE input.of \in {"slots", "hours", "words"}
      BY DEF OfficeInit
    <2>1. CASE input \in A!SlotInputs
      BY <2>1 DEF A!SlotInputs
    <2>2. CASE input \in A!HoursInputs
      BY <2>2 DEF A!HoursInputs
    <2>3. CASE input \in A!WordInputs
      BY <2>3 DEF A!WordInputs
    <2> QED BY <2>1, <2>2, <2>3 DEF A!Init
  <1>2. chosen = "handoff" => HandInv /\ LeadType
    BY HandInit DEF OfficeInit, H!Init, LeadType
  <1>3. chosen = "summaries" => SummariesInv /\ BoundsKept
    BY SummariesInit, BoundsInit DEF OfficeInit
  <1>4. /\ chosen = "quotes" => BaseInv
        /\ chosen = "intake" => IntakeInv
        /\ chosen = "library" => LibInv
    BY BaseInit, IntakeInit, LibInit DEF OfficeInit
  <1>5. /\ chosen = "settings" => S!TypeOK
        /\ chosen = "uploads" => UploadsInv
        /\ chosen = "rollup" => RollupInv
    BY SettingsInit, UploadsInit, RollupInit DEF OfficeInit
  <1>6. chosen \in {"quotes", "intake", "handoff", "library", "settings", "uploads", "rollup",
                    "summaries", "times"}
    BY DEF OfficeInit
  <1> QED BY <1>1, <1>2, <1>3, <1>4, <1>5, <1>6 DEF OfficeInv

\* ... and every step keeps it.
LEMMA OfficeStep == ASSUME OfficeInv, OfficeNext \/ UNCHANGED officeVars PROVE OfficeInv'
  <1>1. chosen' = chosen
    BY OneComponent
  <1>2. CASE chosen = "quotes"
    BY <1>1, <1>2, OneComponent, StepKinds, BaseStutters DEF OfficeInv
  <1>3. CASE chosen = "intake"
    BY <1>1, <1>3, OneComponent, IntakeStep DEF OfficeInv
  <1>4. CASE chosen = "handoff"
    BY <1>1, <1>4, OneComponent, HandStep, LeadStep DEF OfficeInv
  <1>5. CASE chosen = "library"
    BY <1>1, <1>5, OneComponent, LibStep DEF OfficeInv
  <1>6. CASE chosen = "settings"
    BY <1>1, <1>6, OneComponent, SettingsTypes DEF OfficeInv
  <1>7. CASE chosen = "uploads"
    BY <1>1, <1>7, OneComponent, UploadsStep DEF OfficeInv
  <1>8. CASE chosen = "rollup"
    BY <1>1, <1>8, OneComponent, RollupStep DEF OfficeInv
  <1>9. CASE chosen = "summaries"
    BY <1>1, <1>9, OneComponent, SummariesStep, BoundsStep DEF OfficeInv
  <1>10. CASE chosen = "times"
    BY <1>1, <1>10, OneComponent DEF OfficeInv
  <1> QED BY <1>2, <1>3, <1>4, <1>5, <1>6, <1>7, <1>8, <1>9, <1>10 DEF OfficeInv

\* Every variable of every component keeps its type.
THEOREM AllTypes == OfficeSpec => []TypesOK
  <1>1. OfficeInit => OfficeInv
    BY OfficeInits
  <1>2. OfficeInv /\ [OfficeNext]_officeVars => OfficeInv'
    BY OfficeStep
  <1>3. OfficeInv => TypesOK
    <2> SUFFICES ASSUME OfficeInv PROVE TypesOK
      OBVIOUS
    <2>1. chosen = "quotes" => TypeOK
      BY DEF OfficeInv, BaseInv
    <2>2. chosen = "intake" => I!TypeOK
      BY DEF OfficeInv, IntakeInv, IntakeTypes, Held, I!TypeOK, JobRows, JobStates, I!JobRows,
             I!JobStates
    <2>3. chosen = "handoff" => H!TypeOK
      BY DEF OfficeInv, HandInv, HandTypes, LeadType, H!TypeOK, JobRows, JobStates, H!JobRows,
             H!JobStates
    <2>4. chosen = "library" => L!TypeOK
      BY DEF OfficeInv, LibInv, LibBase, LibTypes, L!TypeOK, JobRows, JobStates, L!JobRows,
             L!JobStates
    <2>5. chosen = "settings" => S!TypeOK
      BY DEF OfficeInv
    <2>6. chosen = "uploads" => U!TypeOK
      BY DEF OfficeInv, UploadsInv
    <2>7. chosen = "rollup" => R!TypeOK
      BY DEF OfficeInv, RollupInv
    <2>8. chosen = "summaries" => M!TypeOK
      BY SummariesTyped DEF OfficeInv
    <2> QED BY <2>1, <2>2, <2>3, <2>4, <2>5, <2>6, <2>7, <2>8 DEF OfficeInv, TypesOK
  <1> QED BY <1>1, <1>2, <1>3, PTL DEF OfficeSpec
==============================================================================
