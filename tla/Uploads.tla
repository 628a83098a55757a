-------------------------------- MODULE Uploads --------------------------------
(***************************************************************************)
(* The links a customer uploads photos by: routes/uploads.py, with          *)
(* _insert_message_from_api of routes/conversations.py.                      *)
(***************************************************************************)
EXTENDS Naturals, FiniteSets

CONSTANTS
    Tokens,        \* upload links
    Customers,     \* requests to complete an upload; a page may send it twice
    MaxFaults      \* bound on the calls that fail

NoToken == "none"

VARIABLES
    token,         \* upload_tokens: whether it is there, used, past expires_at
    request,       \* the token of each request, whether it saw the page, and its step
    photos,        \* the messages [Customer uploaded photo: ...], by request
    faults

vars == <<token, request, photos, faults>>

Init ==
    /\ token = [t \in Tokens |-> [there |-> FALSE, used |-> FALSE, expired |-> FALSE]]
    /\ request = [c \in Customers |-> [token |-> NoToken, at |-> "idle"]]
    /\ photos = {}
    /\ faults = 0

\* create_upload_link.
RequestLink(t) ==
    /\ ~token[t].there
    /\ token' = [token EXCEPT ![t].there = TRUE]
    /\ UNCHANGED <<request, photos, faults>>

Expires(t) ==
    /\ token[t].there
    /\ token' = [token EXCEPT ![t].expired = TRUE]
    /\ UNCHANGED <<request, photos, faults>>

\* get_upload_info, for a link that is neither used nor expired.
Info(c, t) ==
    /\ request[c].at = "idle"
    /\ token[t] = [there |-> TRUE, used |-> FALSE, expired |-> FALSE]
    /\ request' = [request EXCEPT ![c] = [token |-> t, at |-> "uploading"]]
    /\ UNCHANGED <<token, photos, faults>>

\* mark_upload_complete looks for the token unused (expired or not), ...
CompleteReads(c) ==
    /\ request[c].at = "uploading"
    /\ request' = [request EXCEPT ![c].at = IF token[request[c].token].used THEN "refused"
                                            ELSE "mark"]
    /\ UNCHANGED <<token, photos, faults>>

\* ... marks it used without looking again, ...
Marked(c) == [token EXCEPT ![request[c].token].used = TRUE]
CompleteMarks(c) ==
    /\ request[c].at = "mark"
    /\ token' = Marked(c)
    /\ request' = [request EXCEPT ![c].at = "message"]
    /\ UNCHANGED <<photos, faults>>

\* Mutant: the photo is filed under a contact, if there is one.
CompleteFilesContact(c) ==
    /\ request[c].at = "message"
    /\ \E contact \in BOOLEAN : photos' = IF contact THEN photos \cup {c} ELSE photos
    /\ request' = [request EXCEPT ![c].at = "done"]
    /\ UNCHANGED <<token, faults>>

\* ... and puts the photo into the conversation.
CompleteFiles(c) ==
    /\ request[c].at = "message"
    /\ photos' = photos \cup {c}
    /\ request' = [request EXCEPT ![c].at = "done"]
    /\ UNCHANGED <<token, faults>>

\* A call fails, or was carried out and its answer is lost.  The last one's failure is
\* logged and the request answers ok.
CompleteFails(c) ==
    /\ request[c].at \in {"uploading", "mark", "message"}
    /\ faults < MaxFaults
    /\ faults' = faults + 1
    /\ \/ UNCHANGED <<token, photos>>
       \/ request[c].at = "mark" /\ token' = Marked(c) /\ photos' = photos
       \/ request[c].at = "message" /\ photos' = photos \cup {c} /\ token' = token
    /\ request' = [request EXCEPT ![c].at = IF @ = "message" THEN "done" ELSE "failed"]

\* The page sends a request that failed once more.
Resend(c) ==
    /\ request[c].at = "failed"
    /\ request' = [request EXCEPT ![c].at = "uploading"]
    /\ UNCHANGED <<token, photos, faults>>

Next ==
    \/ \E t \in Tokens : RequestLink(t) \/ Expires(t)
    \/ \E c \in Customers :
          \/ \E t \in Tokens : Info(c, t)
          \/ CompleteReads(c) \/ CompleteMarks(c) \/ CompleteFiles(c)
          \/ CompleteFails(c) \/ Resend(c)

Spec == Init /\ [][Next]_vars

-----------------------------------------------------------------------------
(* Properties.                                                             *)

\* Every variable keeps its type.
TypeOK ==
    /\ token \in [Tokens -> [there : BOOLEAN, used : BOOLEAN, expired : BOOLEAN]]
    /\ request \in [Customers -> [token : Tokens \cup {NoToken},
          at : {"idle", "uploading", "mark", "message", "done", "refused", "failed"}]]
    /\ photos \subseteq Customers
    /\ faults \in 0 .. MaxFaults

\* A used link has its photo in the conversation, or a request that is about to put it
\* there; a link used up without one cost a fault, for no request may use it again.
Spent ==
    {t \in Tokens : /\ token[t].used
                    /\ \A c \in Customers :
                          request[c].token = t => c \notin photos /\ request[c].at # "message"}
SpentLinkNeedsFault == Cardinality(Spent) <= faults
=============================================================================
