-------------------------------- MODULE Settings --------------------------------
(***************************************************************************)
(* businesses.settings, one JSON document that is always read, changed and *)
(* written back whole: by the three Google Calendar routes of               *)
(* routes/integrations.py and by _refresh_access_token of                    *)
(* workers/src/lib/google_calendar.py.  One business.                       *)
(***************************************************************************)
EXTENDS Naturals, FiniteSets

CONSTANTS
    Connects,      \* round trips of an owner to Google
    Disconnects,   \* requests to disconnect
    Refreshes      \* calendar calls of the booking worker whose token has expired

\* A Google account is known by the round trip that granted it.
Nobody == "nobody"
Accounts == Connects \cup {Nobody}
Requests == Connects \cup Disconnects \cup Refreshes
Documents == [oauth : Accounts, connected : BOOLEAN, refresh : Accounts, access : Accounts]

VARIABLES
    settings,      \* _google_oauth_state, google_calendar.connected and the accounts of
                   \* the two tokens
    request        \* how far each request is, the document it read, and the account of
                   \* the refresh token it used

vars == <<settings, request>>

Unset == [oauth |-> Nobody, connected |-> FALSE, refresh |-> Nobody, access |-> Nobody]
Fresh == [at |-> "idle", read |-> Unset, used |-> Nobody]

Init ==
    /\ settings = Unset
    /\ request = [r \in Requests |-> Fresh]

Reads(r, at) == request' = [request EXCEPT ![r].at = at, ![r].read = settings]
Over(r) == request' = [request EXCEPT ![r] = [Fresh EXCEPT !.at = "done"]]
Writes(r, document) == settings' = document /\ Over(r)

-----------------------------------------------------------------------------
(* Connecting.                                                             *)

\* google_calendar_auth_url stores the state it sends the owner away with.
AuthReads(r) ==
    /\ request[r].at = "idle"
    /\ Reads(r, "auth")
    /\ UNCHANGED settings

AuthWrites(r) ==
    /\ request[r].at = "auth"
    /\ settings' = [request[r].read EXCEPT !.oauth = r]
    /\ request' = [request EXCEPT ![r] = [Fresh EXCEPT !.at = "away"]]

\* google_calendar_callback finds the business by the state, or answers 400.
CallbackReads(r) ==
    /\ request[r].at = "away"
    /\ settings.oauth = r
    /\ Reads(r, "exchange")
    /\ UNCHANGED settings

\* Mutant: a connection that exists keeps its refresh token.
CallbackKeepsRefresh(r) ==
    /\ request[r].at = "exchange"
    /\ LET before == request[r].read
       IN Writes(r, [oauth |-> Nobody, connected |-> TRUE, access |-> r,
                     refresh |-> IF before.connected THEN before.refresh ELSE r])

\* The code is exchanged, and the document written that was read before.
CallbackWrites(r) ==
    /\ request[r].at = "exchange"
    /\ Writes(r, [oauth |-> Nobody, connected |-> TRUE, access |-> r, refresh |-> r])

-----------------------------------------------------------------------------
\* google_calendar_disconnect.  (The revocation's failure is logged.)
DisconnectReads(r) ==
    /\ request[r].at = "idle"
    /\ Reads(r, "revoke")
    /\ UNCHANGED settings

DisconnectWrites(r) ==
    /\ request[r].at = "revoke"
    /\ Writes(r, [Unset EXCEPT !.oauth = request[r].read.oauth])

-----------------------------------------------------------------------------
(* _refresh_access_token.                                                  *)

\* The configuration is read (CalendarNotConnectedError if there is none) and Google
\* asked for an access token of that account.
RefreshPosts(r) ==
    /\ request[r].at = "idle"
    /\ settings.connected
    /\ request' = [request EXCEPT ![r].at = "post", ![r].used = settings.refresh]
    /\ UNCHANGED settings

\* The document is read again, ...
RefreshReads(r) ==
    /\ request[r].at = "post"
    /\ Reads(r, "refresh")
    /\ UNCHANGED settings

\* ... and written with the new access token, whatever connection it now holds, and
\* with a new refresh token if Google gave one.
RefreshWrites(r) ==
    /\ request[r].at = "refresh"
    /\ LET renewed == [request[r].read EXCEPT !.access = request[r].used]
       IN \/ Writes(r, renewed)
          \/ Writes(r, [renewed EXCEPT !.refresh = request[r].used])

\* Google refuses, a call fails, or the owner never returns.
Fails(r) ==
    /\ request[r].at \notin {"idle", "done"}
    /\ Over(r)
    /\ UNCHANGED settings

-----------------------------------------------------------------------------
Next ==
    \/ \E r \in Connects : AuthReads(r) \/ AuthWrites(r) \/ CallbackReads(r) \/ CallbackWrites(r)
    \/ \E r \in Disconnects : DisconnectReads(r) \/ DisconnectWrites(r)
    \/ \E r \in Refreshes : RefreshPosts(r) \/ RefreshReads(r) \/ RefreshWrites(r)
    \/ \E r \in Requests : Fails(r)

Spec == Init /\ [][Next]_vars

-----------------------------------------------------------------------------
(* Properties.                                                             *)

\* Every variable keeps its type.
TypeOK ==
    /\ settings \in Documents
    /\ request \in [Requests -> [at : {"idle", "auth", "away", "exchange", "revoke", "post",
                                       "refresh", "done"},
                                 read : Documents, used : Accounts]]

\* A connection has two tokens of one account, and no connection has none.  That is
\* broken only by a refresh that Google answered for another account than the one
\* connected when the answer was stored, or by a request that read it broken, at the
\* step that writes.
Sound(d) ==
    d.access = d.refresh /\ (d.connected <=> d.refresh # Nobody)
MixesOnlyByRefresh ==
    Sound(settings) /\ ~Sound(settings') =>
        \E r \in Requests :
           /\ request'[r].at # request[r].at
           /\ \/ request[r].at = "refresh" /\ request[r].used # request[r].read.refresh
              \/ request[r].at \in {"auth", "refresh"} /\ ~Sound(request[r].read)
TokensMixedOnlyByRefresh == [][MixesOnlyByRefresh]_vars
=============================================================================
