---------------------------- MODULE OAuthTokens ----------------------------
(***************************************************************************)
(* The OAuth tokens of the connector (oauth.py, live_auth.py): the files    *)
(* hh_token.json and access_token, which three kinds of calls share without *)
(* a lock:                                                                  *)
(*   - Users: load_access_token, before every authenticated read;           *)
(*   - Confirmers: the token refresh at the end of confirm_login;           *)
(*   - Operators: exchange-code, oauth-acquire, set-token, clear-token.     *)
(* HH is external: it issues grants (an access and a refresh token), an     *)
(* access token expires, and a refresh token is good for one refresh.       *)
(*                                                                          *)
(* write_text truncates hh_token.json when it opens it and fills it when it *)
(* closes it; that is two steps, for the file may be unlinked, or written   *)
(* by another call, in between.  The plain file, a copy that is read only   *)
(* when hh_token.json is not readable, is written in one step.              *)
(* JOB_SEARCH_HH_ACCESS_TOKEN is not set: a token from the environment      *)
(* bypasses the files.                                                      *)
(*                                                                          *)
(* A definition named Mutant... is the one that follows it with a plausible *)
(* bug; no specification uses it.                                           *)
(***************************************************************************)
EXTENDS Naturals

CONSTANTS Users, Confirmers, Operators,
          MaxGrants,   \* bound: grants HH issues
          Faults       \* which of FaultKinds may happen

FaultKinds == {"killed", "lost", "bare"}

ASSUME DistinctCalls == /\ Users \cap Confirmers = {}
                        /\ Users \cap Operators = {}
                        /\ Confirmers \cap Operators = {}
ASSUME GrantsNatural == MaxGrants \in Nat
ASSUME KnownFaults   == Faults \subseteq FaultKinds

Refreshers == Users \cup Confirmers
Calls      == Refreshers \cup Operators
Grants     == 1..MaxGrants
NoGrant    == 0
Record     == [access : 0..MaxGrants,     \* the grant of its access token
               refresh : 0..MaxGrants,    \* the grant of its refresh token, or NoGrant
               dated : BOOLEAN]           \* with expires_at
NoRecord   == [access |-> NoGrant, refresh |-> NoGrant, dated |-> FALSE]

VARIABLES
    jsonState,  \* hh_token.json: "absent", "empty" (truncated), "whole" or "mixed"
    json,       \* the record in it when it is whole
    plain,      \* access_token: a grant, or NoGrant
    issued,     \* HH: how many grants it has issued
    alive,      \* HH: grants whose refresh token is still good
    expired,    \* HH: grants whose access token has expired
    pc,         \* where each call stands
    parent,     \* parent[c]: the grant whose refresh token it sends
    held,       \* held[c]: the record it is saving
    forgotten   \* grants whose successor HH issued and nobody got (history)

files == <<jsonState, json, plain>>
hh    == <<issued, alive, expired>>
locals == <<parent, held>>
vars  == <<files, hh, pc, locals, forgotten>>

TypeOK ==
    /\ jsonState \in {"absent", "empty", "whole", "mixed"}
    /\ json \in Record
    /\ plain \in 0..MaxGrants
    /\ issued \in 0..MaxGrants
    /\ alive \subseteq 1..issued
    /\ expired \subseteq 1..issued
    /\ pc \in [Calls -> {"idle", "reload", "post", "open_json", "json_open",
                         "json_gone", "plain", "clear_plain"}]
    /\ parent \in [Calls -> Grants \cup {NoGrant}]
    /\ held \in [Calls -> Record]
    /\ forgotten \subseteq Grants

Init ==
    /\ jsonState = "absent" /\ json = NoRecord /\ plain = NoGrant
    /\ issued = 0 /\ alive = {} /\ expired = {}
    /\ pc = [c \in Calls |-> "idle"]
    /\ parent = [c \in Calls |-> NoGrant]
    /\ held = [c \in Calls |-> NoRecord]
    /\ forgotten = {}

Move(c, from, to) == /\ pc[c] = from
                     /\ pc' = [pc EXCEPT ![c] = to]
-----------------------------------------------------------------------------
(* Reading the store.                                                      *)

\* load_token_record finds a record
Loaded  == jsonState = "whole"
Expired == Loaded /\ json.dated /\ json.access \in expired
CanAsk  == Loaded /\ json.refresh # NoGrant

\* What load_access_token returns if it does not renew.
Served == IF ~Loaded THEN plain
          ELSE IF Expired /\ ~CanAsk THEN NoGrant ELSE json.access

\* load_access_token renews a token that has expired or is in its last minute, if it can.
Load(u) ==
    /\ \/ Move(u, "idle", "idle") /\ ~(Expired /\ CanAsk)
       \/ Move(u, "idle", "reload") /\ json.dated /\ CanAsk
    /\ UNCHANGED <<files, hh, locals, forgotten>>

\* confirm_login: an expired token is renewed.
ConfirmTokens(c) ==
    /\ Move(c, "idle", IF Expired /\ CanAsk THEN "reload" ELSE "idle")
    /\ UNCHANGED <<files, hh, locals, forgotten>>

\* refresh_token_record reads the file again: another call may have changed it.
Reload(c) ==
    /\ IF CanAsk
       THEN Move(c, "reload", "post") /\ parent' = [parent EXCEPT ![c] = json.refresh]
       ELSE Move(c, "reload", "idle") /\ UNCHANGED parent
    /\ UNCHANGED <<files, hh, held, forgotten>>
-----------------------------------------------------------------------------
(* HH (external), and the calls that ask it.                               *)

\* The next grant, in place of the grants in spent.
Issue(spent) ==
    /\ issued < MaxGrants
    /\ issued' = issued + 1
    /\ alive' = (alive \ spent) \cup {issued + 1}
    /\ UNCHANGED expired

\* The record made of HH's answer, which may be bare: without a refresh token or without
\* expires_in.
Answered(withRefresh, dated) == [access |-> issued + 1,
                                 refresh |-> IF withRefresh THEN issued + 1 ELSE NoGrant,
                                 dated |-> dated]

MutantRefresh(c, withRefresh, dated) ==           \* the stored refresh token is kept
    /\ parent[c] \in alive
    /\ Move(c, "post", "open_json")
    /\ Issue({parent[c]})
    /\ held' = [held EXCEPT ![c] = [Answered(withRefresh, dated) EXCEPT !.refresh = parent[c]]]
    /\ UNCHANGED <<files, parent, forgotten>>

\* HH takes the refresh token and answers.
Refresh(c, withRefresh, dated) ==
    /\ parent[c] \in alive
    /\ Move(c, "post", "open_json")
    /\ Issue({parent[c]})
    /\ held' = [held EXCEPT ![c] = Answered(withRefresh, dated)]
    /\ UNCHANGED <<files, parent, forgotten>>

\* HH takes the refresh token, and its answer is lost.
RefreshLost(c) ==
    /\ "lost" \in Faults
    /\ parent[c] \in alive
    /\ Move(c, "post", "idle")
    /\ Issue({parent[c]})
    /\ forgotten' = forgotten \cup {parent[c]}
    /\ parent' = [parent EXCEPT ![c] = NoGrant]
    /\ UNCHANGED <<files, held>>

MutantRefreshFails(c) ==                          \* a refused refresh wipes the file
    /\ Move(c, "post", "idle")
    /\ parent' = [parent EXCEPT ![c] = NoGrant]
    /\ jsonState' = "absent" /\ json' = NoRecord
    /\ UNCHANGED <<plain, hh, held, forgotten>>

\* HH refuses (always, when the refresh token is spent), is not reached, or the client
\* settings are missing: the OAuthError is suppressed and the old token returned.
RefreshFails(c) ==
    /\ Move(c, "post", "idle")
    /\ parent' = [parent EXCEPT ![c] = NoGrant]
    /\ UNCHANGED <<files, hh, held, forgotten>>

\* exchange_authorization_code, and set_access_token with a token of a grant of its own.
Obtain(o, rec) ==
    /\ Move(o, "idle", "open_json")
    /\ Issue({})
    /\ held' = [held EXCEPT ![o] = rec]
    /\ UNCHANGED <<files, parent, forgotten>>

Exchange(o) == \E withRefresh, dated \in BOOLEAN :
                   /\ (withRefresh /\ dated) \/ "bare" \in Faults
                   /\ Obtain(o, Answered(withRefresh, dated))
SetToken(o) == \E withRefresh, dated \in BOOLEAN : Obtain(o, Answered(withRefresh, dated))

\* The lifetime of an access token is over.
Expire(g) ==
    /\ g \in 1..issued \ expired
    /\ expired' = expired \cup {g}
    /\ UNCHANGED <<files, issued, alive, pc, locals, forgotten>>
-----------------------------------------------------------------------------
(* save_token_record and clear_token_record                                *)

OpenJson(c) ==
    /\ Move(c, "open_json", "json_open")
    /\ jsonState' = "empty" /\ json' = NoRecord
    /\ parent' = [parent EXCEPT ![c] = NoGrant]
    /\ UNCHANGED <<plain, hh, held, forgotten>>

\* The file is filled.  Over what another call wrote since it was opened, a shorter text
\* leaves a tail that makes the file unreadable; a file unlinked since stays away.
WriteJson(c) ==
    /\ \/ /\ Move(c, "json_open", "plain")
          /\ jsonState' = "whole" /\ json' = held[c]
       \/ /\ Move(c, "json_open", "plain")
          /\ jsonState \in {"whole", "mixed"}
          /\ jsonState' = "mixed" /\ json' = NoRecord
       \/ /\ Move(c, "json_gone", "plain")
          /\ UNCHANGED <<jsonState, json>>
    /\ UNCHANGED <<plain, hh, locals, forgotten>>

\* The save is over; a refresh returns the new token.
WritePlain(c) ==
    /\ Move(c, "plain", "idle")
    /\ plain' = held[c].access
    /\ held' = [held EXCEPT ![c] = NoRecord]
    /\ UNCHANGED <<jsonState, json, hh, parent, forgotten>>

\* An unlinked file is out of reach of those who have it open.
ClearJson(o) ==
    /\ pc[o] = "idle"
    /\ pc' = [c \in Calls |-> IF c = o THEN "clear_plain"
                             ELSE IF pc[c] = "json_open" THEN "json_gone" ELSE pc[c]]
    /\ jsonState' = "absent" /\ json' = NoRecord
    /\ UNCHANGED <<plain, hh, locals, forgotten>>

ClearPlain(o) ==
    /\ Move(o, "clear_plain", "idle")
    /\ plain' = NoGrant
    /\ UNCHANGED <<jsonState, json, hh, locals, forgotten>>

\* The process of a call is killed, with what it holds.
Kill(c) ==
    /\ "killed" \in Faults
    /\ pc[c] # "idle"
    /\ pc' = [pc EXCEPT ![c] = "idle"]
    /\ forgotten' = IF pc[c] = "open_json" /\ parent[c] # NoGrant
                    THEN forgotten \cup {parent[c]} ELSE forgotten
    /\ parent' = [parent EXCEPT ![c] = NoGrant]
    /\ held' = [held EXCEPT ![c] = NoRecord]
    /\ UNCHANGED <<files, hh>>
-----------------------------------------------------------------------------
Renew(c) ==
    \/ Reload(c)
    \/ \E withRefresh, dated \in BOOLEAN :
           /\ (withRefresh /\ dated) \/ "bare" \in Faults
           /\ Refresh(c, withRefresh, dated)
    \/ RefreshLost(c) \/ RefreshFails(c)

Save(c) == OpenJson(c) \/ WriteJson(c) \/ WritePlain(c)

Operate(o) == Exchange(o) \/ SetToken(o) \/ ClearJson(o) \/ ClearPlain(o)

Next ==
    \/ \E u \in Users : Load(u)
    \/ \E c \in Confirmers : ConfirmTokens(c)
    \/ \E c \in Refreshers : Renew(c)
    \/ \E c \in Calls : Save(c) \/ Kill(c)
    \/ \E o \in Operators : Operate(o)
    \/ \E g \in Grants : Expire(g)

Spec == Init /\ [][Next]_vars
-----------------------------------------------------------------------------
(* Properties.                                                             *)

\* A refresh token in hh_token.json is good, unless the answer to its use is on its way
\* into the file, or was lost: no two calls, however they overlap, leave a spent one.
StoredRefreshIsGood ==
    CanAsk => \/ json.refresh \in alive \cup forgotten
              \/ \E c \in Refreshers : pc[c] = "open_json" /\ parent[c] = json.refresh

\* A record that HH will renew is in the file, or in the hands of a call that fills it.
Good(rec) == rec.refresh \in alive /\ rec.dated
Renewable ==
    \/ Loaded /\ Good(json)
    \/ \E c \in Calls : pc[c] \in {"open_json", "json_open"} /\ Good(held[c])

\* What may take it away: a killed process, an answer that is lost or bare, a clear,
\* another token set by the operator, two writes of the file at once.
Disturbed ==
    \/ \E c \in Calls : Kill(c)
    \/ \E c \in Refreshers : \/ RefreshLost(c)
                             \/ \E dated \in BOOLEAN : Refresh(c, FALSE, dated)
                             \/ Refresh(c, TRUE, FALSE)
    \/ \E o \in Operators : ClearJson(o)
    \/ \E c \in Calls : (OpenJson(c) \/ WriteJson(c)) /\ ~Good(held[c])
    \/ jsonState' = "mixed"

\* Nothing else does: refreshes that overlap, fail or are refused keep the login.
LoginSurvives == [][Renewable /\ ~Renewable' => Disturbed]_vars
=============================================================================
