----------------------------- MODULE Connection -----------------------------
(***************************************************************************)
(* The connection status (connection.py, recovery.py), the account read     *)
(* (profile.py) and an operator who does what their action says: the marker *)
(* of session.json over the token files of OAuthTokens.                     *)
(*                                                                          *)
(* Abstractions.  Chromium is installed.  The login window and what         *)
(* confirm_login sees of it are outcomes of a step; ProfileAccess has their *)
(* steps.  The status is read in one step: it is of one moment, and one     *)
(* with an egress check or a read that fails has no action and is left out. *)
(* The account reads the files twice, for the status and for the token;     *)
(* that is one step, so a token that is gone in between is left out.        *)
(***************************************************************************)
EXTENDS OAuthTokens

VARIABLES
    marker,   \* session.json: "absent", "pending", "present" or "invalid"
    advice    \* the action of the last status, "none" once it is done

conn  == <<marker, advice>>
cvars == <<vars, conn>>

Actions == {"none", "open_login", "confirm_login", "acquire_token", "reconnect"}

CTypeOK == /\ TypeOK
           /\ marker \in {"absent", "pending", "present", "invalid"}
           /\ advice \in Actions

CInit == Init /\ marker = "absent" /\ advice = "none"
-----------------------------------------------------------------------------
(* The status, and what it tells the operator to do.                       *)

\* token_status: access_token_present
TokenPresent == Loaded \/ plain # NoGrant

MutantStatus ==                                   \* an expired token is looked at first
    CASE Expired                                     -> "expired"
      [] ~Expired /\ marker = "invalid"              -> "invalid"
      [] ~Expired /\ marker = "pending"              -> "pending"
      [] ~Expired /\ marker = "present" /\ TokenPresent -> "connected"
      [] ~Expired /\ marker = "present" /\ ~TokenPresent -> "token_missing"
      [] ~Expired /\ marker = "absent"               -> "not_authorized"

\* _connection_status_raw, as the code of its answer.
Status ==
    CASE marker = "invalid"                          -> "invalid"
      [] marker = "pending"                          -> "pending"
      [] marker \in {"absent", "present"} /\ Expired -> "expired"
      [] marker = "present" /\ ~Expired /\ TokenPresent -> "connected"
      [] marker = "present" /\ ~TokenPresent         -> "token_missing"
      [] marker = "absent" /\ ~Expired               -> "not_authorized"

MutantActionOf ==                                 \* the way out of another surface
    [invalid |-> "none", pending |-> "confirm_challenge", expired |-> "reconnect",
     connected |-> "none", token_missing |-> "acquire_token",
     not_authorized |-> "open_login"]

ActionOf == [invalid |-> "none", pending |-> "confirm_login", expired |-> "reconnect",
             connected |-> "none", token_missing |-> "acquire_token",
             not_authorized |-> "open_login"]

\* GET /api/v1/connection
Ask ==
    /\ advice = "none"
    /\ advice' = ActionOf[Status]
    /\ UNCHANGED <<vars, marker>>

\* The account: the same, and behind `connected` the answer of HH to GET /me, which
\* refuses an expired access token whatever the files say of it.
Account(u) ==
    /\ advice = "none"
    /\ IF Status = "connected"
       THEN /\ Load(u)
            /\ advice' = IF pc'[u] = "idle" /\ Served \in expired THEN "reconnect" ELSE "none"
       ELSE /\ advice' = ActionOf[Status]
            /\ UNCHANGED vars
    /\ UNCHANGED marker

\* It has tried to renew an expired token in vain, and HH refuses the old one.
AccountRefused(u) ==
    /\ advice = "none" /\ Served \in expired
    /\ advice' = "reconnect"
    /\ RefreshFails(u)
    /\ UNCHANGED marker
-----------------------------------------------------------------------------
(* What the operator does.                                                 *)

\* open_login writes the marker before it starts the window; a refusal (no display,
\* no egress) comes earlier.
OpenLogin ==
    /\ advice \in {"open_login", "reconnect"}
    /\ \/ marker' = "pending" /\ advice' = "none"
       \/ UNCHANGED conn
    /\ UNCHANGED vars

\* open_login or confirm_login, killed in the middle of writing the marker.
TornMarker ==
    /\ "killed" \in Faults
    /\ advice \in {"open_login", "reconnect", "confirm_login"}
    /\ marker' = "invalid"
    /\ advice' = "none"
    /\ UNCHANGED vars

\* confirm_login, when the browser shows no login form: marker, then tokens.
Confirm(c) ==
    /\ advice = "confirm_login"
    /\ advice' = "none"
    /\ marker' = "present"
    /\ ConfirmTokens(c)

\* The browser shows that the login is not done.
ConfirmIncomplete ==
    /\ advice = "confirm_login"
    /\ marker' = "pending"
    /\ UNCHANGED <<vars, advice>>

\* auth oauth-acquire or exchange-code
Acquire(o) ==
    /\ advice = "acquire_token"
    /\ advice' = "none"
    /\ Exchange(o)
    /\ UNCHANGED marker

\* clear_login
ClearLogin ==
    /\ marker' = "absent"
    /\ UNCHANGED <<vars, advice>>

\* require_authenticated_read: a token is looked for behind a confirmed login only.
Read(u) == marker = "present" /\ Load(u)

CNext ==
    \/ Ask \/ OpenLogin \/ TornMarker \/ ConfirmIncomplete \/ ClearLogin
    \/ \E u \in Users : Account(u) \/ AccountRefused(u)
    \/ \E c \in Confirmers : Confirm(c)
    \/ \E o \in Operators : Acquire(o)
    \/ /\ \/ \E u \in Users : Read(u)
          \/ \E c \in Refreshers : Renew(c)
          \/ \E c \in Calls : Save(c) \/ Kill(c)
          \/ \E o \in Operators : Operate(o)
          \/ \E g \in Grants : Expire(g)
       /\ UNCHANGED conn

CSpec == CInit /\ [][CNext]_cvars

\* A started handler goes on.  The operator asks and does what the answer says until it is
\* done; HH refreshes and exchanges some time, if it is tried often enough.
CFairness ==
    /\ \A c \in Confirmers : WF_cvars(Renew(c) /\ UNCHANGED conn)
    /\ \A c \in Calls : WF_cvars(Save(c) /\ UNCHANGED conn)
    /\ \A o \in Operators : WF_cvars(ClearPlain(o) /\ UNCHANGED conn)
    /\ WF_cvars(Ask)
    /\ WF_cvars(OpenLogin /\ marker' = "pending")
    /\ \A c \in Confirmers : /\ WF_cvars(Confirm(c))
                             /\ SF_cvars(Refresh(c, TRUE, TRUE) /\ UNCHANGED conn)
    /\ \A o \in Operators : SF_cvars(Acquire(o))

CFairSpec == CSpec /\ CFairness
-----------------------------------------------------------------------------
(* Properties.                                                             *)

\* From some time on nothing is killed and nobody logs out.
Calm == <>[][~ClearLogin /\ \A c \in Calls : ~Kill(c)]_cvars

\* There is no token at all, or one that HH will renew; the marker is readable.
Leads == /\ marker # "invalid"
         /\ \/ Renewable
            \/ ~Loaded /\ plain = NoGrant

\* While this is so, an operator who does what the status says gets to `connected`: no
\* order of expiry, login, refresh and other calls sends him round in circles.
FollowingConnects ==
    Calm => (Leads ~> Status = "connected" \/ ~Leads \/ issued = MaxGrants)
=============================================================================
