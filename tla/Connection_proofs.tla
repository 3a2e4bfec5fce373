------------------------- MODULE Connection_proofs --------------------------
(***************************************************************************)
(* Connection implements OAuthTokens: what holds of the token files under   *)
(* any use holds of them under the operator's.                              *)
(***************************************************************************)
EXTENDS Connection, OAuthTokens_proofs

\* Every step of the operator and of the reads behind a login is one of OAuthTokens, or
\* leaves the tokens alone.
LEMMA StepOfTokens == [CNext]_cvars => [Next]_vars
<1> SUFFICES ASSUME CNext
             PROVE  [Next]_vars
  BY DEF cvars
<1>1. CASE Ask \/ OpenLogin \/ TornMarker \/ ConfirmIncomplete \/ ClearLogin
  BY <1>1 DEF Ask, OpenLogin, TornMarker, ConfirmIncomplete, ClearLogin
<1>2. ASSUME NEW u \in Users, Account(u) \/ AccountRefused(u) \/ Read(u)
      PROVE  [Next]_vars
  BY <1>2 DEF Account, AccountRefused, Read, Next, Refreshers, Renew
<1>3. ASSUME NEW c \in Confirmers, Confirm(c) PROVE Next
  BY <1>3 DEF Confirm, Next
<1>4. ASSUME NEW o \in Operators, Acquire(o) PROVE Next
  BY <1>4 DEF Acquire, Next, Operate
<1> QED BY <1>1, <1>2, <1>3, <1>4 DEF CNext, Next

\* The connection, run by an operator, is an implementation of the token store.
THEOREM ConnectionImplementsTokens == CSpec => Spec
<1>1. CInit => Init
  BY DEF CInit
<1> QED BY <1>1, StepOfTokens, PTL DEF CSpec, Spec

LEMMA StatusActions == ASSUME CTypeOK PROVE ActionOf[Status] \in Actions
<1>1. marker \in {"absent", "present", "pending", "invalid"}
  BY DEF CTypeOK
<1>2. Status \in {"invalid", "pending", "expired", "connected", "token_missing", "not_authorized"}
  BY <1>1 DEF Status
<1> QED BY <1>2 DEF ActionOf, Actions

LEMMA CTypeStep == CTypeOK /\ TypeOK' /\ [CNext]_cvars => CTypeOK'
<1> SUFFICES ASSUME CTypeOK, TypeOK', [CNext]_cvars
             PROVE  CTypeOK'
  OBVIOUS
<1> USE DEF CTypeOK, Actions
<1>1. CASE UNCHANGED cvars
  BY <1>1 DEF cvars, conn
<1>2. CASE Ask \/ \E u \in Users : Account(u) \/ AccountRefused(u)
  BY <1>2, StatusActions DEF Ask, Account, AccountRefused
<1>3. CASE OpenLogin \/ TornMarker \/ ConfirmIncomplete \/ ClearLogin
  BY <1>3 DEF OpenLogin, TornMarker, ConfirmIncomplete, ClearLogin, conn
<1>4. ASSUME NEW c \in Confirmers, Confirm(c) PROVE CTypeOK'
  BY <1>4 DEF Confirm
<1>5. ASSUME NEW o \in Operators, Acquire(o) PROVE CTypeOK'
  BY <1>5 DEF Acquire
<1>6. CASE UNCHANGED conn
  BY <1>6 DEF conn
<1> QED BY <1>1, <1>2, <1>3, <1>4, <1>5, <1>6 DEF CNext

\* The marker and the advice keep their types: an action follows every status, be it none.
THEOREM ConnectionTypeCorrect == CSpec => []CTypeOK
<1>1. CInit => CTypeOK \/ ~TypeOK
  BY DEF CInit, CTypeOK, Actions
<1> QED BY <1>1, CTypeStep, ConnectionImplementsTokens, TokensTypeCorrect, PTL DEF CSpec

\* However the operator follows the status, confirms, reads and logs in: no overlap of the
\* refreshes behind that leaves a spent refresh token in hh_token.json.
THEOREM ConnectionKeepsRefreshGood == CSpec => []StoredRefreshIsGood
  BY ConnectionImplementsTokens, StoredRefreshStaysGood, PTL

\* And none of it loses a login that can be renewed.
THEOREM ConnectionKeepsLogin == CSpec => LoginSurvives
  BY ConnectionImplementsTokens, LoginIsKept, PTL
=============================================================================
