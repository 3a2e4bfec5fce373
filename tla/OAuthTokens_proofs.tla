------------------------- MODULE OAuthTokens_proofs -------------------------
(***************************************************************************)
(* The refresh tokens of OAuthTokens, for every set of calls, every number  *)
(* of grants and every kind of fault.                                       *)
(*                                                                          *)
(* A refresh token is spent by the call that sends it.  What must be ruled  *)
(* out is that another call holds the same one and puts it into the file:   *)
(* every record on its way into the file has a refresh token of its own     *)
(* (NewInFlight), and nobody sends a refresh token that is not in the file  *)
(* yet (NotSentYet).                                                        *)
(***************************************************************************)
EXTENDS OAuthTokens, TLAPS

\* c has a record that is not in the file yet.
InFlight(c) == /\ pc[c] \in {"open_json", "json_open", "json_gone"}
               /\ held[c].refresh # NoGrant

KnownGrants == /\ json.refresh \in 0..issued
               /\ \A c \in Calls : parent[c] \in 0..issued

NewInFlight ==
    \A c \in Calls : InFlight(c) =>
        /\ held[c].refresh \in alive
        /\ held[c].refresh # json.refresh
        /\ \A d \in Calls \ {c} : InFlight(d) => held[c].refresh # held[d].refresh

NotSentYet ==
    \A c, d \in Calls : InFlight(c) /\ pc[d] = "post" => held[c].refresh # parent[d]

IInv == TypeOK /\ KnownGrants /\ NewInFlight /\ NotSentYet /\ StoredRefreshIsGood

USE GrantsNatural DEF Grants, NoGrant
-----------------------------------------------------------------------------
LEMMA Constants == /\ Refreshers \subseteq Calls /\ Operators \subseteq Calls
                   /\ Users \subseteq Refreshers /\ Confirmers \subseteq Refreshers
  BY DEF Refreshers, Calls

LEMMA Records == NoRecord \in Record
  BY DEF NoRecord, Record

LEMMA InitInv == Init => IInv
  BY Records DEF Init, IInv, TypeOK, KnownGrants, NewInFlight, NotSentYet, InFlight,
     StoredRefreshIsGood, CanAsk, Loaded, NoRecord, Calls

\* A step of a call that changes no record, no grant and no place that matters.
LEMMA Harmless ==
  ASSUME IInv, NEW c \in Calls, NEW to \in {"idle", "reload"},
         pc[c] \in {"idle", "reload"}, pc' = [pc EXCEPT ![c] = to],
         UNCHANGED <<files, hh, locals, forgotten>>
  PROVE  IInv'
<1>1. TypeOK'
  BY DEF IInv, TypeOK, files, hh, locals
<1>2. KnownGrants'
  BY DEF IInv, KnownGrants, files, hh, locals
<1>3. \A d \in Calls : InFlight(d)' <=> InFlight(d)
  BY DEF IInv, TypeOK, InFlight, locals
<1>4. NewInFlight'
  BY <1>3 DEF IInv, NewInFlight, files, hh, locals
<1>5. NotSentYet'
  BY <1>3 DEF IInv, TypeOK, NotSentYet, locals
<1>6. StoredRefreshIsGood'
  BY Constants DEF IInv, TypeOK, StoredRefreshIsGood, CanAsk, Loaded, files, hh, locals
<1> QED BY <1>1, <1>2, <1>4, <1>5, <1>6 DEF IInv

LEMMA LoadInv == ASSUME IInv, NEW u \in Users, Load(u) PROVE IInv'
  BY Harmless, Constants DEF Load, Move

LEMMA ConfirmInv == ASSUME IInv, NEW c \in Confirmers, ConfirmTokens(c) PROVE IInv'
  BY Harmless, Constants DEF ConfirmTokens, Move

LEMMA ReloadInv == ASSUME IInv, NEW c \in Refreshers, Reload(c) PROVE IInv'
<1>0. c \in Calls
  BY Constants
<1>1. CASE CanAsk
  <2>1. /\ pc[c] = "reload" /\ pc' = [pc EXCEPT ![c] = "post"]
        /\ parent' = [parent EXCEPT ![c] = json.refresh]
        /\ UNCHANGED <<files, hh, held, forgotten>>
    BY <1>1 DEF Reload, Move
  <2>2. TypeOK'
    BY <2>1, <1>0 DEF IInv, TypeOK, files, hh, Record
  <2>3. KnownGrants'
    BY <2>1 DEF IInv, KnownGrants, TypeOK, files, hh
  <2>4. \A d \in Calls : InFlight(d)' <=> InFlight(d)
    BY <2>1 DEF IInv, TypeOK, InFlight
  <2>5. NewInFlight'
    BY <2>1, <2>4 DEF IInv, NewInFlight, files, hh
  <2>6. NotSentYet'
    BY <2>1, <2>4 DEF IInv, TypeOK, NotSentYet, NewInFlight
  <2>7. StoredRefreshIsGood'
    BY <2>1 DEF IInv, TypeOK, StoredRefreshIsGood, CanAsk, Loaded, files, hh
  <2> QED BY <2>2, <2>3, <2>5, <2>6, <2>7 DEF IInv
<1>2. CASE ~CanAsk
  BY <1>0, <1>2, Harmless DEF Reload, Move, locals
<1> QED BY <1>1, <1>2

\* HH knows the grants it has issued.
LEMMA IssueTypes ==
  ASSUME TypeOK, NEW spent, Issue(spent)
  PROVE  issued' \in 0..MaxGrants /\ alive' \subseteq 1..issued' /\ expired' \subseteq 1..issued'
<1>1. issued \in Nat /\ issued' = issued + 1 /\ issued' \in 0..MaxGrants
  BY DEF TypeOK, Issue
<1>2. \A g \in 1..issued : g \in 1..issued'
  BY <1>1
<1>3. alive \subseteq 1..issued' /\ expired \subseteq 1..issued' /\ issued + 1 \in 1..issued'
  BY <1>1, <1>2 DEF TypeOK
<1> QED BY <1>1, <1>3 DEF Issue

\* HH issues a grant in place of spent; nobody has it in flight.
LEMMA IssueInv ==
  ASSUME IInv, NEW spent, Issue(spent), NEW c \in Calls,
         NEW rec \in [access : {issued + 1}, refresh : {NoGrant, issued + 1}, dated : BOOLEAN],
         pc' = [pc EXCEPT ![c] = "open_json"], held' = [held EXCEPT ![c] = rec],
         pc[c] \in {"idle", "post"},
         \/ spent = {}
         \/ spent = {parent[c]} /\ c \in Refreshers /\ pc[c] = "post",
         UNCHANGED <<files, parent, forgotten>>
  PROVE  IInv'
<1>1. issued \in Nat /\ issued + 1 \in 1..MaxGrants /\ rec \in Record
  BY DEF IInv, TypeOK, Issue, Record
<1>2. TypeOK'
  <2>1. issued' \in 0..MaxGrants /\ alive' \subseteq 1..issued' /\ expired' \subseteq 1..issued'
    BY IssueTypes DEF IInv
  <2> QED BY <2>1, <1>1 DEF IInv, TypeOK, files
<1>3. KnownGrants'
  BY <1>1 DEF IInv, KnownGrants, Issue, files
<1>4. ASSUME NEW d \in Calls, InFlight(d)'
      PROVE  \/ d = c /\ held[d].refresh' = issued + 1 /\ pc'[d] = "open_json"
             \/ d # c /\ InFlight(d) /\ held[d].refresh' = held[d].refresh
  BY <1>4 DEF IInv, TypeOK, InFlight
<1>5. \A d \in Calls : InFlight(d) => held[d].refresh \in alive /\ held[d].refresh # issued + 1
  BY <1>1 DEF IInv, TypeOK, NewInFlight
<1>6. \A d \in Calls : InFlight(d) /\ d # c => held[d].refresh \in alive'
  BY <1>5 DEF IInv, NotSentYet, Issue
<1>7. json.refresh # issued + 1 /\ json' = json
  BY <1>1 DEF IInv, KnownGrants, files
<1>8. NewInFlight'
  <2> SUFFICES ASSUME NEW d \in Calls, InFlight(d)',
                      NEW e \in Calls \ {d}
               PROVE  /\ held[d].refresh' \in alive' /\ held[d].refresh' # json.refresh'
                      /\ InFlight(e)' => held[d].refresh' # held[e].refresh'
    BY <1>4, <1>6, <1>7 DEF NewInFlight, IInv, Issue
  <2>1. held[d].refresh' \in alive'
    BY <1>4, <1>6 DEF Issue
  <2>2. held[d].refresh' # json.refresh'
    BY <1>4, <1>7 DEF IInv, NewInFlight
  <2>3. InFlight(e)' => held[d].refresh' # held[e].refresh'
    BY <1>4, <1>5 DEF IInv, NewInFlight
  <2> QED BY <2>1, <2>2, <2>3
<1>9. NotSentYet'
  <2> SUFFICES ASSUME NEW d \in Calls, NEW e \in Calls, InFlight(d)', pc'[e] = "post"
               PROVE  held[d].refresh' # parent'[e]
    BY DEF NotSentYet
  <2>1. e # c /\ pc[e] = "post" /\ parent'[e] = parent[e] /\ parent[e] \in 0..issued
    BY DEF IInv, TypeOK, KnownGrants
  <2> QED BY <2>1, <1>1, <1>4 DEF IInv, NotSentYet
<1>10. StoredRefreshIsGood'
  <2> SUFFICES ASSUME CanAsk'
               PROVE  \/ json.refresh \in alive' \cup forgotten
                      \/ \E d \in Refreshers : pc'[d] = "open_json" /\ parent[d] = json.refresh
    BY <1>7 DEF StoredRefreshIsGood
  <2>1. CanAsk
    BY DEF CanAsk, Loaded, files
  <2>2. CASE json.refresh \in alive \cup forgotten
    BY <2>2 DEF Issue, IInv, TypeOK
  <2>3. ASSUME NEW d \in Refreshers, pc[d] = "open_json", parent[d] = json.refresh
        PROVE  pc'[d] = "open_json"
    BY <2>3, Constants DEF IInv, TypeOK
  <2> QED BY <2>1, <2>2, <2>3 DEF IInv, StoredRefreshIsGood
<1> QED BY <1>2, <1>3, <1>8, <1>9, <1>10 DEF IInv

LEMMA RefreshInv ==
  ASSUME IInv, NEW c \in Refreshers, NEW b \in BOOLEAN, NEW d \in BOOLEAN,
         Refresh(c, b, d)
  PROVE  IInv'
  BY IssueInv, Constants DEF Refresh, Move, Answered

LEMMA ObtainInv ==
  ASSUME IInv, NEW o \in Operators, Exchange(o) \/ SetToken(o)
  PROVE  IInv'
<1> DEFINE recs == [access : {issued + 1}, refresh : {NoGrant, issued + 1}, dated : BOOLEAN]
<1>1. PICK rec \in recs : Obtain(o, rec)
  BY DEF Exchange, SetToken, Answered
<1> QED BY <1>1, IssueInv, Constants DEF Obtain, Move

\* The answer is lost, the grant is not.
LEMMA LostInv == ASSUME IInv, NEW c \in Refreshers, RefreshLost(c) PROVE IInv'
<1>0. c \in Calls
  BY Constants
<1> USE DEF RefreshLost, Move, Issue, files
<1>1. issued \in Nat /\ issued + 1 \in 1..MaxGrants /\ parent[c] \in 1..issued
  BY <1>0 DEF IInv, TypeOK
<1>2. TypeOK'
  <2>1. issued' \in 0..MaxGrants /\ alive' \subseteq 1..issued' /\ expired' \subseteq 1..issued'
    BY IssueTypes DEF IInv
  <2>2. parent' \in [Calls -> Grants \cup {NoGrant}]
    BY DEF IInv, TypeOK
  <2>3. pc' \in [Calls -> {"idle", "reload", "post", "open_json", "json_open",
                          "json_gone", "plain", "clear_plain"}]
    BY DEF IInv, TypeOK
  <2>4. forgotten' \subseteq Grants
    <3>1. parent[c] \in Grants
      BY <1>0, <1>1 DEF IInv, TypeOK
    <3>2. forgotten' = forgotten \cup {parent[c]} /\ forgotten \subseteq Grants
      BY DEF IInv, TypeOK
    <3> QED BY <3>1, <3>2
  <2> QED BY <2>1, <2>2, <2>3, <2>4 DEF IInv, TypeOK
<1>3. KnownGrants'
  BY <1>0, <1>1 DEF IInv, KnownGrants, TypeOK
<1>4. \A d \in Calls : InFlight(d)' <=> InFlight(d)
  BY <1>0 DEF IInv, TypeOK, InFlight
<1>5. NewInFlight'
  <2>1. \A d \in Calls : InFlight(d) => held[d].refresh # parent[c]
    BY <1>0 DEF IInv, NotSentYet
  <2> QED BY <2>1, <1>4 DEF IInv, NewInFlight
<1>6. NotSentYet'
  BY <1>0, <1>4 DEF IInv, TypeOK, NotSentYet
<1>7. StoredRefreshIsGood'
  <2>1. \A d \in Refreshers : pc[d] = "open_json" => pc'[d] = "open_json" /\ parent'[d] = parent[d]
    BY <1>0, Constants DEF IInv, TypeOK
  <2> QED BY <2>1 DEF IInv, StoredRefreshIsGood, CanAsk, Loaded
<1> QED BY <1>2, <1>3, <1>5, <1>6, <1>7 DEF IInv

LEMMA FailsInv == ASSUME IInv, NEW c \in Refreshers, RefreshFails(c) PROVE IInv'
<1>0. c \in Calls
  BY Constants
<1> USE DEF RefreshFails, Move, files, hh
<1>1. TypeOK' /\ KnownGrants'
  BY <1>0 DEF IInv, TypeOK, KnownGrants
<1>2. \A d \in Calls : InFlight(d)' <=> InFlight(d)
  BY <1>0 DEF IInv, TypeOK, InFlight
<1>3. NewInFlight' /\ NotSentYet'
  BY <1>0, <1>2 DEF IInv, TypeOK, NewInFlight, NotSentYet
<1>4. StoredRefreshIsGood'
  <2>1. \A d \in Refreshers : pc[d] = "open_json" => pc'[d] = "open_json" /\ parent'[d] = parent[d]
    BY <1>0, Constants DEF IInv, TypeOK
  <2> QED BY <2>1 DEF IInv, StoredRefreshIsGood, CanAsk, Loaded
<1> QED BY <1>1, <1>3, <1>4 DEF IInv

LEMMA ExpireInv == ASSUME IInv, NEW g \in Grants, Expire(g) PROVE IInv'
<1> USE DEF Expire, files, locals
<1>1. TypeOK' /\ KnownGrants'
  BY DEF IInv, TypeOK, KnownGrants
<1>2. \A d \in Calls : InFlight(d)' <=> InFlight(d)
  BY DEF InFlight
<1> QED BY <1>1, <1>2 DEF IInv, NewInFlight, NotSentYet, StoredRefreshIsGood, CanAsk, Loaded
-----------------------------------------------------------------------------
\* The file is not readable: nothing to show of it.  Nothing new is on its way into it.
LEMMA EmptyFile ==
  ASSUME IInv, TypeOK', json' = NoRecord, jsonState' # "whole",
         \A d \in Calls : /\ InFlight(d)' => InFlight(d) /\ held'[d] = held[d]
                          /\ parent'[d] \in {parent[d], NoGrant}
                          /\ pc'[d] = "post" => pc[d] = "post" /\ parent'[d] = parent[d],
         UNCHANGED hh
  PROVE  IInv'
<1>1. NoRecord.refresh = 0
  BY DEF NoRecord
<1>2. KnownGrants'
  BY <1>1 DEF IInv, TypeOK, KnownGrants, hh
<1>3. NewInFlight'
  BY <1>1 DEF IInv, NewInFlight, InFlight, hh
<1>4. NotSentYet'
  BY DEF IInv, NotSentYet
<1>5. StoredRefreshIsGood'
  BY DEF StoredRefreshIsGood, CanAsk, Loaded
<1> QED BY <1>2, <1>3, <1>4, <1>5 DEF IInv

LEMMA OpenInv == ASSUME IInv, NEW c \in Calls, OpenJson(c) PROVE IInv'
<1>1. TypeOK'
  BY Records DEF OpenJson, Move, IInv, TypeOK, hh
<1> QED BY <1>1, EmptyFile DEF OpenJson, Move, IInv, TypeOK, InFlight

LEMMA ClearJsonInv == ASSUME IInv, NEW o \in Operators, ClearJson(o) PROVE IInv'
<1>1. TypeOK'
  BY Records DEF ClearJson, IInv, TypeOK, hh, locals
<1> QED BY <1>1, EmptyFile DEF ClearJson, IInv, TypeOK, InFlight, locals

\* A step after which c has nothing in flight, and which leaves the file.
LEMMA Landed ==
  ASSUME IInv, NEW c \in Calls, TypeOK', ~InFlight(c)', pc'[c] # "post",
         \A d \in Calls \ {c} : pc'[d] = pc[d] /\ held'[d] = held[d] /\ parent'[d] = parent[d],
         parent'[c] \in {parent[c], NoGrant}, forgotten \subseteq forgotten',
         pc[c] = "open_json" /\ parent[c] # NoGrant => parent[c] \in forgotten',
         UNCHANGED <<jsonState, json, hh>>
  PROVE  IInv'
<1>1. KnownGrants'
  BY DEF IInv, TypeOK, KnownGrants, hh
<1>2. \A d \in Calls : InFlight(d)' => InFlight(d) /\ d # c
  BY DEF InFlight
<1>3. NewInFlight'
  BY <1>2 DEF IInv, NewInFlight, hh
<1>4. NotSentYet'
  BY <1>2 DEF IInv, NotSentYet
<1>5. StoredRefreshIsGood'
  BY Constants DEF IInv, StoredRefreshIsGood, CanAsk, Loaded, hh
<1> QED BY <1>1, <1>3, <1>4, <1>5 DEF IInv

LEMMA KillInv == ASSUME IInv, NEW c \in Calls, Kill(c) PROVE IInv'
<1>1. TypeOK'
  BY Records DEF Kill, IInv, TypeOK, files, hh
<1> QED BY <1>1, Landed DEF Kill, IInv, TypeOK, InFlight, files

LEMMA WritePlainInv == ASSUME IInv, NEW c \in Calls, WritePlain(c) PROVE IInv'
<1>1. TypeOK'
  BY Records DEF WritePlain, Move, IInv, TypeOK, hh, Record
<1> QED BY <1>1, Landed DEF WritePlain, Move, IInv, TypeOK, InFlight

LEMMA ClearPlainInv == ASSUME IInv, NEW o \in Operators, ClearPlain(o) PROVE IInv'
<1>1. TypeOK' /\ o \in Calls
  BY Constants DEF ClearPlain, Move, IInv, TypeOK, hh, locals
<1> QED BY <1>1, Landed DEF ClearPlain, Move, IInv, TypeOK, InFlight, locals

\* What is written is the record the call holds, and it held it alone.
LEMMA WriteInv == ASSUME IInv, NEW c \in Calls, WriteJson(c) PROVE IInv'
<1> USE DEF WriteJson, Move, hh, locals
<1>1. TypeOK'
  BY Records DEF IInv, TypeOK
<1>2. ~InFlight(c)' /\ \A d \in Calls \ {c} : pc'[d] = pc[d]
  BY DEF IInv, TypeOK, InFlight
<1>3. CASE pc[c] = "json_open" /\ jsonState' = "whole" /\ json' = held[c]
  <2>1. held[c].refresh = NoGrant \/ InFlight(c)
    BY <1>3 DEF InFlight
  <2>2. KnownGrants'
    <3>1. held[c].refresh = 0 \/ held[c].refresh \in 1..issued
      BY <2>1 DEF IInv, TypeOK, NewInFlight
    <3>2. issued \in Nat
      BY DEF IInv, TypeOK
    <3>3. held[c].refresh \in 0..issued
      BY <3>1, <3>2
    <3> QED BY <1>3, <3>3 DEF IInv, TypeOK, KnownGrants
  <2>3. \A d \in Calls : InFlight(d)' => InFlight(d) /\ d # c
    BY <1>2 DEF InFlight
  <2>4. NewInFlight'
    BY <1>3, <2>1, <2>3 DEF IInv, NewInFlight, InFlight
  <2>5. NotSentYet'
    BY <1>2, <2>3 DEF IInv, TypeOK, NotSentYet
  <2>6. StoredRefreshIsGood'
    BY <1>3, <2>1 DEF IInv, NewInFlight, StoredRefreshIsGood, CanAsk
  <2> QED BY <1>1, <2>2, <2>4, <2>5, <2>6 DEF IInv
<1>4. CASE json' = NoRecord /\ jsonState' = "mixed"
  BY <1>1, <1>2, <1>4, EmptyFile DEF IInv, TypeOK, InFlight
<1>5. CASE pc[c] = "json_gone" /\ UNCHANGED <<jsonState, json>>
  BY <1>1, <1>2, <1>5, Landed DEF IInv, TypeOK
<1> QED BY <1>3, <1>4, <1>5
-----------------------------------------------------------------------------
LEMMA NextInv == IInv /\ [Next]_vars => IInv'
<1> SUFFICES ASSUME IInv, [Next]_vars
             PROVE  IInv'
  OBVIOUS
<1>1. CASE UNCHANGED vars
  BY <1>1 DEF vars, files, hh, locals, IInv, TypeOK, KnownGrants, NewInFlight, NotSentYet,
     InFlight, StoredRefreshIsGood, CanAsk, Loaded
<1>2. ASSUME NEW u \in Users, Load(u) PROVE IInv'
  BY <1>2, LoadInv
<1>3. ASSUME NEW c \in Confirmers, ConfirmTokens(c) PROVE IInv'
  BY <1>3, ConfirmInv
<1>4. ASSUME NEW c \in Refreshers, Renew(c) PROVE IInv'
  BY <1>4, ReloadInv, RefreshInv, LostInv, FailsInv DEF Renew
<1>5. ASSUME NEW c \in Calls, Save(c) \/ Kill(c) PROVE IInv'
  BY <1>5, OpenInv, WriteInv, WritePlainInv, KillInv DEF Save
<1>6. ASSUME NEW o \in Operators, Operate(o) PROVE IInv'
  BY <1>6, ObtainInv, ClearJsonInv, ClearPlainInv DEF Operate
<1>7. ASSUME NEW g \in Grants, Expire(g) PROVE IInv'
  BY <1>7, ExpireInv
<1> QED BY <1>1, <1>2, <1>3, <1>4, <1>5, <1>6, <1>7 DEF Next

\* The inductive invariant holds always.
LEMMA Always == Spec => []IInv
  BY InitInv, NextInv, PTL DEF Spec

\* Every variable keeps its type, whatever the calls, grants and faults.
THEOREM TokensTypeCorrect == Spec => []TypeOK
<1>1. IInv => TypeOK
  BY DEF IInv
<1> QED BY <1>1, Always, PTL

\* No overlap of refreshes leaves a spent refresh token in the file (save_token_record
\* after refresh_token_record), unless HH's answer was lost.
THEOREM StoredRefreshStaysGood == Spec => []StoredRefreshIsGood
<1>1. IInv => StoredRefreshIsGood
  BY DEF IInv
<1> QED BY <1>1, Always, PTL
-----------------------------------------------------------------------------
\* A refresh puts its new record in place of the one it spends, and spends no other
\* that is on its way.
LEMMA RefreshKeeps ==
  ASSUME IInv, NEW c \in Refreshers, Refresh(c, TRUE, TRUE), IInv'
  PROVE  Renewable'
<1>1. c \in Calls /\ pc'[c] = "open_json" /\ held'[c] = Answered(TRUE, TRUE)
  BY Constants DEF Refresh, Move, IInv, TypeOK
<1>2. held'[c].refresh \in alive' /\ held'[c].dated
  BY <1>1 DEF Answered, Refresh, Issue
<1> QED BY <1>1, <1>2 DEF Renewable, Good

LEMMA IssueKeeps ==
  ASSUME IInv, Renewable, NEW o \in Operators, Exchange(o) \/ SetToken(o)
  PROVE  Renewable'
<1>0. o \in Calls
  BY Constants
<1>1. PICK rec : Obtain(o, rec)
  BY DEF Exchange, SetToken
<1>2. alive \subseteq alive' /\ json' = json /\ jsonState' = jsonState
      /\ \A c \in Calls : pc[c] \in {"open_json", "json_open"} =>
                          pc'[c] = pc[c] /\ held'[c] = held[c]
  BY <1>0, <1>1 DEF Obtain, Issue, Move, IInv, TypeOK, files
<1> QED BY <1>2 DEF Renewable, Good, Loaded

\* Steps that leave the file, the grants and what is on its way into the file.
LEMMA IdleKeeps ==
  ASSUME IInv, Renewable, UNCHANGED <<jsonState, json, alive>>,
         \A c \in Calls : pc[c] \in {"open_json", "json_open"} =>
                         pc'[c] = pc[c] /\ held'[c] = held[c]
  PROVE  Renewable'
  BY DEF Renewable, Good, Loaded

LEMMA SaveKeeps ==
  ASSUME IInv, Renewable, NEW c \in Calls, Save(c), ~Disturbed
  PROVE  Renewable'
<1>1. CASE OpenJson(c)
  <2>1. Good(held[c])
    BY <1>1 DEF Disturbed
  <2> QED BY <1>1, <2>1 DEF OpenJson, Move, Renewable, Good, IInv, TypeOK, hh
<1>2. CASE WriteJson(c)
  <2>1. Good(held[c]) /\ jsonState' # "mixed"
    BY <1>2 DEF Disturbed
  <2>2. CASE jsonState' = "whole" /\ json' = held[c]
    BY <1>2, <2>1, <2>2 DEF WriteJson, Renewable, Good, Loaded, hh
  <2>3. CASE Move(c, "json_gone", "plain") /\ UNCHANGED <<jsonState, json>>
    BY <1>2, <2>3, IdleKeeps DEF WriteJson, Move, IInv, TypeOK, hh, locals
  <2> QED BY <1>2, <2>1, <2>2, <2>3 DEF WriteJson
<1>3. CASE WritePlain(c)
  BY <1>3, IdleKeeps DEF WritePlain, Move, IInv, TypeOK, hh
<1> QED BY <1>1, <1>2, <1>3 DEF Save

\* Every step of the specification keeps the login or is one of those that may not.
LEMMA StepKeeps ==
  ASSUME IInv, IInv', Next, Renewable, ~Disturbed
  PROVE  Renewable'
<1> USE DEF Move, IInv, TypeOK, files, hh, locals
<1>1. ASSUME NEW u \in Users, Load(u) PROVE Renewable'
  BY <1>1, IdleKeeps, Constants DEF Load
<1>2. ASSUME NEW c \in Confirmers, ConfirmTokens(c) PROVE Renewable'
  BY <1>2, IdleKeeps, Constants DEF ConfirmTokens
<1>3. ASSUME NEW c \in Refreshers, Renew(c) PROVE Renewable'
  <2>1. CASE Reload(c)
    BY <2>1, IdleKeeps, Constants DEF Reload
  <2>2. CASE RefreshFails(c)
    BY <2>2, IdleKeeps, Constants DEF RefreshFails
  <2>3. /\ ~RefreshLost(c) /\ ~Refresh(c, TRUE, FALSE)
        /\ \A dated \in BOOLEAN : ~Refresh(c, FALSE, dated)
    BY DEF Disturbed
  <2> QED BY <1>3, <2>1, <2>2, <2>3, RefreshKeeps DEF Renew
<1>4. ASSUME NEW c \in Calls, Save(c) \/ Kill(c) PROVE Renewable'
  BY <1>4, SaveKeeps DEF Disturbed
<1>5. ASSUME NEW o \in Operators, Operate(o) PROVE Renewable'
  <2>1. CASE ClearPlain(o)
    BY <2>1, IdleKeeps, Constants DEF ClearPlain
  <2>2. ~ClearJson(o)
    BY DEF Disturbed
  <2> QED BY <1>5, <2>1, <2>2, IssueKeeps DEF Operate
<1>6. ASSUME NEW g \in Grants, Expire(g) PROVE Renewable'
  BY <1>6, IdleKeeps DEF Expire
<1> QED BY <1>1, <1>2, <1>3, <1>4, <1>5, <1>6 DEF Next

\* Refreshes that overlap, fail or are refused keep a login that can be renewed: only a
\* killed process, a lost or bare answer, a clear, a set or two writes at once take it.
THEOREM LoginIsKept == Spec => LoginSurvives
<1>1. IInv /\ IInv' /\ [Next]_vars => [Renewable /\ ~Renewable' => Disturbed]_vars
  BY StepKeeps
<1> QED BY <1>1, Always, PTL DEF Spec, LoginSurvives
=============================================================================
