-------------------------- MODULE ChallengeHandoff --------------------------
(***************************************************************************)
(* The CAPTCHA that stops a search, and how an operator clears it          *)
(* (challenge_handoff.py): challenge_active.json and challenge-browser.pid *)
(* in the state volume, shared by                                          *)
(*   - Captors: searches whose page shows a challenge; they store it while *)
(*     the page is live and file it again after the browser is closed;     *)
(*   - Openers: open_challenge_browser, which shows the challenge in a     *)
(*     window of its own process and then writes the file back;            *)
(*   - Confirmers: confirm_challenge_cleared, which looks at that window,  *)
(*     stops it, probes HH and removes the file or writes it back.         *)
(* All read the file, work for seconds or minutes, and write or remove it  *)
(* whole.  HH raises the gate when it likes; the operator solves it in an  *)
(* open window.                                                            *)
(*                                                                         *)
(* Abstractions.  The profile has one user at a time: the lock and the     *)
(* live Chromium are one variable (ProfileAccess has the steps of the lock *)
(* file and what goes wrong with them).  Screenshots, progress, titles and *)
(* the Telegram message are left out, so captured stands for captured and  *)
(* captured_no_screenshot.  The confirm_login at the end of a confirm is   *)
(* that of ProfileAccess.                                                  *)
(*                                                                         *)
(* A definition named Mutant... is the one that follows it with a          *)
(* plausible bug; no specification uses it.                                *)
(***************************************************************************)
EXTENDS Naturals

CONSTANTS Captors, Openers, Confirmers,
          None,           \* no process, no challenge
          MaxGates,       \* bound: how often HH raises the gate
          MaxWindows      \* bound: how often the operator asks for the window

Handlers == Captors \cup Openers \cup Confirmers

ASSUME DistinctKinds == /\ Captors \cap (Openers \cup Confirmers) = {}
                        /\ Openers \cap Confirmers = {}
ASSUME DistinctNone  == None \notin Handlers
ASSUME BoundsNatural == MaxGates \in Nat /\ MaxWindows \in Nat

\* What confirms the challenge: its URL, only its title or DOM signals, nothing; or
\* it is confirmed but has no URL.
Evidence  == {"url", "dom", "false", "bare"}
Confirmed == {"url", "dom"}
Statuses  == {"captured", "capture_failed", "captcha_capture_invalid", "unset"}
Places    == {"idle", "reading", "close", "handoff", "closeBare", "handoffBare", "notify", "done",
              "check", "opened", "inspect", "writeBack", "stop", "recheck",
              "probe", "probing", "keep", "clear"}

Challenge == [run : Captors \cup {None}, evidence : Evidence, status : Statuses,
              recovery : BOOLEAN, pid : Openers \cup {None}]

ASSUME NoneIsNoChallenge == None \notin Challenge

VARIABLES
    pc,            \* where each handler stands
    read,          \* read[a]: the challenge it read or made, or None
    stored,        \* challenge_active.json, or None: no file
    pidFile,       \* challenge-browser.pid, or None: no file
    window,        \* window[o]: the process that opener o spawned
    user,          \* who has the profile: its lock and a live Chromium
    gated,         \* whether HH shows the challenge to this session
    proven,        \* runs that met no challenge since the last good probe
    gates, windows \* how often so far

file   == <<stored, pidFile>>
world  == <<window, user, gated>>
counts == <<proven, gates, windows>>
vars   == <<pc, read, file, world, counts>>

TypeOK ==
    /\ pc \in [Handlers -> Places]
    /\ read \in [Handlers -> Challenge \cup {None}]
    /\ stored \in Challenge \cup {None}
    /\ pidFile \in Openers \cup {None}
    /\ window \in [Openers -> {"none", "starting", "open", "dying"}]
    /\ user \in Handlers \cup {None}
    /\ gated \in BOOLEAN
    /\ proven \subseteq Captors
    /\ gates \in 0..MaxGates
    /\ windows \in 0..MaxWindows

Init ==
    /\ pc = [a \in Handlers |-> "idle"]
    /\ read = [a \in Handlers |-> None]
    /\ stored = None /\ pidFile = None
    /\ window = [o \in Openers |-> "none"]
    /\ user = None
    /\ gated = FALSE
    /\ proven = Captors
    /\ gates = 0 /\ windows = 0

Move(a, from, to) == /\ pc[a] = from
                     /\ pc' = [pc EXCEPT ![a] = to]

\* A handler ends, and its locals with it.
End(a, from, to) == /\ Move(a, from, to)
                    /\ read' = [read EXCEPT ![a] = None]
-----------------------------------------------------------------------------
(* The record.                                                             *)

MutantClassify(evidence) ==                        \* a class of its own, which no reader knows
    IF evidence = "dom" THEN "captured_by_title"
    ELSE IF evidence = "false" THEN "captcha_capture_invalid"
    ELSE IF evidence = "bare" THEN "capture_failed" ELSE "captured"

\* classify_capture with all the evidence there is.
Classify(evidence) ==
    CASE evidence \in Confirmed -> "captured"
      [] evidence = "false" -> "captcha_capture_invalid"
      [] evidence = "bare" -> "capture_failed"

\* write_challenge_state
NewChallenge(k, evidence) ==
    [run |-> k, evidence |-> evidence, status |-> Classify(evidence),
     recovery |-> evidence \in Confirmed, pid |-> None]

\* Without title and signals only the URL confirms.
UrlAlone(evidence) == IF evidence = "dom" THEN "false" ELSE evidence

MutantRefiled(s) ==                                \* every URL is recoverable
    [s EXCEPT !.status = Classify(UrlAlone(s.evidence)), !.recovery = s.evidence # "bare"]

\* begin_challenge_handoff classifies what it was given again, by its URL alone.
Refiled(s) ==
    [s EXCEPT !.status = Classify(UrlAlone(s.evidence)), !.recovery = s.evidence = "url"]

\* What open_challenge_browser makes of no file and a URL from its caller.
Phantom == [run |-> None, evidence |-> "bare", status |-> "unset", recovery |-> FALSE,
            pid |-> None]

HasUrl(s) == s.evidence # "bare"

\* recovery_available_from_state; the last case has no such field, so a URL decides.
Recoverable(s, urlGiven) ==
    /\ s.status # "captcha_capture_invalid" /\ s.evidence # "false"
    /\ s.recovery \/ (s.status = "unset" /\ urlGiven)

\* public_challenge_view shows an active challenge.
Visible == /\ stored # None
           /\ stored.status # "captcha_capture_invalid" /\ stored.evidence # "false"
-----------------------------------------------------------------------------
(* A search: lock, read, and on a challenge capture, close, file.          *)

StartReading(k) ==
    /\ user = None
    /\ Move(k, "idle", "reading")
    /\ user' = k
    /\ UNCHANGED <<read, file, window, gated, counts>>

\* No challenge until the end of the search.
FinishReading(k) ==
    /\ Move(k, "reading", "done")
    /\ user' = None
    /\ UNCHANGED <<read, file, window, gated, counts>>

\* capture_and_persist_live_challenge: a page detector may be wrong at any time; then
\* the page or card counts as failed and the search goes on.
Capture(k, evidence) ==
    /\ evidence # "false" => gated
    /\ Move(k, "reading", IF evidence = "false" THEN "reading" ELSE "close")
    /\ stored' = NewChallenge(k, evidence)
    /\ read' = [read EXCEPT ![k] = IF evidence = "false" THEN None ELSE stored']
    /\ proven' = proven \ {k}
    /\ UNCHANGED <<pidFile, world, gates, windows>>

\* The capture raised: begin_challenge_handoff makes the record, of the URL and, when the
\* page was a vacancy's, of its title (that of a page without a URL is left out).
CaptureFails(k, evidence) ==
    /\ evidence # "bare"
    /\ evidence # "false" => gated
    /\ Move(k, "reading", "closeBare")
    /\ \E known \in {evidence, UrlAlone(evidence)} :
           read' = [read EXCEPT ![k] = NewChallenge(k, known)]
    /\ proven' = proven \ {k}
    /\ UNCHANGED <<file, world, gates, windows>>

CloseContext(k) ==
    /\ \/ Move(k, "close", "handoff") /\ UNCHANGED read
       \/ Move(k, "closeBare", "handoffBare") /\ UNCHANGED read
       \/ End(k, "close", "done") \/ End(k, "closeBare", "done")   \* close raised: not filed
    /\ user' = None
    /\ UNCHANGED <<file, window, gated, counts>>

\* begin_challenge_handoff writes before and after the message to the operator; only what
\* a capture has stored is classified again.
File(k) ==
    /\ \/ Move(k, "handoff", "notify") /\ read' = [read EXCEPT ![k] = Refiled(read[k])]
       \/ Move(k, "handoffBare", "notify") /\ UNCHANGED read
    /\ stored' = read'[k]
    /\ UNCHANGED <<pidFile, world, counts>>

FileAgain(k) ==
    /\ End(k, "notify", "done")
    /\ stored' = read[k]
    /\ UNCHANGED <<pidFile, world, counts>>

Search(k) ==
    \/ StartReading(k) \/ FinishReading(k)
    \/ (\E e \in Evidence : Capture(k, e) \/ CaptureFails(k, e))
    \/ CloseContext(k) \/ File(k) \/ FileAgain(k)
-----------------------------------------------------------------------------
(* open_challenge_browser, and the window it spawns.                       *)

\* The caller may name a URL of its own, and then needs no stored challenge.
OpenRead(o, urlGiven) ==
    /\ windows < MaxWindows /\ window[o] = "none"
    /\ \/ stored = None /\ urlGiven
       \/ stored # None /\ Recoverable(stored, urlGiven)
    /\ Move(o, "idle", "check")
    /\ read' = [read EXCEPT ![o] = IF stored = None THEN Phantom ELSE stored]
    /\ windows' = windows + 1
    /\ UNCHANGED <<file, world, proven, gates>>

SpawnWindow(o) ==
    /\ user = None
    /\ Move(o, "check", "opened")
    /\ window' = [window EXCEPT ![o] = "starting"]
    /\ pidFile' = o
    /\ UNCHANGED <<read, stored, user, gated, counts>>

OpenRefused(o) ==                                  \* profile_locked
    /\ user # None
    /\ End(o, "check", "idle")
    /\ UNCHANGED <<file, world, counts>>

Alive(o) == window[o] \in {"starting", "open"}

\* After its sleep: the state as it was read, with the pid of the window.
WriteOpened(o) ==
    /\ Alive(o)
    /\ End(o, "opened", "idle")
    /\ stored' = [read[o] EXCEPT !.pid = o]
    /\ UNCHANGED <<pidFile, world, counts>>

Killed(w) == CASE w = "open" -> "dying" [] w = "starting" -> "none"
               [] w \notin {"open", "starting"} -> w

\* The window is gone, or the display is not ready and it is terminated.
OpenFails(o) ==
    /\ End(o, "opened", "idle")
    /\ window' = [window EXCEPT ![o] = Killed(@)]
    /\ UNCHANGED <<file, user, gated, counts>>

WindowLocks(o) ==
    /\ window[o] = "starting" /\ user = None
    /\ window' = [window EXCEPT ![o] = "open"]
    /\ user' = o
    /\ UNCHANGED <<pc, read, file, gated, counts>>

WindowFails(o) ==                                  \* profile_locked, or no launch
    /\ window[o] = "starting"
    /\ window' = [window EXCEPT ![o] = "none"]
    /\ UNCHANGED <<pc, read, file, user, gated, counts>>

\* Closed by the operator, or after its hour, or Chromium of a killed window ends.
WindowEnds(o) ==
    /\ window[o] \in {"open", "dying"}
    /\ window' = [window EXCEPT ![o] = "none"]
    /\ user' = None
    /\ UNCHANGED <<pc, read, file, gated, counts>>

Open(o) ==
    \/ (\E urlGiven \in BOOLEAN : OpenRead(o, urlGiven))
    \/ SpawnWindow(o) \/ OpenRefused(o) \/ WriteOpened(o) \/ OpenFails(o)

WindowStep(o) == WindowLocks(o) \/ WindowFails(o) \/ WindowEnds(o)
-----------------------------------------------------------------------------
(* confirm_challenge_cleared                                               *)

\* Without a URL there is nothing to probe for: cleared at once.
ConfirmRead(c) ==
    /\ stored # None
    /\ Move(c, "idle", IF HasUrl(stored) THEN "inspect" ELSE "clear")
    /\ read' = [read EXCEPT ![c] = stored]
    /\ UNCHANGED <<file, world, counts>>

HandoffPids(c) == {read[c].pid, pidFile} \cap Openers

\* A live Chromium, a lock, or the process of the window.
Live(c) == user # None \/ \E o \in HandoffPids(c) : Alive(o)

\* The window still shows the challenge, or it does not or cannot be seen.
Inspect(c) ==
    /\ \/ Move(c, "inspect", IF Live(c) THEN "stop" ELSE "probe")
       \/ /\ gated /\ \E o \in Openers : window[o] = "open"
          /\ Move(c, "inspect", "writeBack")
    /\ UNCHANGED <<read, file, world, counts>>

WriteBack(c) ==
    /\ End(c, "writeBack", "idle")
    /\ stored' = read[c]
    /\ UNCHANGED <<pidFile, world, counts>>

\* _stop_challenge_browser; the Chromium of a killed window may live a moment longer.
Stop(c) ==
    /\ Move(c, "stop", "recheck")
    /\ window' = [o \in Openers |-> IF o \in HandoffPids(c) THEN Killed(window[o])
                                    ELSE window[o]]
    /\ pidFile' = None
    /\ UNCHANGED <<read, stored, user, gated, counts>>

Recheck(c) ==
    /\ \/ Move(c, "recheck", "probe") /\ ~Live(c) /\ UNCHANGED read
       \/ End(c, "recheck", "idle") /\ Live(c)
    /\ UNCHANGED <<file, world, counts>>

Probe(c) ==
    /\ \/ user = None /\ Move(c, "probe", "probing") /\ user' = c /\ UNCHANGED read
       \/ user # None /\ End(c, "probe", "idle") /\ UNCHANGED user   \* profile_locked
    /\ pidFile' = None
    /\ UNCHANGED <<stored, window, gated, counts>>

MutantProbeOk(c) ==                                \* the page shown is not looked at
    /\ Move(c, "probing", "clear")
    /\ user' = None
    /\ proven' = IF gated THEN proven ELSE Captors
    /\ UNCHANGED <<read, file, window, gated, gates, windows>>

ProbeOk(c) ==
    /\ ~gated
    /\ Move(c, "probing", "clear")
    /\ user' = None
    /\ proven' = Captors
    /\ UNCHANGED <<read, file, window, gated, gates, windows>>

MutantProbeFails(c) ==                             \* no finally: the profile stays locked
    /\ \/ Move(c, "probing", "keep") /\ UNCHANGED read
       \/ End(c, "probing", "idle")
    /\ UNCHANGED <<file, world, counts>>

\* Challenged, logged out, not understood; or an exception ends the confirm.
ProbeFails(c) ==
    /\ \/ Move(c, "probing", "keep") /\ UNCHANGED read
       \/ End(c, "probing", "idle")
    /\ user' = None
    /\ UNCHANGED <<file, window, gated, counts>>

KeepChallenge(c) ==
    /\ End(c, "keep", "idle")
    /\ stored' = [read[c] EXCEPT !.pid = None]
    /\ UNCHANGED <<pidFile, world, counts>>

\* clear_challenge_state removes whatever is stored by now.
ClearChallenge(c) ==
    /\ End(c, "clear", "idle")
    /\ stored' = None
    /\ UNCHANGED <<pidFile, world, counts>>

Confirm(c) ==
    \/ ConfirmRead(c) \/ Inspect(c) \/ WriteBack(c) \/ Stop(c) \/ Recheck(c)
    \/ Probe(c) \/ ProbeOk(c) \/ ProbeFails(c) \/ KeepChallenge(c) \/ ClearChallenge(c)
-----------------------------------------------------------------------------
HHGates ==
    /\ gates < MaxGates
    /\ gates' = gates + 1
    /\ gated' = TRUE
    /\ UNCHANGED <<pc, read, file, window, user, proven, windows>>

Solve(o) ==
    /\ gated /\ window[o] = "open"
    /\ gated' = FALSE
    /\ UNCHANGED <<pc, read, file, window, user, counts>>

Next ==
    \/ \E k \in Captors : Search(k)
    \/ \E o \in Openers : Open(o) \/ WindowStep(o) \/ Solve(o)
    \/ \E c \in Confirmers : Confirm(c)
    \/ HHGates

Spec == Init /\ [][Next]_vars

\* A started handler goes on (a search has finitely many pages) and a window ends.
\* Confirm includes the request: the operator confirms again as long as a challenge
\* is stored.  HH shows the resumes page some time, when it is asked often enough and
\* no challenge is up.
Fairness ==
    /\ \A k \in Captors : WF_vars(Search(k) /\ pc[k] # "idle" /\ pc'[k] # pc[k])
    /\ \A o \in Openers : WF_vars(Open(o) /\ pc[o] # "idle") /\ WF_vars(WindowStep(o))
    /\ \A c \in Confirmers : WF_vars(Confirm(c)) /\ SF_vars(ProbeOk(c))

FairSpec == Spec /\ Fairness
-----------------------------------------------------------------------------
(* Properties.                                                             *)

\* Recovery is offered for every challenge its URL confirms and only for a confirmed one,
\* whoever wrote the file last: filing classifies a challenge again with less evidence, and
\* filing, opening and confirming write back what they once read.
OfferedRightly ==
    stored # None =>
        /\ stored.recovery => stored.evidence \in Confirmed /\ stored.status = "captured"
        /\ stored.evidence = "url" => stored.recovery

\* A confirm that is about to remove a confirmed challenge has seen HH without one
\* since the search met it, although window, file and gate changed under its hands.
ClearedIsProbed ==
    \A c \in Confirmers :
        pc[c] = "clear" /\ read[c].evidence \in Confirmed => read[c].run \in proven

\* A challenge the operator has solved goes away if he confirms often enough, unless
\* HH raises the gate again: no refusal, stale write or locked profile is final.
SolvedIsCleared == Visible /\ ~gated ~> ~Visible \/ gated
-----------------------------------------------------------------------------
(* Claims of the repository that the code does not keep.                   *)

\* challenge_handoff.py:102: a challenge whose evidence is consistent is of class A or
\* B, not of D.
ConfirmedIsCaptured ==
    stored # None /\ stored.evidence \in Confirmed => stored.status = "captured"
=============================================================================
