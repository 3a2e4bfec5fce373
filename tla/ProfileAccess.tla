---------------------------- MODULE ProfileAccess ----------------------------
(***************************************************************************)
(* Who uses the one Chromium profile (session.py, browser.py): the lock    *)
(* file .profile.lock in the profile directory, the marker session.json,   *)
(* login-browser.pid and Chromium's own SingletonLock, shared by           *)
(*   - Readers: the handlers of the threaded HTTP server that read HH      *)
(*     (vacancies, resumes, resume content and files, refresh, status);    *)
(*   - Openers: open_login with detach, which spawns a login window;       *)
(*   - Windows: those windows, open_login in the foreground, by their pid; *)
(*   - Confirmers: confirm_login, which stops the window, probes HH and    *)
(*     writes the marker; and clear_login.                                 *)
(*                                                                         *)
(* Every file operation is a step of its own: a test for existence and the *)
(* write or unlink it guards are two, and so are a look at the process     *)
(* list and the unlink it allows.  Restart is the container being          *)
(* recreated: every process dies, the profile and state volumes stay.      *)
(*                                                                         *)
(* Abstractions.  ProfileLock.status before acquire is the same test as    *)
(* the one in acquire and is merged with it.  Display, egress and          *)
(* installation checks, log files and the OAuth refresh of confirm_login   *)
(* are left out; a launch may fail for any reason.                         *)
(*                                                                         *)
(* A definition named Mutant... is the one that follows it with a          *)
(* plausible bug; no specification uses it.                                *)
(***************************************************************************)
EXTENDS Naturals

CONSTANTS Readers, Openers, Confirmers,
          Windows,        \* the pids a login window may get
          NoOne,          \* no process
          OtherHost,      \* Chromium's singleton left by an earlier container
          MaxRestarts     \* bound: how often the container is recreated

Actors == Readers \cup Openers \cup Confirmers \cup Windows

ASSUME DistinctKinds ==
    /\ Readers \cap (Openers \cup Confirmers \cup Windows) = {}
    /\ Openers \cap (Confirmers \cup Windows) = {}
    /\ Confirmers \cap Windows = {}
ASSUME DistinctNames  == NoOne \notin Actors /\ OtherHost \notin Actors /\ NoOne # OtherHost
ASSUME RestartsNatural == MaxRestarts \in Nat

Places == {"idle", "claim", "launch", "browse", "release", "unlink",      \* using the profile
           "orphan", "dropLock", "dropUnlink", "mark", "singleton", "clear",
           "spawn", "writePid", "acquire",
           "kill", "dropPid", "prior", "absent", "present"}

VARIABLES
    pc,            \* where each process stands; "idle" is not running
    lockFile,      \* who wrote .profile.lock, or NoOne: no file
    pidFile,       \* login-browser.pid, or NoOne: no file
    marker,        \* status in session.json
    child,         \* child[a]: the pid an opener spawned or a confirmer read
    seen,          \* seen[c]: what the probe of confirmer c saw
    chrome,        \* who has a live Chromium on the profile
    singleton,     \* who wrote SingletonLock, or NoOne: no file
    loggedIn,      \* whether the cookies of the profile are those of a session
    strangers,     \* pids taken by processes that are no login window
    restarts

files   == <<lockFile, pidFile, marker>>
browser == <<chrome, singleton>>
world   == <<loggedIn, strangers, restarts>>
vars    == <<pc, files, child, seen, browser, world>>

TypeOK ==
    /\ pc \in [Actors -> Places]
    /\ lockFile \in Actors \cup {NoOne}
    /\ pidFile \in Windows \cup {NoOne}
    /\ marker \in {"absent", "pending_operator", "present"}
    /\ child \in [Openers \cup Confirmers -> Windows \cup {NoOne}]
    /\ seen \in [Confirmers -> {"skipped", "wall", "ok"}]
    /\ chrome \subseteq Actors
    /\ singleton \in Actors \cup {NoOne, OtherHost}
    /\ loggedIn \in BOOLEAN
    /\ strangers \subseteq Windows
    /\ restarts \in 0..MaxRestarts

Init ==
    /\ pc = [a \in Actors |-> "idle"]
    /\ lockFile = NoOne /\ pidFile = NoOne
    /\ loggedIn \in BOOLEAN
    /\ marker \in {"absent"} \cup (IF loggedIn THEN {"present"} ELSE {})
    /\ child = [a \in Openers \cup Confirmers |-> NoOne]
    /\ seen = [c \in Confirmers |-> "skipped"]
    /\ chrome = {} /\ singleton = NoOne
    /\ strangers = {}
    /\ restarts = 0
-----------------------------------------------------------------------------
(* ProfileLock.                                                            *)

Move(a, from, to) == /\ pc[a] = from
                     /\ pc' = [pc EXCEPT ![a] = to]

Locked == lockFile # NoOne

\* acquire: the test, then the write; refused is where profile_locked leads.
AcquireTest(a, from, to, refused) ==
    /\ Move(a, from, IF Locked THEN refused ELSE to)
    /\ UNCHANGED <<files, child, seen, browser, world>>

AcquireWrite(a, from, to) ==
    /\ Move(a, from, to)
    /\ lockFile' = a
    /\ UNCHANGED <<pidFile, marker, child, seen, browser, world>>

\* release: the test, then the unlink, which raises when the file is gone.
ReleaseTest(a, from, unlink, after) ==
    /\ Move(a, from, IF Locked THEN unlink ELSE after)
    /\ UNCHANGED <<files, child, seen, browser, world>>

ReleaseUnlink(a, from, after, raised) ==
    /\ Move(a, from, IF Locked THEN after ELSE raised)
    /\ lockFile' = NoOne
    /\ UNCHANGED <<pidFile, marker, child, seen, browser, world>>

MutantOrphanTest(a, from, drop, after) ==          \* a live Chromium is asked for, not its absence
    /\ Move(a, from, IF Locked /\ chrome # {} THEN drop ELSE after)
    /\ UNCHANGED <<files, child, seen, browser, world>>

\* release_orphaned: the tests before its release.
OrphanTest(a, from, drop, after) ==
    /\ Move(a, from, IF Locked /\ chrome = {} THEN drop ELSE after)
    /\ UNCHANGED <<files, child, seen, browser, world>>
-----------------------------------------------------------------------------
(* Chromium, and what browser.py does to its singleton.                    *)

MayLaunch == singleton \notin chrome /\ singleton # OtherHost

Launch(a, from, opened, failed) ==
    /\ \/ /\ MayLaunch
          /\ Move(a, from, opened)
          /\ chrome' = chrome \cup {a}
          /\ singleton' = a
       \/ /\ Move(a, from, failed)
          /\ UNCHANGED browser
    /\ UNCHANGED <<files, child, seen, world>>

\* Chromium removes its own singleton when it ends in order.
ChromeEnds(a) == /\ chrome' = chrome \ {a}
                 /\ singleton' = IF singleton = a THEN NoOne ELSE singleton

Close(a, from, to) == /\ Move(a, from, to)
                      /\ ChromeEnds(a)
                      /\ UNCHANGED <<files, child, seen, world>>

\* _clear_stale_chromium_singleton: the tests, then the unlinks.
SingletonTest(a, from, clear, after) ==
    /\ Move(a, from, IF singleton # NoOne /\ chrome = {} THEN clear ELSE after)
    /\ UNCHANGED <<files, child, seen, browser, world>>

SingletonClear(a, from, after) ==
    /\ Move(a, from, after)
    /\ singleton' = NoOne
    /\ UNCHANGED <<files, child, seen, chrome, world>>
-----------------------------------------------------------------------------
(* A reader: refused, or lock, launch, read, close, release.  An unlink    *)
(* that raises loses the result, not the state.                            *)

Read(r) ==
    \/ marker = "present" /\ AcquireTest(r, "idle", "claim", "idle")
    \/ AcquireWrite(r, "claim", "launch")
    \/ Launch(r, "launch", "browse", "release")
    \/ Close(r, "browse", "release")
    \/ ReleaseTest(r, "release", "unlink", "idle")
    \/ ReleaseUnlink(r, "unlink", "idle", "idle")
-----------------------------------------------------------------------------
(* open_login with detach.                                                 *)

MarkPending(a, from, to) ==
    /\ Move(a, from, to)
    /\ marker' = "pending_operator"
    /\ UNCHANGED <<lockFile, pidFile, child, seen, browser, world>>

Spawn(o) ==
    /\ pc[o] = "spawn"
    /\ \E w \in Windows \ (strangers \cup chrome) :
          /\ pc[w] = "idle"
          /\ pc' = [pc EXCEPT ![o] = "writePid", ![w] = "orphan"]
          /\ child' = [child EXCEPT ![o] = w]
    /\ UNCHANGED <<files, seen, browser, world>>

MutantWritePid(o) ==                               \* its own pid instead of the child's
    /\ Move(o, "writePid", "idle")
    /\ pidFile' = o
    /\ child' = [child EXCEPT ![o] = NoOne]
    /\ UNCHANGED <<lockFile, marker, seen, browser, world>>

WritePid(o) ==
    /\ Move(o, "writePid", "idle")
    /\ pidFile' = child[o]
    /\ child' = [child EXCEPT ![o] = NoOne]
    /\ UNCHANGED <<lockFile, marker, seen, browser, world>>

OpenLogin(o) ==
    \/ OrphanTest(o, "idle", "dropLock", "mark")
    \/ ReleaseTest(o, "dropLock", "dropUnlink", "mark")
    \/ ReleaseUnlink(o, "dropUnlink", "mark", "idle")
    \/ MarkPending(o, "mark", "singleton")
    \/ SingletonTest(o, "singleton", "clear", "spawn")
    \/ SingletonClear(o, "clear", "spawn")
    \/ Spawn(o)
    \/ WritePid(o)
-----------------------------------------------------------------------------
(* open_login in the foreground, and open_login_page.                      *)

\* The CLI, without an opener and without a pid file.
Foreground(w) ==
    /\ w \notin strangers \cup chrome
    /\ Move(w, "idle", "orphan")
    /\ UNCHANGED <<files, child, seen, browser, world>>

LogIn(w) ==
    /\ pc[w] = "browse"
    /\ loggedIn' = TRUE
    /\ UNCHANGED <<pc, files, child, seen, browser, strangers, restarts>>

Window(w) ==
    \/ Foreground(w)
    \/ OrphanTest(w, "orphan", "dropLock", "acquire")
    \/ ReleaseTest(w, "dropLock", "dropUnlink", "acquire")
    \/ ReleaseUnlink(w, "dropUnlink", "acquire", "idle")
    \/ AcquireTest(w, "acquire", "claim", "idle")
    \/ AcquireWrite(w, "claim", "mark")
    \/ MarkPending(w, "mark", "singleton")
    \/ SingletonTest(w, "singleton", "clear", "launch")
    \/ SingletonClear(w, "clear", "launch")
    \/ Launch(w, "launch", "browse", "release")
    \/ Close(w, "browse", "release")               \* the operator, or an hour, closes it
    \/ ReleaseTest(w, "release", "unlink", "idle")
    \/ ReleaseUnlink(w, "unlink", "idle", "idle")

\* A killed window leaves its Chromium behind for a moment, which may die in disorder.
ChromeDies(w) ==
    /\ w \in chrome
    /\ pc[w] = "idle"
    /\ \/ ChromeEnds(w)
       \/ chrome' = chrome \ {w} /\ UNCHANGED singleton
    /\ UNCHANGED <<pc, files, child, seen, world>>
-----------------------------------------------------------------------------
(* confirm_login and clear_login.                                          *)

\* _stop_detached_login_browser: read the pid, kill, unlink the pid file, release.
ReadPid(c) ==
    /\ Move(c, "idle", IF pidFile = NoOne THEN "dropLock" ELSE "kill")
    /\ child' = [child EXCEPT ![c] = pidFile]
    /\ UNCHANGED <<files, seen, browser, world>>

Kill(c) ==
    /\ pc[c] = "kill"
    /\ pc' = [pc EXCEPT ![c] = "dropPid", ![child[c]] = "idle"]
    /\ strangers' = strangers \ {child[c]}
    /\ UNCHANGED <<files, child, seen, browser, loggedIn, restarts>>

MutantDropPid(c) ==                                \* returns without the final release
    /\ Move(c, "dropPid", "prior")
    /\ pidFile' = NoOne
    /\ child' = [child EXCEPT ![c] = NoOne]
    /\ UNCHANGED <<lockFile, marker, seen, browser, world>>

DropPid(c) ==
    /\ Move(c, "dropPid", "dropLock")
    /\ pidFile' = NoOne
    /\ child' = [child EXCEPT ![c] = NoOne]
    /\ UNCHANGED <<lockFile, marker, seen, browser, world>>

\* Only a pending marker makes confirm_login look at the browser.
ReadPrior(c) ==
    /\ Move(c, "prior", IF marker = "pending_operator" THEN "acquire" ELSE "present")
    /\ UNCHANGED <<files, child, seen, browser, world>>

Probe(c) ==
    /\ Move(c, "browse", "release")
    /\ seen' \in {[seen EXCEPT ![c] = IF loggedIn THEN "ok" ELSE "wall"], seen}
    /\ ChromeEnds(c)
    /\ UNCHANGED <<files, child, world>>

\* A raising unlink is a failed probe, hence skipped.
ProbeUnlink(c) ==
    /\ Move(c, "unlink", "present")
    /\ seen' = IF Locked THEN seen ELSE [seen EXCEPT ![c] = "skipped"]
    /\ lockFile' = NoOne
    /\ UNCHANGED <<pidFile, marker, child, browser, world>>

WriteMarker(c) ==
    /\ Move(c, "present", "idle")
    /\ marker' = IF seen[c] = "wall" THEN "pending_operator" ELSE "present"
    /\ seen' = [seen EXCEPT ![c] = "skipped"]
    /\ UNCHANGED <<lockFile, pidFile, child, browser, world>>

ClearLogin(c) ==
    /\ Move(c, "idle", "idle")
    /\ marker' = "absent"
    /\ UNCHANGED <<lockFile, pidFile, child, seen, browser, world>>

Confirm(c) ==
    \/ ReadPid(c) \/ Kill(c) \/ DropPid(c)
    \/ ReleaseTest(c, "dropLock", "dropUnlink", "prior")
    \/ ReleaseUnlink(c, "dropUnlink", "prior", "idle")
    \/ ReadPrior(c)
    \/ AcquireTest(c, "acquire", "claim", "present")
    \/ AcquireWrite(c, "claim", "launch")
    \/ Launch(c, "launch", "browse", "release")
    \/ Probe(c)
    \/ ReleaseTest(c, "release", "unlink", "present")
    \/ ProbeUnlink(c)
    \/ WriteMarker(c)
-----------------------------------------------------------------------------
Restart ==
    /\ restarts < MaxRestarts
    /\ restarts' = restarts + 1
    /\ pc' = [a \in Actors |-> "idle"]
    /\ chrome' = {}
    /\ singleton' = IF singleton = NoOne THEN NoOne ELSE OtherHost
    /\ strangers' \in SUBSET Windows \ {Windows}       \* pids are numbered anew
    /\ child' = [a \in Openers \cup Confirmers |-> NoOne]
    /\ seen' = [c \in Confirmers |-> "skipped"]
    /\ UNCHANGED <<files, loggedIn>>

Next ==
    \/ \E r \in Readers : Read(r)
    \/ \E o \in Openers : OpenLogin(o)
    \/ \E w \in Windows : Window(w) \/ LogIn(w) \/ ChromeDies(w)
    \/ \E c \in Confirmers : Confirm(c) \/ ClearLogin(c)
    \/ Restart

Spec == Init /\ [][Next]_vars

\* A started handler goes on, Chromium of a killed window dies, a window is closed at
\* the latest when its wait of an hour ends.  OpenLogin includes the request: this is
\* the premise that the operator presses "log in" again.
Fairness ==
    /\ \A r \in Readers : WF_vars(Read(r) /\ pc[r] # "idle")
    /\ \A o \in Openers : WF_vars(OpenLogin(o))
    /\ \A w \in Windows : WF_vars(Window(w) /\ pc[w] # "idle") /\ WF_vars(ChromeDies(w))
    /\ \A c \in Confirmers : WF_vars(Confirm(c) /\ pc[c] # "idle")

FairSpec == Spec /\ Fairness
-----------------------------------------------------------------------------
(* Properties.                                                             *)

HoldPlaces == {"mark", "singleton", "clear", "launch", "browse", "release", "unlink"}
Holds(a)   == a \notin Openers /\ pc[a] \in HoldPlaces

\* Where confirm_login has its unconditional release still before it.
Stopping == {"dropPid", "dropLock", "dropUnlink"}

\* A lock is never without somebody to remove it, however handlers overlap, fail or are
\* killed by a confirm: the process the file names has its release before it, or a confirm
\* that may have killed that process has its own (until the container is recreated).
LockIsOwed ==
    restarts = 0 /\ Locked =>
        Holds(lockFile) \/ \E c \in Confirmers : pc[c] \in Stopping

\* Hence nothing is left behind: when every handler and window has ended, the profile is
\* unlocked.
AtRestUnlocked ==
    restarts = 0 /\ (\A a \in Actors : pc[a] = "idle") => ~Locked

\* The lock of a process that is gone does not stay: as long as the operator opens
\* the login again, release_orphaned drops it.
Leftover == Locked /\ ~Holds(lockFile)
LeftoverIsDropped == Leftover ~> ~Leftover
-----------------------------------------------------------------------------
(* Claims of the repository that the code does not keep.                   *)

\* session.py:89: the lock "prevents concurrent use of one Chromium profile".
ExclusiveUse == \A a, b \in Actors : Holds(a) /\ Holds(b) => a = b

\* docs/specs/operator-novnc-login.md:20: the lock is held while the foreground
\* browser session runs.
HeldWhileWindowOpen == \A w \in Windows : pc[w] = "browse" => Locked
=============================================================================
