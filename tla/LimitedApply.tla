---------------------------- MODULE LimitedApply ----------------------------
(***************************************************************************)
(* apply limited (apply.py, apply_transport.py, cli.py): each run posts the *)
(* first items of a plan, one after the other, and reports what became of   *)
(* them.  Runs may overlap, and a plan may be run again.                    *)
(*                                                                          *)
(* A definition named Mutant... is the one that follows it with a plausible *)
(* bug; no specification uses it.                                           *)
(***************************************************************************)
EXTENDS Negotiations, Sequences

CONSTANTS Appliers,
          Plans,       \* the plans there are: sequences of vacancies and Incomplete
          Incomplete,  \* an item without a vacancy or a resume
          Limits       \* the values of --limit

ASSUME PlansOfItems == /\ Incomplete \notin Vacancies
                       /\ \A plan \in Plans : plan \in Seq(Vacancies \cup {Incomplete})
ASSUME LimitsInt    == Limits \subseteq Int

Items == Vacancies \cup {Incomplete}

VARIABLES
    todo,       \* todo[a]: the selected items that are still to be posted
    running,    \* the runs in progress
    selected,   \* selected[a]: the items selected
    limit,      \* limit[a]: report, the limit of the run
    submitted,  \* submitted[a]: report, items
    failed,     \* failed[a]: report, errors
    execution,  \* execution[a]: report, execution
    attempted,  \* report, hh_write_attempted: the runs for which it is set
    mine        \* mine[a]: the negotiations this run has made at HH (history)

report == <<submitted, failed, execution, attempted>>
apply  == <<todo, running, selected, limit, report, mine>>

ApplyTypeOK ==
    /\ running \subseteq Appliers
    /\ todo \in [Appliers -> Seq(Items)]
    /\ selected \in [Appliers -> SUBSET Items]
    /\ limit \in [Appliers -> Nat]
    /\ submitted \in [Appliers -> SUBSET Vacancies]
    /\ failed \in [Appliers -> SUBSET Items]
    /\ execution \in [Appliers -> {"completed", "failed", "stopped_captcha"}]
    /\ attempted \subseteq running
    /\ mine \in [Appliers -> SUBSET Vacancies]
    /\ \A a \in Appliers : todo[a] # <<>> => a \in running

ApplyInit ==
    /\ running = {}
    /\ todo = [a \in Appliers |-> <<>>]
    /\ selected = [a \in Appliers |-> {}]
    /\ limit = [a \in Appliers |-> 0]
    /\ submitted = [a \in Appliers |-> {}]
    /\ failed = [a \in Appliers |-> {}]
    /\ execution = [a \in Appliers |-> "completed"]
    /\ attempted = {}
    /\ mine = [a \in Appliers |-> {}]
-----------------------------------------------------------------------------
\* limit = max(1, limit)
Clamped(n) == IF n < 1 THEN 1 ELSE n

\* plan[:limit]
Selected(plan, n) == SubSeq(plan, 1, IF n < Len(plan) THEN n ELSE Len(plan))

\* Nothing is left of a run that is over.
Reset(a) ==
    /\ todo' = [todo EXCEPT ![a] = <<>>]
    /\ selected' = [selected EXCEPT ![a] = {}]
    /\ limit' = [limit EXCEPT ![a] = 0]
    /\ submitted' = [submitted EXCEPT ![a] = {}]
    /\ failed' = [failed EXCEPT ![a] = {}]
    /\ execution' = [execution EXCEPT ![a] = "completed"]
    /\ attempted' = attempted \ {a}
    /\ mine' = [mine EXCEPT ![a] = {}]

\* Both gates are open and there is a token; otherwise the run ends here, as refused.
Start(a) ==
    /\ a \notin running
    /\ running' = running \cup {a}
    /\ \E plan \in Plans, asked \in Limits :
          LET chosen == Selected(plan, Clamped(asked))
          IN  /\ limit' = [limit EXCEPT ![a] = Clamped(asked)]
              /\ todo' = [todo EXCEPT ![a] = chosen]
              /\ selected' = [selected EXCEPT ![a] = {chosen[i] : i \in 1..Len(chosen)}]
    /\ UNCHANGED <<hh, report, mine>>

\* Only an item with all its fields is posted, and so counts as a write attempted.
Attempt(a) ==
    attempted' = IF Head(todo[a]) \in Vacancies THEN attempted \cup {a} ELSE attempted

\* The item at hand has failed: a captcha ends the run, another failure does not.
Fail(a, ending) ==
    /\ failed' = [failed EXCEPT ![a] = @ \cup {Head(todo[a])}]
    /\ execution' = [execution EXCEPT ![a] = ending]
    /\ todo' = [todo EXCEPT ![a] = IF ending = "stopped_captcha" THEN <<>> ELSE Tail(@)]
    /\ Attempt(a)
    /\ UNCHANGED <<running, selected, limit, submitted>>

Working(a) == a \in running /\ todo[a] # <<>>

\* HH accepts, and its answer arrives.
Submit(a) ==
    /\ Working(a)
    /\ Head(todo[a]) \in Vacancies
    /\ Post(Head(todo[a]))
    /\ mine' = [mine EXCEPT ![a] = @ \cup {Head(todo[a])}]
    /\ submitted' = [submitted EXCEPT ![a] = @ \cup {Head(todo[a])}]
    /\ todo' = [todo EXCEPT ![a] = Tail(@)]
    /\ Attempt(a)
    /\ UNCHANGED <<running, selected, limit, failed, execution>>

MutantSubmitLost(a) ==                            \* a timeout is passed over
    /\ Working(a)
    /\ Head(todo[a]) \in Vacancies
    /\ Post(Head(todo[a]))
    /\ mine' = [mine EXCEPT ![a] = @ \cup {Head(todo[a])}]
    /\ todo' = [todo EXCEPT ![a] = Tail(@)]
    /\ UNCHANGED <<running, selected, limit, report>>

\* HH accepts, and its answer is lost or unreadable: apply_transport_failed.
SubmitLost(a) ==
    /\ Working(a)
    /\ Head(todo[a]) \in Vacancies
    /\ Post(Head(todo[a]))
    /\ mine' = [mine EXCEPT ![a] = @ \cup {Head(todo[a])}]
    /\ Fail(a, "failed")

MutantSubmitFails(a) ==                           \* an http error is no failure
    /\ Working(a)
    /\ \/ Fail(a, "stopped_captcha")
       \/ /\ todo' = [todo EXCEPT ![a] = Tail(@)]
          /\ UNCHANGED <<running, selected, limit, report>>
    /\ UNCHANGED <<hh, mine>>

\* The item is incomplete, HH is not reached or refuses (it does so whenever there is a
\* negotiation already): 403, 429 and a captcha stop the run.
SubmitFails(a) ==
    /\ Working(a)
    /\ \/ Head(todo[a]) \in Vacancies /\ Fail(a, "stopped_captcha")
       \/ Fail(a, "failed")
    /\ UNCHANGED <<hh, mine>>

\* The report is out.
Finish(a) ==
    /\ a \in running /\ todo[a] = <<>>
    /\ running' = running \ {a}
    /\ Reset(a)
    /\ UNCHANGED hh

\* The process is killed, or dies of an exception nobody catches (http.client), before or
\* after HH has accepted the item: there is no report.
Die(a) ==
    /\ a \in running
    /\ \/ Working(a) /\ Head(todo[a]) \in Vacancies /\ Post(Head(todo[a]))
       \/ UNCHANGED hh
    /\ running' = running \ {a}
    /\ Reset(a)

ApplyNext ==
    \E a \in Appliers : \/ Start(a) \/ Submit(a) \/ SubmitLost(a) \/ SubmitFails(a)
                        \/ Finish(a) \/ Die(a)
-----------------------------------------------------------------------------
(* Properties.                                                             *)

\* The loop is over and the report is what the run has gathered.
Reports(a) == a \in running /\ todo[a] = <<>>

\* However its items fail and whatever answers are lost, a run makes negotiations about
\* selected items only, at most as many as its limit; and the report tells of each, as
\* submitted or as an error, claims none that another run made, and owns up to having
\* written.
ReportIsTrue ==
    \A a \in Appliers :
        /\ mine[a] \subseteq selected[a] /\ Cardinality(mine[a]) <= limit[a]
        /\ Reports(a) =>
              /\ submitted[a] \subseteq mine[a]
              /\ mine[a] \subseteq submitted[a] \cup failed[a]
              /\ mine[a] # {} => a \in attempted

\* The envelope is ok.
Ok(a) == Reports(a) /\ execution[a] = "completed" /\ failed[a] = {}

\* It is so only if HH has a negotiation about every selected item.
OkIsApplied ==
    \A a \in Appliers : Ok(a) => selected[a] \subseteq Applied
=============================================================================
