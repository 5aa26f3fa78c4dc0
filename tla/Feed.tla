-------------------------------- MODULE Feed --------------------------------
(***************************************************************************)
(* One project's Research Feed (backend/feed, backend/api/feed.py): polls  *)
(* that the catch-up pass dispatches (backend/jobs) and the researcher who *)
(* saves and dismisses what they surface. Of the interest profile (module  *)
(* InterestProfile) a poll needs only whether it names a category.         *)
(*                                                                         *)
(* A poll reads the profile, fetches, reads what is unseen and inserts in  *)
(* four steps with awaits between them; its window starts at the cursor,   *)
(* scheduled_jobs.last_run_at, as it was when the poll was dispatched.     *)
(***************************************************************************)
EXTENDS Naturals

CONSTANTS
    Items,       \* papers the sources publish in the project's categories
    PollIds,     \* polls that may be in flight
    MaxTime,     \* bound: ticks of the clock
    MaxFaults,   \* bound: polls and passes that fail
    None         \* not published

VARIABLES
    now,         \* the clock
    published,   \* when the sources published an item
    cursor,      \* scheduled_jobs.last_run_at of the poll
    poll,        \* poll_feed_job tasks
    item,        \* feed_items.state
    seen,        \* seen_set
    library,     \* project_papers
    missed,      \* items before the cursor whose poll failed or had no category
    faults       \* failures so far

feed == <<item, seen, library>>
vars == <<now, published, cursor, poll, item, seen, library, missed,
          faults>>

Reasons   == {"library", "surfaced", "dismissed"}
NoPoll    == [pc |-> "free", since |-> 0, batch |-> {}, stale |-> FALSE]
PollSteps == {"free", "queued", "fetching", "filtering", "scoring"}
Polls     == [pc : PollSteps, since : 0 .. MaxTime, batch : SUBSET Items, stale : BOOLEAN]

TypeOK ==
    /\ now \in 0 .. MaxTime /\ cursor \in 0 .. MaxTime
    /\ published \in [Items -> (0 .. MaxTime) \cup {None}]
    /\ poll \in [PollIds -> Polls]
    /\ item \in [Items -> {"none", "new", "saved", "dismissed"}]
    /\ seen \subseteq Items \X Reasons /\ library \subseteq Items
    /\ missed \subseteq Items /\ faults \in 0 .. MaxFaults

Init ==
    /\ now = 0 /\ cursor = 0
    /\ published = [i \in Items |-> None]
    /\ poll = [j \in PollIds |-> NoPoll]
    /\ item = [i \in Items |-> "none"]
    /\ seen = {} /\ library = {}
    /\ missed = {} /\ faults = 0

Fault == faults < MaxFaults /\ faults' = faults + 1
InStep(j, pc) == poll[j].pc = pc
Set(j, p)     == poll' = [poll EXCEPT ![j] = p]

Tick ==
    /\ now < MaxTime
    /\ now' = now + 1
    /\ UNCHANGED <<published, cursor, poll, feed, missed, faults>>

Publish(i) ==
    /\ published[i] = None
    /\ published' = [published EXCEPT ![i] = now]
    /\ UNCHANGED <<now, cursor, poll, feed, missed, faults>>

(***************************************************************************)
(* The catch-up pass, as far as it concerns this project's poll row: the   *)
(* job is enqueued, then the cursor moves with the pass's commit.          *)
(***************************************************************************)
\* Mutant: the window starts at the cursor's new value.
Dispatch_FromNow(j) ==
    /\ InStep(j, "free") /\ cursor < now
    /\ Set(j, [NoPoll EXCEPT !.pc = "queued", !.since = now])
    /\ cursor' = now
    /\ UNCHANGED <<now, published, feed, missed, faults>>

Dispatch(j) ==
    /\ InStep(j, "free") /\ cursor < now
    /\ Set(j, [NoPoll EXCEPT !.pc = "queued", !.since = cursor])
    /\ cursor' = now
    /\ UNCHANGED <<now, published, feed, missed, faults>>

\* The pass fails or the process dies after the enqueue, before the commit.
DispatchUncommitted(j) ==
    /\ InStep(j, "free") /\ cursor < now /\ Fault
    /\ Set(j, [NoPoll EXCEPT !.pc = "queued", !.since = cursor])
    /\ UNCHANGED <<now, published, cursor, feed, missed>>

(***************************************************************************)
(* poll_feed_job.                                                          *)
(***************************************************************************)
Window(j)       == {i \in Items : published[i] # None /\ published[i] >= poll[j].since}
Past(items)     == {i \in items : published[i] < cursor}
Give(j, lost)   == Set(j, NoPoll) /\ missed' = missed \cup Past(lost)
Unseen(batch)   == {i \in batch \ library : \A r \in Reasons : <<i, r>> \notin seen}

\* A profile with no category ends the poll, and its window with it.
PollProfile(j) ==
    /\ InStep(j, "queued")
    /\ \/ Give(j, Window(j))
       \/ Set(j, [poll[j] EXCEPT !.pc = "fetching"]) /\ UNCHANGED missed
    /\ UNCHANGED <<now, published, cursor, feed, faults>>

PollFetch(j) ==
    /\ InStep(j, "fetching")
    /\ IF Window(j) = {} THEN Give(j, {})
       ELSE /\ Set(j, [poll[j] EXCEPT !.pc = "filtering", !.batch = Window(j)])
            /\ UNCHANGED missed
    /\ UNCHANGED <<now, published, cursor, feed, faults>>

\* db.filter_unseen: neither in the seen set nor in the library.
PollFilter(j) ==
    /\ InStep(j, "filtering")
    /\ Set(j, [poll[j] EXCEPT !.pc = "scoring", !.batch = Unseen(poll[j].batch)])
    /\ UNCHANGED <<now, published, cursor, feed, missed, faults>>

Clash(j) == \E i \in poll[j].batch : item[i] # "none" \/ <<i, "surfaced">> \in seen

Surfaced(batch) == item' = [i \in Items |-> IF i \in batch THEN "new" ELSE item[i]]

\* The other polls that read the seen set before this insert are now stale.
Inserted(j) == poll' = [k \in PollIds |->
    IF k = j THEN NoPoll ELSE [poll[k] EXCEPT !.stale = @ \/ poll[k].pc = "scoring"]]

PollInsert(j) ==
    /\ InStep(j, "scoring") /\ ~Clash(j)
    /\ Surfaced(poll[j].batch)
    /\ seen' = seen \cup (poll[j].batch \X {"surfaced"})
    /\ Inserted(j)
    /\ UNCHANGED <<now, published, cursor, library, missed, faults>>

\* One duplicate row rolls the whole batch back.
PollClashes(j) ==
    /\ InStep(j, "scoring") /\ Clash(j)
    /\ Give(j, poll[j].batch)
    /\ UNCHANGED <<now, published, cursor, feed, faults>>

\* A source degrades to nothing, a model fails, the job times out, the sidecar dies.
PollDies(j) ==
    /\ ~InStep(j, "free") /\ Fault
    /\ Give(j, Window(j))
    /\ UNCHANGED <<now, published, cursor, feed>>

(***************************************************************************)
(* The researcher.                                                         *)
(***************************************************************************)
SaveItem(i) ==
    /\ item[i] # "none"
    /\ library' = library \cup {i}
    /\ seen' = seen \cup {<<i, "library">>}
    /\ item' = [item EXCEPT ![i] = "saved"]
    /\ UNCHANGED <<now, published, cursor, poll, missed, faults>>

DismissItem(i) ==
    /\ item[i] # "none"
    /\ seen' = seen \cup {<<i, "dismissed">>}
    /\ item' = [item EXCEPT ![i] = "dismissed"]
    /\ UNCHANGED <<now, published, cursor, poll, library, missed, faults>>

\* The same paper added from Search, with no feed item and no ledger row.
AddToLibrary(i) ==
    /\ i \notin library
    /\ library' = library \cup {i}
    /\ UNCHANGED <<now, published, cursor, poll, item, seen, missed, faults>>

Next ==
    \/ Tick
    \/ \E i \in Items : Publish(i) \/ SaveItem(i) \/ DismissItem(i) \/ AddToLibrary(i)
    \/ \E j \in PollIds :
          \/ Dispatch(j) \/ DispatchUncommitted(j)
          \/ PollProfile(j) \/ PollFetch(j) \/ PollFilter(j)
          \/ PollInsert(j) \/ PollClashes(j) \/ PollDies(j)

Spec == Init /\ [][Next]_vars

(***************************************************************************)
(* Properties.                                                             *)
(***************************************************************************)
\* The cursor never leaves a paper behind: one published before it has been
\* seen, is in the window of a poll in flight, or went with a poll that failed.
WindowCovered == \A i \in Items :
    published[i] # None /\ published[i] < cursor =>
        \/ i \in library \cup missed \/ \E r \in Reasons : <<i, r>> \in seen
        \/ \E j \in PollIds : ~InStep(j, "free") /\ i \in Window(j)

\* Polls over one window, one after the other, are harmless: a duplicate row
\* costs a batch only when another poll inserted between the read and the insert.
SerialPollsNeverClash == \A j \in PollIds :
    InStep(j, "scoring") /\ Clash(j) => poll[j].stale

FeedComplete == WindowCovered /\ SerialPollsNeverClash
=============================================================================
