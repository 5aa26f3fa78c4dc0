----------------------------- MODULE LlmClient -----------------------------
(***************************************************************************)
(* Calls to one provider's model (backend/llm, backend/ratelimit.py) and   *)
(* the settings row they learn into (backend/settings).                    *)
(*                                                                         *)
(* Call starts are paced by a bucket that every call of the provider       *)
(* shares; a transient failure is retried after a pause, a bounded number  *)
(* of times; a 429 that names a limit is learnt as the model's token       *)
(* budget and the request resent at once; a structured answer that does    *)
(* not fit its schema is asked for once more, with retries of its own.     *)
(***************************************************************************)
EXTENDS Naturals, Sequences, SequencesExt

CONSTANTS
    Calls,
    MaxRetries,     \* max_retries of a call: 4 structured, 3 streamed
    RepairRetries,  \* max_retries of the repair: 3
    Interval,       \* _PROVIDER_MIN_INTERVAL_S, in ticks
    MaxSaves,       \* bound: keys the researcher saves
    None            \* no transaction open

VARIABLES
    call,     \* complete and complete_structured in progress
    bucket,   \* callers at the limiter's lock, its holder first
    wait,     \* ticks until _next_allowed_at
    gap,      \* ticks since the last paced start, up to Interval
    row,      \* the provider's entry in api_keys.providers
    saves,    \* keys saved
    crossed   \* a key was saved between the read and the write of a learnt budget

vars == <<call, bucket, wait, gap, row, saves, crossed>>

Modes   == {"stream", "structured", "repair"}
Rows    == [key : 0 .. MaxSaves, budget : BOOLEAN]
Steps   == {"idle", "acquire", "sleep", "call", "learn", "persist", "heal", "backoff"}
Idle    == [pc |-> "idle", mode |-> "stream", attempt |-> 0, sleep |-> 0, read |-> None]

TypeOK ==
    /\ call \in [Calls -> [pc : Steps, mode : Modes, attempt : 0 .. MaxRetries,
                           sleep : 0 .. Interval, read : Rows \cup {None}]]
    /\ bucket \in Seq(Calls) /\ IsInjective(bucket)
    /\ wait \in 0 .. Interval /\ gap \in 0 .. Interval
    /\ row \in Rows /\ saves \in 0 .. MaxSaves /\ crossed \in BOOLEAN

Init ==
    /\ call = [c \in Calls |-> Idle]
    /\ bucket = <<>> /\ wait = 0 /\ gap = Interval
    /\ row = [key |-> 0, budget |-> FALSE] /\ saves = 0 /\ crossed = FALSE

In(c, pc)  == call[c].pc = pc
Go(c, pc)  == call' = [call EXCEPT ![c].pc = pc]
Give(c)    == call' = [call EXCEPT ![c] = Idle]
Limit(c)   == IF call[c].mode = "repair" THEN RepairRetries ELSE MaxRetries
Minus1(n)  == IF n = 0 THEN 0 ELSE n - 1
limiter    == <<bucket, wait, gap>>
settings   == <<row, saves, crossed>>

(***************************************************************************)
(* RateLimiter.acquire, and the start of the request behind it.            *)
(***************************************************************************)
Begin(c, mode) ==
    /\ In(c, "idle") /\ mode # "repair"
    /\ call' = [call EXCEPT ![c] = [Idle EXCEPT !.pc = "acquire", !.mode = mode]]
    /\ bucket' = Append(bucket, c)
    /\ UNCHANGED <<wait, gap, settings>>

\* Mutant: the wait is computed without the lock.
Enter_NoLock(c) ==
    /\ In(c, "acquire")
    /\ call' = [call EXCEPT ![c].pc = "sleep", ![c].sleep = wait]
    /\ UNCHANGED <<limiter, settings>>

Enter(c) ==
    /\ In(c, "acquire") /\ Head(bucket) = c
    /\ call' = [call EXCEPT ![c].pc = "sleep", ![c].sleep = wait]
    /\ UNCHANGED <<limiter, settings>>

Start(c) ==
    /\ In(c, "sleep") /\ call[c].sleep = 0
    /\ Go(c, "call")
    /\ bucket' = Tail(bucket)
    /\ wait' = Interval /\ gap' = 0
    /\ UNCHANGED settings

Tick ==
    /\ wait > 0
    /\ wait' = wait - 1
    /\ gap' = IF gap < Interval THEN gap + 1 ELSE gap
    /\ call' = [c \in Calls |-> [call[c] EXCEPT !.sleep = Minus1(@)]]
    /\ UNCHANGED <<bucket, settings>>

(***************************************************************************)
(* What the provider does with a request, first sent or resent.            *)
(***************************************************************************)
Asked(c) == In(c, "call") \/ In(c, "heal")

\* The stream starts, or the answer fits its schema.
Succeed(c) ==
    /\ Asked(c)
    /\ Give(c)
    /\ UNCHANGED <<limiter, settings>>

\* An error that is not worth a retry; a schema violation of the repair itself.
Refuse(c) ==
    /\ Asked(c)
    /\ Give(c)
    /\ UNCHANGED <<limiter, settings>>

\* Mutant: one attempt more than max_retries.
Retry_OneMore(c) ==
    call' = [call EXCEPT ![c] =
                IF call[c].attempt > Limit(c) THEN Idle
                ELSE [call[c] EXCEPT !.pc = "backoff", !.attempt = @ + 1]]

\* call_with_retry: the last attempt's error is the caller's.
Retry(c) ==
    call' = [call EXCEPT ![c] =
                IF call[c].attempt = Limit(c) THEN Idle
                ELSE [call[c] EXCEPT !.pc = "backoff", !.attempt = @ + 1]]

\* Mutant: a resent request does not count as an attempt.
Fail_FreeHeal(c) ==
    /\ Asked(c)
    /\ IF In(c, "heal") THEN Go(c, "backoff") ELSE Retry(c)
    /\ UNCHANGED <<limiter, settings>>

\* A transient error, or a 429 that names no limit.
Fail(c) ==
    /\ Asked(c)
    /\ Retry(c)
    /\ UNCHANGED <<limiter, settings>>

Resume(c) ==
    /\ In(c, "backoff")
    /\ Go(c, "acquire")
    /\ bucket' = Append(bucket, c)
    /\ UNCHANGED <<wait, gap, settings>>

\* complete_structured asks for the repair, with a retry count of its own.
SchemaViolation(c) ==
    /\ Asked(c) /\ call[c].mode = "structured"
    /\ call' = [call EXCEPT ![c] = [Idle EXCEPT !.pc = "acquire", !.mode = "repair"]]
    /\ bucket' = Append(bucket, c)
    /\ UNCHANGED <<wait, gap, settings>>

(***************************************************************************)
(* _call_with_rate_limit_self_heal: the first 429 of an attempt that names *)
(* a limit. The repair does not go through here.                           *)
(***************************************************************************)
RateLimited(c) ==
    /\ In(c, "call") /\ call[c].mode # "repair"
    /\ Go(c, "learn")
    /\ UNCHANGED <<limiter, settings>>

\* save_model_budget reads the row, and rewrites the whole providers map.
LearnRead(c) ==
    /\ In(c, "learn")
    /\ call' = [call EXCEPT ![c].pc = "persist", ![c].read = row]
    /\ UNCHANGED <<limiter, settings>>

LearnWrite(c) ==
    /\ In(c, "persist")
    /\ row' = [call[c].read EXCEPT !.budget = TRUE]
    /\ call' = [call EXCEPT ![c].pc = "heal", ![c].read = None]
    /\ UNCHANGED <<limiter, saves, crossed>>

\* A turn is interrupted, a job times out: the task is cancelled where it waits.
Cancel(c) ==
    /\ ~In(c, "idle")
    /\ Give(c)
    /\ \/ \E i \in DOMAIN bucket : bucket[i] = c /\ bucket' = RemoveAt(bucket, i)
       \/ c \notin ToSet(bucket) /\ UNCHANGED bucket
    /\ UNCHANGED <<wait, gap, settings>>

(***************************************************************************)
(* save_provider, after its live test call: the provider's entry is built  *)
(* afresh, without the budgets learnt.                                     *)
(***************************************************************************)
SaveProvider ==
    /\ saves < MaxSaves /\ saves' = saves + 1
    /\ row' = [key |-> saves + 1, budget |-> FALSE]
    /\ crossed' = (crossed \/ \E c \in Calls : In(c, "persist"))
    /\ UNCHANGED <<call, limiter>>

Answer(c) == Succeed(c) \/ Refuse(c) \/ Fail(c) \/ SchemaViolation(c) \/ RateLimited(c)

Next ==
    \/ Tick \/ SaveProvider
    \/ \E c \in Calls :
          \/ \E mode \in Modes : Begin(c, mode)
          \/ Enter(c) \/ Start(c) \/ Resume(c) \/ Answer(c)
          \/ LearnRead(c) \/ LearnWrite(c) \/ Cancel(c)

\* Timers fire, locks are handed on in order, and every request carries a timeout.
Fairness ==
    /\ WF_vars(Tick)
    /\ \A c \in Calls :
          /\ WF_vars(Enter(c)) /\ WF_vars(Start(c)) /\ WF_vars(Resume(c))
          /\ WF_vars(Answer(c)) /\ WF_vars(LearnRead(c)) /\ WF_vars(LearnWrite(c))

Spec == Init /\ [][Next]_vars /\ Fairness

(***************************************************************************)
(* Properties.                                                             *)
(***************************************************************************)
\* Two paced starts are never closer than the interval, whoever waits, backs
\* off or is cancelled. (A resent request does not pass the bucket.)
Paced == [][\A c \in Calls : In(c, "sleep") /\ call'[c].pc = "call" => gap = Interval]_vars

\* Pauses, resent requests and repairs are bounded: every call returns.
CallReturns == \A c \in Calls : ~In(c, "idle") ~> In(c, "idle")

\* A saved key is undone only by a budget learnt across its commit.
SavedKeyStays == row.key = saves \/ crossed
=============================================================================
