--------------------------- MODULE BlueprintRunner --------------------------
(***************************************************************************)
(* The loop of crates/runner: job calls from the producers go to the       *)
(* router, which runs them concurrently; results go to every consumer,     *)
(* which submits them one by one (the Sink of TangleConsumer and of        *)
(* AggregatingConsumer in crates/tangle-extra); background services run    *)
(* beside it.                                                              *)
(*                                                                         *)
(* Producers, job tasks, consumers and background services are polled by   *)
(* one select! and, while results are sent, the consumers alone.           *)
(***************************************************************************)
EXTENDS TangleProducer, SequencesExt

CONSTANTS
    MAX_CONCURRENT_JOBS,
    Consumers,
    Services,           \* background services
    MaxResults,         \* bound: results of one job
    Failures,           \* which failures may happen
    NoItem

ASSUME RunnerAssumption ==
    /\ MAX_CONCURRENT_JOBS \in Nat \ {0}
    /\ MaxResults \in Nat
    /\ Failures \subseteq {"setup", "producer", "job", "panic", "submission", "sender dropped"}

VARIABLES
    phase,          \* "setup", "select", "sending" or "ended"
    outcome,        \* what run returned
    dispatched,     \* the job calls given to the router
    pending_jobs,
    ignored,        \* job calls that ended without a result for the consumers
    produced,       \* the results sent to the consumers
    sink,           \* per consumer, its buffer
    submitting,     \* per consumer, State::ProcessingSubmission
    submitted,      \* per consumer, the results it submitted
    background      \* the background services that have not ended

runnerVars == <<phase, outcome, dispatched, pending_jobs, ignored, produced, background>>
sinkVars == <<sink, submitting, submitted>>
vars == <<chainVars, producerVars, runnerVars, sinkVars>>

-----------------------------------------------------------------------------
Item == [job : Log, n : Nat]

ASSUME NoItemAssumption == NoItem \notin Item

Outcomes ==
    {"none", "Ok", "Setup", "ProducerFailed", "JobFailed", "JobDidntFinish", "Consumer",
     "BackgroundService"}

TypeOK ==
    /\ ProducerTypeOK
    /\ phase \in {"setup", "select", "sending", "ended"}
    /\ outcome \in Outcomes
    /\ dispatched \subseteq logs
    /\ pending_jobs \subseteq dispatched
    /\ ignored \subseteq dispatched
    /\ produced \subseteq Item
    /\ sink \in [Consumers -> Seq(Item)]
    /\ submitting \in [Consumers -> Item \cup {NoItem}]
    /\ submitted \in [Consumers -> SUBSET Item]
    /\ background \subseteq Services

Init ==
    /\ ProducerInit
    /\ phase = "setup"
    /\ outcome = "none"
    /\ dispatched = {}
    /\ pending_jobs = {}
    /\ ignored = {}
    /\ produced = {}
    /\ sink = [c \in Consumers |-> <<>>]
    /\ submitting = [c \in Consumers |-> NoItem]
    /\ submitted = [c \in Consumers |-> {}]
    /\ background = Services

\* run returns: consumers and services are dropped with all they hold, job tasks
\* are left to themselves.
End(how) ==
    /\ phase' = "ended"
    /\ outcome' = how
    /\ pending_jobs' = {}
    /\ sink' = [c \in Consumers |-> <<>>]
    /\ submitting' = [c \in Consumers |-> NoItem]
    /\ background' = {}
    /\ UNCHANGED <<chainVars, producerVars, dispatched, ignored, produced, submitted>>

Fails(kind, how) ==
    /\ kind \in Failures
    /\ End(how)

-----------------------------------------------------------------------------
(***************************************************************************)
(* run, before its loop: registration, which may end the run, background   *)
(* services, bridge and TLS profile, any of which may fail.                *)
(***************************************************************************)
RegistrationNeeds == [required : BOOLEAN, mode : BOOLEAN, capture_only : BOOLEAN,
                      dry_run : BOOLEAN, exit_after : BOOLEAN]

EndsAfterRegistration(r) ==
    IF r.mode THEN r.capture_only \/ r.exit_after
              ELSE r.required /\ ~ r.dry_run /\ r.exit_after

Setup(r) ==
    /\ phase = "setup"
    /\ IF EndsAfterRegistration(r)
       THEN End("Ok")
       ELSE /\ phase' = "select"
            /\ UNCHANGED <<chainVars, producerVars, sinkVars, outcome,
                           dispatched, pending_jobs, ignored, produced, background>>

SetupFails == phase = "setup" /\ Fails("setup", "Setup")

-----------------------------------------------------------------------------
\* The producers are polled only while another job may start.
PollsProducers == phase = "select" /\ Cardinality(pending_jobs) < MAX_CONCURRENT_JOBS

ProducerStep ==
    /\ PollsProducers
    /\ StartPoll \/ ReadBlockNumber \/ PollFails \/ PollSucceeds
    /\ UNCHANGED <<chainVars, runnerVars, sinkVars>>

Dispatch(l) ==
    /\ PollsProducers
    /\ Yield(l)
    /\ dispatched' = dispatched \cup {l}
    /\ pending_jobs' = pending_jobs \cup {l}
    /\ UNCHANGED <<chainVars, sinkVars, phase, outcome, ignored, produced, background>>

\* Another producer fails; the Tangle producer tries again for ever instead.
ProducerFails == PollsProducers /\ Fails("producer", "ProducerFailed")

-----------------------------------------------------------------------------
Results(l, k) == {[job |-> l, n |-> i] : i \in 1..k}

\* Mutant: the first consumer takes the results from the others.
SendAll_first(l, k) ==
    sink' = [c \in Consumers |->
                IF c = CHOOSE d \in Consumers : TRUE
                THEN sink[c] \o [i \in 1..k |-> [job |-> l, n |-> i]] ELSE sink[c]]

\* send_all of the results to every consumer: start_send of each, then flush.
SendAll(l, k) ==
    sink' = [c \in Consumers |-> sink[c] \o [i \in 1..k |-> [job |-> l, n |-> i]]]

\* A job ends with k results.
JobFinished(l, k) ==
    /\ phase = "select" /\ l \in pending_jobs
    /\ pending_jobs' = pending_jobs \ {l}
    /\ produced' = produced \cup Results(l, k)
    /\ SendAll(l, k)
    /\ phase' = "sending"
    /\ UNCHANGED <<chainVars, producerVars, outcome, dispatched, ignored, background,
                   submitting, submitted>>

\* No route for the job, or a result every start_send discards: an error, or one that
\* did not come from a Tangle job call.
JobIgnored(l) ==
    /\ phase = "select" /\ l \in pending_jobs
    /\ pending_jobs' = pending_jobs \ {l}
    /\ ignored' = ignored \cup {l}
    /\ UNCHANGED <<chainVars, producerVars, phase, outcome, dispatched, produced, background,
                   sinkVars>>

JobFails == phase = "select" /\ pending_jobs # {} /\ Fails("job", "JobFailed")

JobPanics == phase = "select" /\ pending_jobs # {} /\ Fails("panic", "JobDidntFinish")

-----------------------------------------------------------------------------
(***************************************************************************)
(* poll_flush of a consumer.                                               *)
(***************************************************************************)
TakeNext(c) ==
    /\ submitting[c] = NoItem /\ sink[c] # <<>>
    /\ sink' = [sink EXCEPT ![c] = Tail(@)]
    /\ submitting' = [submitting EXCEPT ![c] = Head(sink[c])]
    /\ UNCHANGED submitted

\* Mutant: the submission is taken for done before there is one.
Submit_unguarded(c) ==
    /\ submitting' = [submitting EXCEPT ![c] = NoItem]
    /\ submitted' = [submitted EXCEPT ![c] = @ \cup {submitting[c]}]
    /\ UNCHANGED sink

Submit(c) ==
    /\ submitting[c] # NoItem
    /\ submitting' = [submitting EXCEPT ![c] = NoItem]
    /\ submitted' = [submitted EXCEPT ![c] = @ \cup {submitting[c]}]
    /\ UNCHANGED sink

Flush(c) ==
    /\ phase = "sending"
    /\ TakeNext(c) \/ Submit(c)
    /\ UNCHANGED <<chainVars, producerVars, runnerVars>>

\* The first consumer to fail ends try_join_all and the runner.
SubmissionFails(c) ==
    /\ phase = "sending" /\ submitting[c] # NoItem
    /\ Fails("submission", "Consumer")

\* Mutant: sending ends as soon as one consumer is done.
Flushed_any == \E c \in Consumers : sink[c] = <<>> /\ submitting[c] = NoItem

Flushed == \A c \in Consumers : sink[c] = <<>> /\ submitting[c] = NoItem

AllSent ==
    /\ phase = "sending" /\ Flushed
    /\ phase' = "select"
    /\ UNCHANGED <<chainVars, producerVars, sinkVars,
                   outcome, dispatched, pending_jobs, ignored, produced, background>>

-----------------------------------------------------------------------------
\* A background service reports its end; an error it reports is taken for a success.
BackgroundEnds(s) ==
    /\ phase = "select" /\ s \in background
    /\ background' = background \ {s}
    /\ UNCHANGED <<chainVars, producerVars, sinkVars,
                   phase, outcome, dispatched, pending_jobs, ignored, produced>>

\* A background service goes away, or like heartbeat_service never was there, without a report.
SenderDropped ==
    /\ phase = "select" /\ background # {}
    /\ Fails("sender dropped", "BackgroundService")

\* The chain grows as long as someone reads it.
Chain ==
    /\ phase # "ended"
    /\ \E content \in BlockContents : NewBlock(content)
    /\ UNCHANGED <<runnerVars, sinkVars>>

Done ==
    /\ phase = "ended"
    /\ UNCHANGED vars

Next ==
    \/ Chain
    \/ \E r \in RegistrationNeeds : Setup(r)
    \/ SetupFails
    \/ ProducerStep
    \/ \E l \in buffer : Dispatch(l)
    \/ ProducerFails
    \/ \E l \in pending_jobs :
         \/ \E k \in 1..MaxResults : JobFinished(l, k)
         \/ JobIgnored(l)
    \/ JobFails
    \/ JobPanics
    \/ \E c \in Consumers : Flush(c) \/ SubmissionFails(c)
    \/ AllSent
    \/ \E s \in background : BackgroundEnds(s)
    \/ SenderDropped
    \/ Done

Spec == Init /\ [][Next]_vars

(***************************************************************************)
(* tokio polls a task that was woken, and select! starts with a random     *)
(* branch, so a branch that is ready again and again is taken.  Jobs end,  *)
(* RPC calls and submissions are answered in the end.                      *)
(***************************************************************************)
FairSpec ==
    /\ Spec
    /\ WF_vars(\E r \in RegistrationNeeds : Setup(r))
    /\ SF_vars(ProducerStep /\ StartPoll)
    /\ SF_vars(ProducerStep /\ ReadBlockNumber)
    /\ SF_vars(ProducerStep /\ PollSucceeds)
    /\ SF_vars(\E l \in buffer : Dispatch(l))
    /\ SF_vars(\E l \in pending_jobs : (\E k \in 1..MaxResults : JobFinished(l, k)) \/ JobIgnored(l))
    /\ \A c \in Consumers : WF_vars(Flush(c))
    /\ WF_vars(AllSent)

-----------------------------------------------------------------------------
(***************************************************************************)
(* The cursor (producer.rs:289-316) neither skips nor repeats a job call:  *)
(* what was dispatched and what is buffered are, without overlap and in    *)
(* the order of the chain, the job calls up to the cursor, whatever        *)
(* range, log index and retry each poll worked with.                       *)
(***************************************************************************)
EveryJobOnce ==
    /\ dispatched \cup buffer = JobsUpToCursor
    /\ \A d \in dispatched, l \in buffer : Before(d, l)

Held(c) == (ToSet(sink[c]) \cup {submitting[c]}) \ {NoItem}

(***************************************************************************)
(* While the runner runs no result gets lost between a job and the         *)
(* consumers (lib.rs:1233-1262, consumer.rs poll_flush): every job call is *)
(* running, ignored, or has results, which every consumer has submitted or *)
(* still holds; and no consumer holds any when the runner polls something  *)
(* else again, so that dropping the consumers, which are never closed,     *)
(* drops no result of a broadcast that succeeded.                          *)
(***************************************************************************)
NoResultLost ==
    phase # "ended" =>
        /\ \A d \in dispatched :
             \/ d \in pending_jobs \cup ignored
             \/ \E i \in produced : i.job = d
        /\ \A c \in Consumers :
             /\ produced = submitted[c] \cup Held(c)
             /\ phase = "select" => Held(c) = {}

Answered(l) ==
    \/ l \in ignored
    \/ \A c \in Consumers : \E i \in submitted[c] : i.job = l

(***************************************************************************)
(* Every job call is answered in the end: unless the runner ends, again    *)
(* and again every job call of the chain from the first block on has been  *)
(* ignored or submitted by every consumer.  The chain of a behaviour is    *)
(* finite, so none waits for ever: not for a full pool of jobs, a busy     *)
(* consumer, or a cursor that stands still (lib.rs:1173, producer.rs:310). *)
(***************************************************************************)
JobsAreAnswered ==
    []<> (\/ phase = "ended"
          \/ /\ latest > 0 => last_block > 0
             /\ \A l \in logs : l.job /\ l.block >= first => Answered(l))
=============================================================================
