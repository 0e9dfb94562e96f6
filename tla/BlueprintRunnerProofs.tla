----------------------- MODULE BlueprintRunnerProofs ------------------------
(***************************************************************************)
(* Proofs about BlueprintRunner, for every range, block content, number of *)
(* consumers and services, and failure.                                    *)
(***************************************************************************)
EXTENDS BlueprintRunner, TLAPS

(***************************************************************************)
(* What the cursor rests on: where the logs are, what range a poll asks    *)
(* for, and that the cursor is in the chain or where it started.           *)
(***************************************************************************)
LogsInChain == \A l \in logs : 1 <= l.block /\ l.block <= latest

PollFollowsCursor ==
    /\ poll.at # "none" => buffer = {}
    /\ poll.at = "logs" =>
         /\ last_block # 0 => poll.from = last_block
         /\ poll.from <= poll.to
         /\ poll.to <= latest

CursorInChain ==
    /\ first <= last_block
    /\ last_block <= latest \/ (last_block = first /\ last_log_index = -1)
    /\ last_block = 0 => last_log_index = -1

SinksAreFlushed == phase # "sending" => Flushed

Accounted ==
    phase # "ended" =>
        /\ \A d \in dispatched :
             \/ d \in pending_jobs \cup ignored
             \/ \E i \in produced : i.job = d
        /\ \A c \in Consumers : produced = submitted[c] \cup Held(c)

ProducerInv == LogsInChain /\ PollFollowsCursor /\ CursorInChain /\ EveryJobOnce

IInv == TypeOK /\ ProducerInv /\ SinksAreFlushed /\ Accounted

-----------------------------------------------------------------------------
\* A poll that succeeds hands out what lies between the old cursor and the new one.
LEMMA PollAdvances ==
    ASSUME ProducerTypeOK, ProducerInv, PollSucceeds, UNCHANGED <<logs, latest, dispatched>>,
           dispatched \subseteq logs
    PROVE  ProducerTypeOK' /\ ProducerInv'
<1> USE DEF ProducerTypeOK, Log, Poll, NoPoll
<1>1. logs' = logs /\ latest' = latest /\ dispatched' = dispatched
  OBVIOUS
<1>2. poll.at = "logs" /\ buffer = {} /\ poll.from \in Nat /\ poll.to \in Nat
      /\ poll.from <= poll.to /\ poll.to <= latest
  BY DEF PollSucceeds, ProducerInv, PollFollowsCursor
<1>3. FilteredLogs \subseteq logs
  BY DEF FilteredLogs
<1>4. last_block' \in Nat /\ last_log_index' \in Nat \cup {-1}
      /\ poll.from <= last_block' /\ last_block' <= poll.to
  <2>1. ASSUME NEW l \in FilteredLogs
        PROVE  l.block \in Nat /\ l.index \in Nat /\ poll.from <= l.block /\ l.block <= poll.to
    BY <2>1, <1>2, <1>3 DEF FilteredLogs
  <2> QED
    BY <2>1, <1>2 DEF PollSucceeds, Advance
<1>5. ProducerTypeOK'
  BY <1>1, <1>2, <1>3, <1>4 DEF PollSucceeds
<1>6. LogsInChain' /\ PollFollowsCursor'
  BY <1>1 DEF LogsInChain, PollFollowsCursor, ProducerInv, PollSucceeds
<1>7. CursorInChain'
  <2>1. first' <= last_block'
    BY <1>2, <1>4 DEF PollSucceeds, ProducerInv, CursorInChain, PollFollowsCursor
  <2>2. last_block' <= latest'
    BY <1>1, <1>2, <1>4
  <2>3. last_block' = 0 => last_log_index' = -1
    <3> SUFFICES ASSUME last_block' = 0 PROVE last_log_index' = -1
      OBVIOUS
    <3>1. \A l \in FilteredLogs : l.block # 0
      BY <1>3 DEF LogsInChain, ProducerInv
    <3>2. FilteredLogs = {}
      BY <3>1, <1>3, <1>2 DEF PollSucceeds, Advance
    <3>3. last_block = 0 \/ last_block = poll.from
      BY <1>2 DEF ProducerInv, PollFollowsCursor
    <3> QED
      BY <3>2, <3>3, <1>2 DEF PollSucceeds, Advance, ProducerInv, CursorInChain
  <2> QED
    BY <2>1, <2>2, <2>3 DEF CursorInChain
<1>8. EveryJobOnce'
  <2> DEFINE old == [block |-> last_block, index |-> last_log_index]
             new == [block |-> last_block', index |-> last_log_index']
  <2>1. dispatched = JobsUpToCursor
    BY <1>2 DEF ProducerInv, EveryJobOnce
  <2>2. ASSUME last_block = 0 PROVE dispatched = {} /\ last_log_index = -1
    <3>1. last_log_index = -1
      BY <2>2 DEF ProducerInv, CursorInChain
    <3>2. \A l \in logs : Before(old, l)
      BY <2>2 DEF ProducerInv, LogsInChain, Before
    <3> QED
      BY <3>1, <3>2, <2>1 DEF JobsUpToCursor
  <2>3. ASSUME NEW l \in logs, last_block # 0
        PROVE  l \in FilteredLogs <=> Before(old, l) /\ l.block <= poll.to
    BY <2>3, <1>2 DEF FilteredLogs, Before, ProducerInv, PollFollowsCursor
  <2>4. ASSUME NEW l \in logs, last_block = 0
        PROVE  l \in FilteredLogs <=> poll.from <= l.block /\ l.block <= poll.to
    BY <2>4, <2>2, <1>2 DEF FilteredLogs
  <2>5. ASSUME NEW l \in FilteredLogs PROVE ~ Before(new, l)
    <3>1. CASE \E m \in FilteredLogs : /\ \A o \in FilteredLogs : o = m \/ Before(o, m)
                                       /\ last_block' = m.block /\ last_log_index' = m.index
      BY <3>1, <2>5, <1>3 DEF Before
    <3>2. CASE FilteredLogs = {}
      BY <3>2, <2>5
    <3> QED
      BY <3>1, <3>2 DEF PollSucceeds, Advance
  \* A log between the cursors is one of the range.
  <2>6. ASSUME NEW l \in logs, ~ Before(new, l), l.block >= first', last_block # 0 => Before(old, l)
        PROVE  l \in FilteredLogs
    <3>1. l.block <= last_block'
      BY <2>6, <1>4 DEF Before
    <3>2. l.block <= poll.to
      BY <3>1, <1>4, <1>2
    <3>3. CASE last_block = 0
      BY <3>3, <3>2, <2>4, <2>6, <1>2 DEF PollSucceeds
    <3>4. CASE last_block # 0
      BY <3>4, <3>2, <2>3, <2>6
    <3> QED
      BY <3>3, <3>4
  <2>7. ASSUME NEW l \in logs, last_block # 0, ~ Before(old, l)
        PROVE  ~ Before(new, l)
    <3>1. CASE FilteredLogs # {}
      <4>1. PICK m \in FilteredLogs : last_block' = m.block /\ last_log_index' = m.index
        BY <3>1 DEF PollSucceeds, Advance
      <4>2. m \in logs /\ Before(old, m)
        BY <4>1, <2>7, <2>3, <1>3
      <4> QED
        BY <4>1, <4>2, <2>7 DEF Before
    <3>2. CASE FilteredLogs = {}
      BY <3>2, <2>7, <1>2 DEF PollSucceeds, Advance, Before, ProducerInv, PollFollowsCursor
    <3> QED
      BY <3>1, <3>2
  <2>8. dispatched' \cup buffer' = JobsUpToCursor'
    <3>1. JobsUpToCursor' = {l \in logs : l.job /\ l.block >= first' /\ ~ Before(new, l)}
      BY <1>1 DEF JobsUpToCursor, Before
    <3>2. CASE last_block = 0
      <4>1. first' = poll.from /\ dispatched' = {}
        BY <3>2, <2>2, <1>1 DEF PollSucceeds
      <4>2. \A l \in FilteredLogs : l \in logs /\ l.block >= first'
        BY <4>1, <3>2, <2>4, <1>3, <1>2
      <4>3. \A l \in logs : l.block >= first' /\ ~ Before(new, l) => l \in FilteredLogs
        BY <2>6, <3>2
      <4> QED
        BY <4>1, <4>2, <4>3, <3>1, <2>5 DEF PollSucceeds
    <3>3. CASE last_block # 0
      <4>1. first' = first
        BY <3>3 DEF PollSucceeds
      <4>2. \A l \in FilteredLogs : l \in logs /\ l.block >= first'
        BY <4>1, <3>3, <1>3, <1>2 DEF FilteredLogs, ProducerInv, PollFollowsCursor, CursorInChain
      <4>3. \A l \in logs : l.job /\ l.block >= first /\ ~ Before(old, l) <=> l \in dispatched
        BY <2>1, <1>3 DEF JobsUpToCursor
      <4>4. \A l \in logs : l.block >= first' /\ ~ Before(new, l) /\ Before(old, l)
                              => l \in FilteredLogs
        BY <2>6
      <4>5. \A l \in logs : ~ Before(old, l) => ~ Before(new, l)
        BY <2>7, <3>3
      <4>6. \A l \in logs : l \in dispatched' \cup buffer' <=> l \in JobsUpToCursor'
        BY <4>1, <4>2, <4>3, <4>4, <4>5, <3>1, <2>5, <1>1 DEF PollSucceeds
      <4> QED
        BY <4>6, <3>1, <1>1, <1>3 DEF PollSucceeds
    <3> QED
      BY <3>2, <3>3
  <2>9. \A d \in dispatched', l \in buffer' : Before(d, l)
    <3>1. CASE last_block = 0
      BY <3>1, <2>2, <1>1
    <3>2. CASE last_block # 0
      <4> SUFFICES ASSUME NEW d \in dispatched, NEW l \in FilteredLogs PROVE Before(d, l)
        BY <1>1 DEF PollSucceeds
      <4>1. ~ Before(old, d) /\ d \in logs
        BY <2>1 DEF JobsUpToCursor
      <4>2. Before(old, l) /\ l \in logs
        BY <3>2, <2>3, <1>3
      <4> QED
        BY <4>1, <4>2 DEF Before
    <3> QED
      BY <3>1, <3>2
  <2> QED
    BY <2>8, <2>9 DEF EveryJobOnce
<1> QED
  BY <1>5, <1>6, <1>7, <1>8 DEF ProducerInv

\* A step that leaves chain, producer and dispatched jobs alone leaves ProducerInv alone.
LEMMA ProducerFrame ==
    ASSUME ProducerInv, UNCHANGED <<chainVars, producerVars, dispatched>>
    PROVE  ProducerInv'
  BY DEF chainVars, producerVars, ProducerInv, LogsInChain, PollFollowsCursor, CursorInChain,
         EveryJobOnce, JobsUpToCursor, Before

\* A new block lies behind the cursor, or before the block the producer starts from.
LEMMA ChainStep ==
    ASSUME ProducerAssumption, ProducerTypeOK, ProducerInv,
           NEW content \in BlockContents, NewBlock(content), UNCHANGED dispatched
    PROVE  ProducerTypeOK' /\ ProducerInv'
<1> USE DEF ProducerTypeOK, producerVars
<1> DEFINE cursor == [block |-> last_block, index |-> last_log_index]
<1>1. latest' = latest + 1 /\ latest' \in Nat /\ logs \subseteq logs'
      /\ UNCHANGED <<last_block, last_log_index, buffer, poll, first, dispatched>>
  BY DEF NewBlock
<1>2. Len(content) \in Nat /\ \A i \in 1..Len(content) : content[i] \in BOOLEAN
  BY DEF ProducerAssumption
<1>3. \A l \in logs' \ logs : l.block = latest + 1 /\ l.index \in Nat /\ l \in Log
  BY <1>2 DEF NewBlock, Log
<1>4. ProducerTypeOK'
  BY <1>1, <1>3
<1>5. LogsInChain'
  BY <1>1, <1>3 DEF ProducerInv, LogsInChain, Log
<1>6. PollFollowsCursor' /\ CursorInChain'
  BY <1>1 DEF ProducerInv, PollFollowsCursor, CursorInChain, Poll
<1>7. \A l \in logs' \ logs : l.block < first \/ Before(cursor, l)
  <2> SUFFICES ASSUME NEW l \in logs' \ logs PROVE l.block < first \/ Before(cursor, l)
    OBVIOUS
  <2>1. l.block = latest + 1 /\ l.index \in Nat
    BY <1>3
  <2> QED
    BY <2>1 DEF Before, ProducerInv, CursorInChain
<1>8. JobsUpToCursor' = JobsUpToCursor
  <2>1. JobsUpToCursor' = {l \in logs' : l.job /\ l.block >= first /\ ~ Before(cursor, l)}
    BY <1>1 DEF JobsUpToCursor, Before
  <2>2. \A l \in logs' \ logs : ~ (l.block >= first /\ ~ Before(cursor, l))
    BY <1>7, <1>3
  <2> QED
    BY <2>1, <2>2, <1>1 DEF JobsUpToCursor
<1>9. EveryJobOnce'
  BY <1>8, <1>1 DEF ProducerInv, EveryJobOnce, Before
<1> QED
  BY <1>4, <1>5, <1>6, <1>9 DEF ProducerInv

\* The other steps of a poll leave the cursor and what was handed out alone.
LEMMA PollSteps ==
    ASSUME ProducerAssumption, ProducerTypeOK, ProducerInv, UNCHANGED <<chainVars, dispatched>>,
           StartPoll \/ ReadBlockNumber \/ PollFails
    PROVE  ProducerTypeOK' /\ ProducerInv'
<1> USE DEF ProducerTypeOK, chainVars, Poll, NoPoll
<1>1. UNCHANGED <<logs, latest, dispatched, last_block, last_log_index, buffer, first>>
  BY DEF StartPoll, ReadBlockNumber, PollFails
<1>2. effective_from_block \in Nat /\ (last_block # 0 => effective_from_block = last_block)
  BY DEF effective_from_block, Most, ProducerAssumption
<1>3. poll' \in Poll
  <2>1. CASE StartPoll \/ PollFails
    BY <2>1 DEF StartPoll, PollFails
  <2>2. CASE ReadBlockNumber
    BY <1>2, <2>2, SMTT(30) DEF ReadBlockNumber, Least, ProducerAssumption
  <2> QED
    BY <2>1, <2>2
<1>4. PollFollowsCursor'
  <2>1. CASE StartPoll
    BY <2>1, <1>1 DEF StartPoll, PollFollowsCursor
  <2>2. CASE ReadBlockNumber
    BY <2>2, <1>1, <1>2 DEF ReadBlockNumber, PollFollowsCursor, ProducerInv, Least,
                            ProducerAssumption
  <2>3. CASE PollFails
    BY <2>3, <1>1 DEF PollFails, PollFollowsCursor, ProducerInv
  <2> QED
    BY <2>1, <2>2, <2>3
<1>5. LogsInChain' /\ CursorInChain' /\ EveryJobOnce'
  BY <1>1 DEF ProducerInv, LogsInChain, CursorInChain, EveryJobOnce, JobsUpToCursor, Before
<1> QED
  BY <1>1, <1>3, <1>4, <1>5 DEF ProducerInv

\* Handing out the first job call of the buffer.
LEMMA YieldStep ==
    ASSUME ProducerTypeOK, ProducerInv, UNCHANGED chainVars, NEW l, Yield(l),
           dispatched' = dispatched \cup {l}
    PROVE  ProducerTypeOK' /\ ProducerInv' /\ l \in logs
<1>1. l \in buffer /\ \A o \in buffer : o = l \/ Before(l, o)
  BY DEF Yield, NextJob
<1>2. UNCHANGED <<logs, latest, last_block, last_log_index, poll, first>>
      /\ buffer' = buffer \ {l}
  BY DEF Yield, chainVars
<1>3. ProducerTypeOK' /\ l \in logs
  BY <1>1, <1>2 DEF ProducerTypeOK
<1>4. LogsInChain' /\ PollFollowsCursor' /\ CursorInChain'
  BY <1>1, <1>2 DEF ProducerInv, LogsInChain, PollFollowsCursor, CursorInChain
<1>5. dispatched' \cup buffer' = dispatched \cup buffer /\ JobsUpToCursor' = JobsUpToCursor
  BY <1>1, <1>2 DEF JobsUpToCursor, Before
<1>6. \A d \in dispatched', m \in buffer' : Before(d, m)
  BY <1>1, <1>2 DEF ProducerInv, EveryJobOnce, Before
<1> QED
  BY <1>3, <1>4, <1>5, <1>6 DEF ProducerInv, EveryJobOnce, Before

-----------------------------------------------------------------------------
\* What TypeOK says of the runner and the sinks.
RunnerTypeOK ==
    /\ phase \in {"setup", "select", "sending", "ended"}
    /\ outcome \in Outcomes
    /\ dispatched \subseteq logs
    /\ pending_jobs \subseteq dispatched
    /\ ignored \subseteq dispatched
    /\ produced \subseteq Item
    /\ sink \in [Consumers -> Seq(Item)]
    /\ submitting \in [Consumers -> Item \cup {NoItem}]
    /\ submitted \in [Consumers -> SUBSET Item]
    /\ background \subseteq Services

LEMMA TypeSplit == TypeOK <=> ProducerTypeOK /\ RunnerTypeOK
  BY DEF TypeOK, RunnerTypeOK

RunnerInv == RunnerTypeOK /\ SinksAreFlushed /\ Accounted

\* Nothing is held by an empty sink.
LEMMA FlushedHoldsNothing ==
    ASSUME NEW c \in Consumers, sink[c] = <<>>, submitting[c] = NoItem
    PROVE  Held(c) = {}
  BY DEF Held, ToSet

LEMMA EndStep ==
    ASSUME RunnerInv, NEW how \in Outcomes, End(how)
    PROVE  RunnerInv' /\ UNCHANGED <<chainVars, producerVars, dispatched>>
<1>1. RunnerTypeOK'
  BY DEF End, RunnerInv, RunnerTypeOK, chainVars
<1>2. SinksAreFlushed' /\ Accounted'
  BY DEF End, SinksAreFlushed, Flushed, Accounted
<1> QED
  BY <1>1, <1>2 DEF End, RunnerInv

\* What a job hands to an empty sink is all the sink holds.
LEMMA SendStep ==
    ASSUME RunnerInv, ProducerTypeOK, NEW l \in pending_jobs, NEW k \in 1..MaxResults,
           MaxResults \in Nat, JobFinished(l, k), NoItem \notin Item
    PROVE  RunnerInv'
<1> DEFINE sent == [i \in 1..k |-> [job |-> l, n |-> i]]
<1>1. l \in Log /\ k \in Nat /\ k >= 1
  BY DEF RunnerInv, RunnerTypeOK, ProducerTypeOK
<1>2. sent \in Seq(Item) /\ Results(l, k) \subseteq Item /\ [job |-> l, n |-> 1] \in Results(l, k)
  BY <1>1 DEF Item, Results
<1>3. ASSUME NEW c \in Consumers
      PROVE  sink'[c] = sent /\ submitting'[c] = NoItem /\ produced = submitted[c]
  <2>1. sink[c] = <<>> /\ submitting[c] = NoItem /\ Held(c) = {}
    BY FlushedHoldsNothing DEF JobFinished, RunnerInv, SinksAreFlushed, Flushed
  <2>2. <<>> \o sent = sent
    BY <1>2
  <2>3. sink'[c] = sink[c] \o sent
    BY DEF JobFinished, SendAll
  <2>4. submitting'[c] = NoItem
    BY <2>1 DEF JobFinished
  <2>5. produced = submitted[c] \cup Held(c)
    BY DEF JobFinished, RunnerInv, Accounted
  <2> QED
    BY <2>1, <2>2, <2>3, <2>4, <2>5
<1>4. RunnerTypeOK'
  <2>1. sink' \in [Consumers -> Seq(Item)]
    BY <1>2, <1>3 DEF JobFinished, SendAll
  <2> QED
    BY <2>1, <1>2 DEF JobFinished, RunnerInv, RunnerTypeOK, chainVars
<1>5. ASSUME NEW c \in Consumers
      PROVE  produced' = submitted'[c] \cup Held(c)'
  <2>1. ToSet(sent) = Results(l, k)
    BY <1>1 DEF ToSet, Results
  <2>2. Held(c)' = Results(l, k)
    BY <2>1, <1>2, <1>3 DEF Held
  <2> QED
    BY <2>2, <1>3 DEF JobFinished
<1>6. \A d \in dispatched' : \/ d \in pending_jobs' \cup ignored'
                             \/ \E i \in produced' : i.job = d
  BY <1>2 DEF JobFinished, RunnerInv, Accounted
<1> QED
  BY <1>4, <1>5, <1>6 DEF RunnerInv, Accounted, SinksAreFlushed, JobFinished

\* A result moves from the buffer to the submission, and from there to the chain.
LEMMA FlushStep ==
    ASSUME RunnerInv, NEW c \in Consumers, Flush(c), NoItem \notin Item
    PROVE  RunnerInv'
<1>1. UNCHANGED <<phase, outcome, dispatched, pending_jobs, ignored, produced, background, logs>>
      /\ phase = "sending"
  BY DEF Flush, runnerVars, chainVars
<1>2. sink \in [Consumers -> Seq(Item)] /\ submitting \in [Consumers -> Item \cup {NoItem}]
      /\ submitted \in [Consumers -> SUBSET Item]
  BY DEF RunnerInv, RunnerTypeOK
<1>3. /\ sink' \in [Consumers -> Seq(Item)] /\ submitting' \in [Consumers -> Item \cup {NoItem}]
      /\ submitted' \in [Consumers -> SUBSET Item]
      /\ \A d \in Consumers : submitted'[d] \cup Held(d)' = submitted[d] \cup Held(d)
  <2>1. CASE TakeNext(c)
    <3>1. sink[c] \in Seq(Item) /\ sink[c] # <<>> /\ submitting[c] = NoItem
      BY <2>1, <1>2 DEF TakeNext
    <3>2. Tail(sink[c]) \in Seq(Item) /\ Head(sink[c]) \in Item
      BY <3>1
    <3>3. ToSet(sink[c]) = {Head(sink[c])} \cup ToSet(Tail(sink[c]))
      <4> DEFINE s == sink[c]
      <4>1. Len(s) \in Nat /\ Len(s) >= 1 /\ DOMAIN s = 1..Len(s) /\ Head(s) = s[1]
        BY <3>1
      <4>2. Len(Tail(s)) = Len(s) - 1 /\ DOMAIN Tail(s) = 1..(Len(s) - 1)
            /\ \A i \in 1..(Len(s) - 1) : Tail(s)[i] = s[i + 1]
        BY <3>1, <4>1
      <4>3. ASSUME NEW x \in ToSet(s) PROVE x \in {Head(s)} \cup ToSet(Tail(s))
        <5>1. PICK i \in 1..Len(s) : x = s[i]
          BY <4>1, <4>3 DEF ToSet
        <5>2. CASE i = 1
          BY <5>1, <5>2, <4>1
        <5>3. CASE i # 1
          <6>1. i - 1 \in 1..(Len(s) - 1) /\ x = Tail(s)[i - 1]
            BY <5>1, <5>3, <4>1, <4>2
          <6> QED
            BY <6>1, <4>2 DEF ToSet
        <5> QED
          BY <5>2, <5>3
      <4>4. ASSUME NEW x \in ToSet(Tail(s)) PROVE x \in ToSet(s)
        <5>1. PICK i \in 1..(Len(s) - 1) : x = Tail(s)[i]
          BY <4>2, <4>4 DEF ToSet
        <5>2. i + 1 \in 1..Len(s) /\ x = s[i + 1]
          BY <5>1, <4>1, <4>2
        <5> QED
          BY <5>2, <4>1 DEF ToSet
      <4>5. Head(s) \in ToSet(s)
        BY <4>1 DEF ToSet
      <4> QED
        BY <4>3, <4>4, <4>5
    <3>4. /\ sink' = [sink EXCEPT ![c] = Tail(sink[c])]
          /\ submitting' = [submitting EXCEPT ![c] = Head(sink[c])]
          /\ submitted' = submitted
      BY <2>1 DEF TakeNext
    <3>5. \A d \in Consumers : Held(d)' = Held(d)
      <4> SUFFICES ASSUME NEW d \in Consumers PROVE Held(d)' = Held(d)
        OBVIOUS
      <4>1. CASE d = c
        <5>1. Held(d)' = (ToSet(Tail(sink[c])) \cup {Head(sink[c])}) \ {NoItem}
          BY <4>1, <3>4, <1>2 DEF Held
        <5>2. Held(d) = ToSet(sink[c]) \ {NoItem}
          BY <4>1, <3>1 DEF Held
        <5> QED
          BY <5>1, <5>2, <3>3
      <4>2. CASE d # c
        BY <4>2, <3>4, <1>2 DEF Held
      <4> QED
        BY <4>1, <4>2
    <3> QED
      BY <3>2, <3>4, <3>5, <1>2
  <2>2. CASE Submit(c)
    <3>1. /\ sink' = sink /\ submitting[c] \in Item
          /\ submitting' = [submitting EXCEPT ![c] = NoItem]
          /\ submitted' = [submitted EXCEPT ![c] = submitted[c] \cup {submitting[c]}]
      BY <2>2, <1>2 DEF Submit
    <3>2. \A d \in Consumers : submitted'[d] \cup Held(d)' = submitted[d] \cup Held(d)
      BY <3>1, <1>2 DEF Held
    <3> QED
      BY <3>1, <3>2, <1>2
  <2> QED
    BY <2>1, <2>2 DEF Flush
<1>4. RunnerTypeOK'
  BY <1>1, <1>3 DEF RunnerInv, RunnerTypeOK
<1>5. SinksAreFlushed' /\ Accounted'
  BY <1>1, <1>3 DEF RunnerInv, SinksAreFlushed, Accounted
<1> QED
  BY <1>4, <1>5 DEF RunnerInv

-----------------------------------------------------------------------------
\* The inductive invariant holds at the start and is kept by every step.
LEMMA InitEstablishes == Init => IInv
<1> SUFFICES ASSUME Init PROVE IInv
  OBVIOUS
<1> USE ProducerAssumption DEF Init, ProducerInit
<1>1. TypeOK
  <2>1. ProducerTypeOK
    BY DEF ProducerTypeOK, ProducerAssumption, NoPoll, Poll
  <2>2. RunnerTypeOK
    BY DEF RunnerTypeOK, Outcomes
  <2> QED
    BY <2>1, <2>2, TypeSplit
<1>2. ProducerInv
  BY DEF ProducerInv, LogsInChain, PollFollowsCursor, CursorInChain, EveryJobOnce,
         JobsUpToCursor, NoPoll, ProducerAssumption
<1>3. \A c \in Consumers : Held(c) = {}
  BY FlushedHoldsNothing
<1> QED
  BY <1>1, <1>2, <1>3 DEF IInv, SinksAreFlushed, Flushed, Accounted

LEMMA NextPreserves == IInv /\ [Next]_vars => IInv'
<1> SUFFICES ASSUME IInv, [Next]_vars PROVE IInv'
  OBVIOUS
<1> USE ProducerAssumption, RunnerAssumption, NoItemAssumption
<1>0. ProducerTypeOK /\ ProducerInv /\ RunnerInv
  BY TypeSplit DEF IInv, RunnerInv
<1> SUFFICES ProducerTypeOK' /\ ProducerInv' /\ RunnerInv'
  BY DEF IInv, RunnerInv, TypeOK, RunnerTypeOK
<1>1. ASSUME UNCHANGED <<chainVars, producerVars, dispatched>>
      PROVE  ProducerTypeOK' /\ ProducerInv'
  BY <1>0, <1>1, ProducerFrame DEF ProducerTypeOK, chainVars, producerVars
<1>2. ASSUME NEW how \in Outcomes, End(how)
      PROVE  ProducerTypeOK' /\ ProducerInv' /\ RunnerInv'
  BY <1>0, <1>1, <1>2, EndStep
<1>3. ASSUME UNCHANGED <<runnerVars, sinkVars>>, logs \subseteq logs'
      PROVE  RunnerInv'
  BY <1>0, <1>3 DEF runnerVars, sinkVars, RunnerInv, RunnerTypeOK, SinksAreFlushed, Flushed,
                    Accounted, Held
<1>4. CASE Chain
  <2>1. PICK content \in BlockContents : NewBlock(content)
    BY <1>4 DEF Chain
  <2>2. UNCHANGED <<runnerVars, sinkVars>>
    BY <1>4 DEF Chain
  <2> QED
    BY <2>1, <2>2, <1>0, <1>3, ChainStep DEF runnerVars, NewBlock
<1>5. CASE \E r \in RegistrationNeeds : Setup(r)
  <2>1. PICK r \in RegistrationNeeds : Setup(r)
    BY <1>5
  <2>2. CASE EndsAfterRegistration(r)
    BY <2>1, <2>2, <1>2 DEF Setup, Outcomes
  <2>3. CASE ~ EndsAfterRegistration(r)
    <3>1. /\ phase = "setup" /\ phase' = "select"
          /\ UNCHANGED <<chainVars, producerVars, sink, submitting, submitted, outcome,
                         dispatched, pending_jobs, ignored, produced, background>>
      BY <2>1, <2>3 DEF Setup, sinkVars
    <3>2. RunnerInv'
      BY <3>1, <1>0 DEF RunnerInv, RunnerTypeOK, SinksAreFlushed, Flushed, Accounted, Held,
                        chainVars
    <3> QED
      BY <3>1, <3>2, <1>1
  <2> QED
    BY <2>2, <2>3
<1>6. CASE SetupFails \/ ProducerFails \/ JobFails \/ JobPanics \/ SenderDropped
           \/ \E c \in Consumers : SubmissionFails(c)
  BY <1>6, <1>2 DEF SetupFails, ProducerFails, JobFails, JobPanics, SenderDropped,
                    SubmissionFails, Fails, Outcomes
<1>7. CASE ProducerStep
  <2>1. UNCHANGED <<chainVars, runnerVars, sinkVars>>
    BY <1>7 DEF ProducerStep
  <2>2. RunnerInv'
    BY <2>1, <1>3 DEF chainVars
  <2>3. UNCHANGED <<logs, latest, dispatched>> /\ dispatched \subseteq logs
    BY <2>1, <1>0 DEF chainVars, runnerVars, RunnerInv, RunnerTypeOK
  <2>4. CASE PollSucceeds
    BY <2>4, <2>2, <2>3, <1>0, PollAdvances
  <2>5. CASE StartPoll \/ ReadBlockNumber \/ PollFails
    BY <2>5, <2>2, <2>3, <1>0, PollSteps DEF chainVars
  <2> QED
    BY <2>4, <2>5, <1>7 DEF ProducerStep
<1>8. CASE \E l \in buffer : Dispatch(l)
  <2>1. PICK l \in buffer : Dispatch(l)
    BY <1>8
  <2>2. /\ Yield(l) /\ UNCHANGED chainVars /\ dispatched' = dispatched \cup {l}
        /\ pending_jobs' = pending_jobs \cup {l}
        /\ UNCHANGED <<sink, submitting, submitted, phase, outcome, ignored, produced, background>>
    BY <2>1 DEF Dispatch, sinkVars
  <2>3. ProducerTypeOK' /\ ProducerInv' /\ l \in logs
    BY <2>2, <1>0, YieldStep
  <2>4. RunnerInv'
    BY <2>2, <2>3, <1>0 DEF RunnerInv, RunnerTypeOK, SinksAreFlushed, Flushed, Accounted, Held,
                            chainVars
  <2> QED
    BY <2>3, <2>4
<1>9. CASE \E l \in pending_jobs :
             (\E k \in 1..MaxResults : JobFinished(l, k)) \/ JobIgnored(l)
  <2>1. CASE \E l \in pending_jobs, k \in 1..MaxResults : JobFinished(l, k)
    <3>1. PICK l \in pending_jobs, k \in 1..MaxResults : JobFinished(l, k)
      BY <2>1
    <3> QED
      BY <3>1, <1>0, <1>1, SendStep DEF JobFinished, RunnerAssumption
  <2>2. CASE \E l \in pending_jobs : JobIgnored(l)
    <3>1. PICK l \in pending_jobs : JobIgnored(l)
      BY <2>2
    <3>2. /\ pending_jobs' = pending_jobs \ {l} /\ ignored' = ignored \cup {l}
          /\ UNCHANGED <<chainVars, producerVars, phase, outcome, dispatched, produced,
                         background, sink, submitting, submitted>>
      BY <3>1 DEF JobIgnored, sinkVars
    <3>3. RunnerInv'
      BY <3>2, <1>0 DEF RunnerInv, RunnerTypeOK, SinksAreFlushed, Flushed, Accounted, Held,
                        chainVars
    <3> QED
      BY <3>2, <3>3, <1>1
  <2> QED
    BY <2>1, <2>2, <1>9
<1>10. CASE \E c \in Consumers : Flush(c)
  BY <1>10, <1>0, <1>1, FlushStep DEF Flush, runnerVars
<1>11. CASE AllSent
  <2>1. /\ Flushed /\ phase = "sending" /\ phase' = "select"
        /\ UNCHANGED <<chainVars, producerVars, sink, submitting, submitted, outcome,
                       dispatched, pending_jobs, ignored, produced, background>>
    BY <1>11 DEF AllSent, sinkVars
  <2>2. RunnerInv'
    BY <2>1, <1>0 DEF RunnerInv, RunnerTypeOK, SinksAreFlushed, Flushed, Accounted, Held,
                      chainVars
  <2> QED
    BY <2>1, <2>2, <1>1
<1>12. CASE \E s \in background : BackgroundEnds(s)
  <2>1. /\ background' \subseteq background
        /\ UNCHANGED <<chainVars, producerVars, sink, submitting, submitted, phase, outcome,
                       dispatched, pending_jobs, ignored, produced>>
    BY <1>12 DEF BackgroundEnds, sinkVars
  <2>2. RunnerInv'
    BY <2>1, <1>0 DEF RunnerInv, RunnerTypeOK, SinksAreFlushed, Flushed, Accounted, Held,
                      chainVars
  <2> QED
    BY <2>1, <2>2, <1>1
<1>13. CASE Done \/ UNCHANGED vars
  BY <1>13, <1>1, <1>3 DEF Done, vars, runnerVars, chainVars
<1> QED
  BY <1>4, <1>5, <1>6, <1>7, <1>8, <1>9, <1>10, <1>11, <1>12, <1>13 DEF Next

\* IInv is inductive: producer, runner and consumers never leave it.
THEOREM Invariance == Spec => []IInv
  BY InitEstablishes, NextPreserves, PTL DEF Spec

\* The state of producer, runner and consumers keeps its type (BlueprintRunner.tla, TypeOK).
THEOREM TypeCorrect == Spec => []TypeOK
<1>1. IInv => TypeOK
  BY DEF IInv
<1> QED
  BY <1>1, Invariance, PTL

\* The producer's cursor neither skips nor repeats a job call, whatever the ranges, the
\* failures of the node and the blocks that come in between (producer.rs:223-316).
THEOREM CursorIsExact == Spec => []EveryJobOnce
<1>1. IInv => EveryJobOnce
  BY DEF IInv, ProducerInv
<1> QED
  BY <1>1, Invariance, PTL

\* While the runner runs, no result is lost between the jobs and the consumers, and none
\* is held back when the runner polls something else (lib.rs:1233-1262, consumer.rs poll_flush).
THEOREM ResultsReachConsumers == Spec => []NoResultLost
<1>1. IInv => NoResultLost
  BY FlushedHoldsNothing DEF IInv, NoResultLost, Accounted, SinksAreFlushed, Flushed
<1> QED
  BY <1>1, Invariance, PTL
=============================================================================
