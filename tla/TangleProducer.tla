--------------------------- MODULE TangleProducer ---------------------------
(***************************************************************************)
(* TangleProducer of crates/tangle-extra: turns the contract's             *)
(* JobSubmitted logs into job calls by polling the chain behind a cursor,  *)
(* the last block and log index it has seen.  The cursor lives in memory   *)
(* only.                                                                   *)
(*                                                                         *)
(* The chain is external: blocks are added and never taken back.  Of a log *)
(* the model keeps its place and whether it is a job call of this service; *)
(* the others are logs of other services or events that do not decode.     *)
(***************************************************************************)
EXTENDS Integers, Sequences, FiniteSets

CONSTANTS
    MAX_LOG_RANGE_BLOCKS,   \* blocks asked for at once
    StartBlock,             \* from_block; 0 for TangleProducer::new
    BlockContents,          \* the sequences of logs a block may hold: TRUE is a job call
    MaxBlock,               \* bound: blocks of the chain
    MaxLogs                 \* bound: logs of the chain

ASSUME ProducerAssumption ==
    /\ MAX_LOG_RANGE_BLOCKS \in Nat \ {0}
    /\ StartBlock \in Nat
    /\ BlockContents \subseteq Seq(BOOLEAN)
    /\ MaxBlock \in Nat
    /\ MaxLogs \in Nat

VARIABLES
    latest,             \* number of the newest block
    logs,               \* the contract's logs
    last_block,         \* state.last_block
    last_log_index,     \* state.last_log_index, -1 for None
    buffer,             \* state.buffer, which is in the order of the chain
    poll,               \* state.poll_future: how far poll_for_jobs got
    first               \* the block the producer really started from

chainVars == <<latest, logs>>
producerVars == <<last_block, last_log_index, buffer, poll, first>>

-----------------------------------------------------------------------------
Log == [block : Nat, index : Nat, job : BOOLEAN]

NoPoll == [at |-> "none", from |-> 0, to |-> 0]

Poll == [at : {"none", "latest", "logs"}, from : Nat, to : Nat]

ProducerTypeOK ==
    /\ latest \in Nat
    /\ logs \subseteq Log
    /\ last_block \in Nat
    /\ last_log_index \in Nat \cup {-1}
    /\ buffer \subseteq logs
    /\ poll \in Poll
    /\ first \in Nat

ProducerInit ==
    /\ latest = 0
    /\ logs = {}
    /\ last_block = StartBlock
    /\ last_log_index = -1
    /\ buffer = {}
    /\ poll = NoPoll
    /\ first = StartBlock

\* External: a block is added to the chain.
NewBlock(content) ==
    /\ latest < MaxBlock
    /\ Cardinality(logs) + Len(content) <= MaxLogs
    /\ latest' = latest + 1
    /\ logs' = logs \cup {[block |-> latest + 1, index |-> i - 1, job |-> content[i]]
                             : i \in 1..Len(content)}
    /\ UNCHANGED producerVars

-----------------------------------------------------------------------------
Least(a, b) == IF a <= b THEN a ELSE b
Most(a, b) == IF a >= b THEN a ELSE b

\* Place p comes before place q in the chain.
Before(p, q) == p.block < q.block \/ (p.block = q.block /\ p.index < q.index)

\* poll_next with nothing buffered and no poll under way: a new one, after a pause.
StartPoll ==
    /\ buffer = {} /\ poll.at = "none"
    /\ poll' = [NoPoll EXCEPT !.at = "latest"]
    /\ UNCHANGED <<last_block, last_log_index, buffer, first>>

\* A producer that starts at 0 begins with the newest blocks.
effective_from_block ==
    IF last_block = 0 THEN Most(latest - (MAX_LOG_RANGE_BLOCKS - 1), 0) ELSE last_block

\* block_number answers; while the chain is behind the cursor, or the call fails, it
\* is asked again.
ReadBlockNumber ==
    /\ poll.at = "latest"
    /\ latest >= effective_from_block
    /\ poll' = [at   |-> "logs",
                from |-> effective_from_block,
                to   |-> Least(latest, effective_from_block + MAX_LOG_RANGE_BLOCKS - 1)]
    /\ UNCHANGED <<last_block, last_log_index, buffer, first>>

\* get_logs, or a block's timestamp, cannot be read: the poll starts over.
PollFails ==
    /\ poll.at = "logs"
    /\ poll' = [NoPoll EXCEPT !.at = "latest"]
    /\ UNCHANGED <<last_block, last_log_index, buffer, first>>

\* Mutant: the log index is compared whatever the block.
FilteredLogs_any_block ==
    {l \in logs : /\ l.block \in poll.from..poll.to
                  /\ last_log_index >= 0 => l.index > last_log_index}

\* The logs of the range that lie behind the cursor.
FilteredLogs ==
    {l \in logs : /\ l.block \in poll.from..poll.to
                  /\ last_log_index >= 0 /\ l.block = poll.from => l.index > last_log_index}

\* The cursor moves to the last of these logs; without any, to the end of the range.
Advance ==
    \/ \E l \in FilteredLogs :
         /\ \A o \in FilteredLogs : o = l \/ Before(o, l)
         /\ last_block' = l.block
         /\ last_log_index' = l.index
    \/ /\ FilteredLogs = {} /\ poll.to = poll.from
       /\ last_block' = poll.from
       /\ UNCHANGED last_log_index
    \/ /\ FilteredLogs = {} /\ poll.to # poll.from
       /\ last_block' = poll.to
       /\ last_log_index' = -1

\* The poll succeeds and poll_next takes its result over.
PollSucceeds ==
    /\ poll.at = "logs"
    /\ buffer' = {l \in FilteredLogs : l.job}
    /\ Advance
    /\ first' = IF last_block = 0 THEN poll.from ELSE first
    /\ poll' = NoPoll

\* The job call poll_next hands out.
NextJob == {l \in buffer : \A o \in buffer : o = l \/ Before(l, o)}

Yield(l) ==
    /\ l \in NextJob
    /\ buffer' = buffer \ {l}
    /\ UNCHANGED <<last_block, last_log_index, poll, first>>

-----------------------------------------------------------------------------
\* The job calls from the first block up to the cursor.
JobsUpToCursor ==
    {l \in logs : /\ l.job
                  /\ l.block >= first
                  /\ ~ Before([block |-> last_block, index |-> last_log_index], l)}
=============================================================================
