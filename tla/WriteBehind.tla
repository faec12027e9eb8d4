---------------------------- MODULE WriteBehind ----------------------------
(* The write-behind router, be/routers/s25_write_behind.py: POST /event      *)
(* appends to a Redis stream, a background worker and POST /flush copy the   *)
(* stream to the event_logs table and then delete the stream.                *)
(*                                                                           *)
(* One action is the code between two awaits of one coroutine: the process   *)
(* is one asyncio loop, so coroutines interleave only there.                 *)
EXTENDS Naturals, FiniteSets, Sequences, SequencesExt

CONSTANTS
    Events,     \* event payloads, each posted at most once
    Worker,     \* the background task started by the lifespan
    Forcers,    \* concurrent POST /flush requests
    BATCH,      \* _WB_BATCH_SIZE
    MaxFaults,  \* bound: failed calls and process restarts in a behaviour
    MaxClears   \* bound: DELETE /clear requests in a behaviour

ASSUME WriteBehindAssumption ==
    /\ Worker \notin Forcers
    /\ IsFiniteSet(Forcers)
    /\ BATCH \in Nat \ {0}
    /\ MaxFaults \in Nat
    /\ MaxClears \in Nat

Flushers == {Worker} \cup Forcers

VARIABLES
    stream,     \* Redis: the stream wb:events, oldest entry first
    table,      \* SQLite: event_logs in the order of the row ids
    flushed,    \* _wb_flushed
    batches,    \* _wb_flush_batches
    connected,  \* this process has a Redis handle (redis_client._redis)
    pc,         \* where each flusher is
    batch,      \* the entries each flusher read
    clearing,   \* where DELETE /clear is
    stats,      \* where GET /stats is and what it has read
    faults,     \* faults so far
    clears,     \* clears so far
    \* History of the events, which no action reads:
    posted,     \* acknowledged with 202, in that order
    saved,      \* committed to SQLite at least once
    left,       \* in the stream, beyond BATCH, when the worker read it
    late,       \* posted while some flusher was between read and delete
    wiped       \* in the stream when DELETE /clear deleted it

history == <<posted, saved, left, late, wiped>>
counters == <<flushed, batches>>
vars == <<stream, table, counters, connected, pc, batch, clearing, stats,
          faults, clears, history>>

Pending == Range(stream)
Taken(f) == Range(batch[f])
NoStats == [at |-> "idle", depth |-> 0, total |-> 0, known |-> 0]
Posted == Range(posted)
Rows(e) == {i \in DOMAIN table : table[i] = e}

Init ==
    /\ stream = <<>>
    /\ table = <<>>
    /\ flushed = 0 /\ batches = 0
    /\ connected \in BOOLEAN
    /\ pc = [f \in Flushers |-> "idle"]
    /\ batch = [f \in Flushers |-> <<>>]
    /\ clearing = "idle"
    /\ stats = NoStats
    /\ faults = 0 /\ clears = 0
    /\ posted = <<>> /\ saved = {} /\ left = {} /\ late = {} /\ wiped = {}

----------------------------------------------------------------------------
(* POST /event: XADD. Without a Redis handle the answer is 503.              *)
Post(e) ==
    /\ connected
    /\ e \notin Posted
    /\ stream' = Append(stream, e)
    /\ posted' = Append(posted, e)
    /\ late' = IF \E f \in Flushers : pc[f] \in {"commit", "delete"}
               THEN late \cup {e} ELSE late
    /\ UNCHANGED <<table, counters, connected, pc, batch, clearing, stats,
                   faults, clears, saved, left, wiped>>

(* XRANGE: the worker reads the first BATCH entries, POST /flush all. An     *)
(* empty answer ends the round without a change.                             *)
ReadLength(f) ==
    IF f = Worker /\ Len(stream) > BATCH THEN BATCH ELSE Len(stream)

Read(f) ==
    /\ connected
    /\ pc[f] = "idle"
    /\ stream # <<>>
    /\ batch' = [batch EXCEPT ![f] = SubSeq(stream, 1, ReadLength(f))]
    /\ pc' = [pc EXCEPT ![f] = "commit"]
    /\ left' = left \cup {stream[i] : i \in ReadLength(f) + 1 .. Len(stream)}
    /\ UNCHANGED <<stream, table, counters, connected, clearing, stats, faults,
                   clears, posted, saved, late, wiped>>

(* Mutant: the session is left without a commit.                             *)
CommitForgotten(f) ==
    /\ pc[f] = "commit"
    /\ pc' = [pc EXCEPT ![f] = "delete"]
    /\ UNCHANGED <<stream, table, counters, connected, batch, clearing, stats,
                   faults, clears, history>>

(* Mutant: the batch is inserted newest entry first.                         *)
CommitReversed(f) ==
    /\ pc[f] = "commit"
    /\ table' = table \o Reverse(batch[f])
    /\ saved' = saved \cup Taken(f)
    /\ pc' = [pc EXCEPT ![f] = "delete"]
    /\ UNCHANGED <<stream, counters, connected, batch, clearing, stats, faults,
                   clears, posted, left, late, wiped>>

(* One EventLog per entry, in one transaction.                               *)
Commit(f) ==
    /\ pc[f] = "commit"
    /\ table' = table \o batch[f]
    /\ saved' = saved \cup Taken(f)
    /\ pc' = [pc EXCEPT ![f] = "delete"]
    /\ UNCHANGED <<stream, counters, connected, batch, clearing, stats, faults,
                   clears, posted, left, late, wiped>>

(* Mutant: the stream is left in place after the commit.                     *)
DeleteForgotten(f) ==
    /\ pc[f] = "delete"
    /\ pc' = [pc EXCEPT ![f] = "count"]
    /\ UNCHANGED <<stream, table, counters, connected, batch, clearing, stats,
                   faults, clears, history>>

(* DEL wb:events: the key, not the entries of the batch.                     *)
Delete(f) ==
    /\ pc[f] = "delete"
    /\ stream' = <<>>
    /\ pc' = [pc EXCEPT ![f] = "count"]
    /\ UNCHANGED <<table, counters, connected, batch, clearing, stats, faults,
                   clears, history>>

(* Mutant: the counter is moved by the wrong sign.                           *)
CountBackwards(f) ==
    /\ pc[f] = "count"
    /\ flushed' = flushed - Len(batch[f])
    /\ batches' = batches + 1
    /\ pc' = [pc EXCEPT ![f] = "idle"]
    /\ batch' = [batch EXCEPT ![f] = <<>>]
    /\ UNCHANGED <<stream, table, connected, clearing, stats, faults, clears,
                   history>>

(* The counters, under _wb_lock; then the next round or the response.        *)
Count(f) ==
    /\ pc[f] = "count"
    /\ flushed' = flushed + Len(batch[f])
    /\ batches' = batches + 1
    /\ pc' = [pc EXCEPT ![f] = "idle"]
    /\ batch' = [batch EXCEPT ![f] = <<>>]
    /\ UNCHANGED <<stream, table, connected, clearing, stats, faults, clears,
                   history>>

(* Mutant: the counters are updated in a finally block.                      *)
FailCounts(f) ==
    /\ faults < MaxFaults
    /\ pc[f] \in {"commit", "delete"}
    /\ flushed' = flushed + Len(batch[f])
    /\ batches' = batches + 1
    /\ pc' = [pc EXCEPT ![f] = "idle"]
    /\ batch' = [batch EXCEPT ![f] = <<>>]
    /\ faults' = faults + 1
    /\ UNCHANGED <<stream, table, connected, clearing, stats, clears, history>>

(* Mutant: the worker leaves its loop on an exception.                       *)
FailStops(f) ==
    /\ faults < MaxFaults
    /\ pc[f] \in {"commit", "delete"}
    /\ pc' = [pc EXCEPT ![f] = "stopped"]
    /\ faults' = faults + 1
    /\ UNCHANGED <<stream, table, counters, connected, batch, clearing, stats,
                   clears, history>>

(* A call raises: the worker prints and loops, POST /flush answers 500. The  *)
(* session rolls back an uncommitted batch; a failed DEL may have run in     *)
(* Redis although its answer was lost.                                       *)
Fail(f) ==
    /\ faults < MaxFaults
    /\ pc[f] \in {"commit", "delete"}
    /\ stream' \in IF pc[f] = "delete" THEN {stream, <<>>} ELSE {stream}
    /\ pc' = [pc EXCEPT ![f] = "idle"]
    /\ batch' = [batch EXCEPT ![f] = <<>>]
    /\ faults' = faults + 1
    /\ UNCHANGED <<table, counters, connected, clearing, stats, clears, history>>

----------------------------------------------------------------------------
(* DELETE /clear: DEL of the stream, then the rows, then the counters.       *)
ClearStream ==
    /\ connected
    /\ clearing = "idle"
    /\ clears < MaxClears
    /\ stream' = <<>>
    /\ wiped' = wiped \cup Pending
    /\ clearing' = "rows"
    /\ clears' = clears + 1
    /\ UNCHANGED <<table, counters, connected, pc, batch, stats, faults,
                   posted, saved, left, late>>

ClearRows ==
    /\ clearing = "rows"
    /\ table' = <<>>
    /\ clearing' = "counters"
    /\ UNCHANGED <<stream, counters, connected, pc, batch, stats, faults,
                   clears, history>>

ClearCounters ==
    /\ clearing = "counters"
    /\ flushed' = 0 /\ batches' = 0
    /\ clearing' = "idle"
    /\ UNCHANGED <<stream, table, connected, pc, batch, stats, faults, clears,
                   history>>

(* The DELETE statement or its commit raises: rows and counters stay.        *)
ClearFail ==
    /\ faults < MaxFaults
    /\ clearing = "rows"
    /\ clearing' = "idle"
    /\ faults' = faults + 1
    /\ UNCHANGED <<stream, table, counters, connected, pc, batch, stats, clears,
                   history>>

----------------------------------------------------------------------------
(* GET /stats: XLEN first, then a count of the rows.                         *)
StatsDepth ==
    /\ connected
    /\ stats.at # "total"
    /\ stats' = [at |-> "total", depth |-> Len(stream), total |-> 0,
                 known |-> Len(posted)]
    /\ UNCHANGED <<stream, table, counters, connected, pc, batch, clearing,
                   faults, clears, history>>

StatsTotal ==
    /\ stats.at = "total"
    /\ stats' = [stats EXCEPT !.at = "done", !.total = Len(table)]
    /\ UNCHANGED <<stream, table, counters, connected, pc, batch, clearing,
                   faults, clears, history>>

----------------------------------------------------------------------------
(* The process ends, by a crash or by the lifespan's cancellation, and       *)
(* starts again: the counters and every coroutine are lost, Redis and SQLite *)
(* are not. The lifespan pings Redis once: without it there is no handle and *)
(* no worker until the next start.                                           *)
Reboot ==
    /\ connected' \in BOOLEAN
    /\ flushed' = 0 /\ batches' = 0
    /\ pc' = [f \in Flushers |-> "idle"]
    /\ batch' = [f \in Flushers |-> <<>>]
    /\ clearing' = "idle"
    /\ stats' = NoStats
    /\ UNCHANGED <<stream, table, clears, history>>

Crash ==
    /\ connected
    /\ faults < MaxFaults
    /\ faults' = faults + 1
    /\ Reboot

Restart ==
    /\ ~connected
    /\ faults' = faults
    /\ Reboot

Flush(f) == Read(f) \/ Commit(f) \/ Delete(f) \/ Count(f)
Clear == ClearStream \/ ClearRows \/ ClearCounters \/ ClearFail

(* Mutant: the rows are counted before the queue depth is read.              *)
StatsRowsFirst ==
    \/ /\ connected
       /\ stats.at # "total"
       /\ stats' = [at |-> "total", depth |-> 0, total |-> Len(table),
                    known |-> Len(posted)]
       /\ UNCHANGED <<stream, table, counters, connected, pc, batch, clearing,
                      faults, clears, history>>
    \/ /\ stats.at = "total"
       /\ stats' = [stats EXCEPT !.at = "done", !.depth = Len(stream)]
       /\ UNCHANGED <<stream, table, counters, connected, pc, batch, clearing,
                      faults, clears, history>>

Stats == StatsDepth \/ StatsTotal

Next ==
    \/ \E e \in Events : Post(e)
    \/ \E f \in Flushers : Flush(f) \/ Fail(f)
    \/ Clear
    \/ Stats
    \/ Crash
    \/ Restart

(* The event loop resumes a ready coroutine, and the worker never leaves its *)
(* loop: its steps are fair. Nothing else has to happen.                     *)
Fairness == WF_vars(Flush(Worker))

Spec == Init /\ [][Next]_vars /\ Fairness

----------------------------------------------------------------------------
TypeOK ==
    /\ stream \in Seq(Events)
    /\ table \in Seq(Events)
    /\ flushed \in Nat /\ batches \in Nat
    /\ connected \in BOOLEAN
    /\ pc \in [Flushers -> {"idle", "commit", "delete", "count"}]
    /\ batch \in [Flushers -> Seq(Events)]
    /\ clearing \in {"idle", "rows", "counters"}
    /\ stats \in [at : {"idle", "total", "done"}, depth : Nat, total : Nat,
                  known : Nat]
    /\ faults \in 0 .. MaxFaults
    /\ clears \in 0 .. MaxClears
    /\ posted \in Seq(Events) /\ saved \subseteq Events
    /\ left \subseteq Events /\ late \subseteq Events /\ wiped \subseteq Events

(* An acknowledged event is in SQLite or still in the stream, unless it was  *)
(* beyond the worker's batch, was posted in the middle of a flush, or was    *)
(* cleared: crashes, failed calls and concurrent flushes alone lose nothing. *)
(* The commit-before-DEL order of worker and POST /flush is what it is about.*)
LossNeedsExposure == Posted \subseteq saved \cup Pending \cup left \cup late \cup wiped

(* At-least-once, and how much more than once: an event is inserted again    *)
(* only by a flusher that read it before it was deleted, or after a fault.   *)
(* SQLite gets the events in the order they were posted: when a row of a     *)
(* later event exists, one of the earlier event precedes it, whichever mix   *)
(* of worker and POST /flush rounds wrote them. Events that a DEL or a clear *)
(* may have taken are excepted.                                              *)
DuplicationBound ==
    \A e \in Events : Cardinality(Rows(e)) <= Cardinality(Flushers) * (1 + faults)
InsertionOrder ==
    clears = 0 =>
        \A j \in DOMAIN posted : \A i \in 1 .. j - 1 :
            posted[i] \notin left \cup late =>
                \A n \in Rows(posted[j]) : \E m \in Rows(posted[i]) : m < n
RowsFollowEvents == DuplicationBound /\ InsertionOrder

(* GET /stats: total_flushed_to_db never promises more rows than exist, as   *)
(* long as nobody has called DELETE /clear; and as the queue depth is read   *)
(* before the rows, an event that moves from the stream to SQLite meanwhile  *)
(* is counted at least once.                                                 *)
CounterHonest == clears = 0 => flushed <= Len(table)
StatsMissNothing ==
    /\ stats.at = "done"
    /\ left \cup late \cup wiped = {}
    /\ clears = 0
    => stats.depth + stats.total >= stats.known
StatsAreHonest == CounterHonest /\ StatsMissNothing

(* A queued event leaves the stream, unless this process has no Redis: the   *)
(* worker retries after every failure.                                       *)
StreamDrains ==
    \A e \in Events : e \in Pending ~> e \notin Pending \/ ~connected

----------------------------------------------------------------------------
(* "drains the Redis Stream to SQLite": what was acknowledged and not cleared *)
(* is in the stream or in SQLite. It is not what the code does: DEL removes  *)
(* the key, with the entries beyond the batch and those posted meanwhile.    *)
NothingDropped == Posted \subseteq saved \cup Pending \cup wiped
============================================================================
