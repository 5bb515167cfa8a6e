------------------------------- MODULE Metrics -------------------------------
(***************************************************************************)
(* A timer metric of stats/metrics_aggregator.{hpp,cpp}: threads call        *)
(* record_timer, whose count, sum, minimum and maximum are separate atomic   *)
(* operations, and whose time series is a ring under a mutex of its own.     *)
(***************************************************************************)
EXTENDS Naturals, Sequences, SequencesExt, FiniteSets

CONSTANTS
    Recorders,      \* the threads
    Durations,      \* the times they record
    RingSize,       \* 10000 in the code
    MaxRecords      \* times recorded, at most

ASSUME MetricsAssumption ==
    RingSize \in Nat \ {0} /\ Durations \subseteq Nat /\ MaxRecords \in Nat

VARIABLES
    count_, sum_, min_, max_,           \* the Metric
    buffer_, head_, tail_, full_,       \* its RingBuffer
    agg_mutex,                          \* of the aggregator: "free" or "reset"
    rpc, rval, rcur,                    \* per thread: place, duration, loaded maximum
    pushed, asked                       \* history: the series, and what was asked for

ringVars == <<buffer_, head_, tail_, full_>>
metricVars == <<count_, sum_, min_, max_, ringVars, agg_mutex, rpc, rval, rcur, pushed, asked>>

MetricsInit ==
    /\ count_ = 0 /\ sum_ = 0 /\ min_ = 0 /\ max_ = 0
    /\ buffer_ = [i \in 0..(RingSize - 1) |-> 0] /\ head_ = 0 /\ tail_ = 0 /\ full_ = FALSE
    /\ agg_mutex = "free" /\ rpc = [t \in Recorders |-> "idle"]
    /\ rval = [t \in Recorders |-> 0] /\ rcur = [t \in Recorders |-> 0]
    /\ pushed = <<>> /\ asked = <<>>

To(t, place) == rpc' = [rpc EXCEPT ![t] = place]

\* record_timer: get_or_create needs the aggregator's mutex for a moment.
record_timer(t, d) ==
    /\ rpc[t] = "idle" /\ agg_mutex = "free" /\ Len(asked) < MaxRecords
    /\ rval' = [rval EXCEPT ![t] = d] /\ asked' = Append(asked, d) /\ To(t, "count")
    /\ UNCHANGED <<count_, sum_, min_, max_, ringVars, agg_mutex, rcur, pushed>>

\* increment: one atomic addition and then the other.
increment(t) ==
    /\ UNCHANGED <<max_, min_, ringVars, agg_mutex, rval, rcur, pushed, asked>>
    /\ \/ rpc[t] = "count" /\ count_' = count_ + 1 /\ To(t, "sum") /\ UNCHANGED sum_
       \/ rpc[t] = "sum" /\ sum_' = sum_ + rval[t] /\ To(t, "min") /\ UNCHANGED count_

\* Mutant: the maximum is stored without comparing it with what was loaded.
StoreMax(t) ==
    /\ UNCHANGED <<count_, sum_, min_, ringVars, agg_mutex, rval, pushed, asked>>
    /\ \/ rpc[t] = "min" /\ rcur' = [rcur EXCEPT ![t] = max_] /\ To(t, "max") /\ UNCHANGED max_
       \/ /\ rpc[t] = "max" /\ UNCHANGED rcur /\ To(t, "push")
          /\ max_' = IF rcur[t] < rval[t] THEN rval[t] ELSE max_

\* update_min_max: min_ starts at 0 and a duration is not negative, so that its
\* loop ends at once; then the maximum is loaded and exchanged, and loaded again
\* when the exchange fails, on another thread's value or for no reason.
update_min_max(t) ==
    /\ UNCHANGED <<count_, sum_, ringVars, agg_mutex, rval, pushed, asked>>
    /\ \/ /\ rpc[t] = "min" /\ min_' = IF min_ > rval[t] THEN rval[t] ELSE min_
          /\ rcur' = [rcur EXCEPT ![t] = max_] /\ To(t, "max") /\ UNCHANGED max_
       \/ /\ rpc[t] = "max" /\ rcur[t] >= rval[t] /\ To(t, "push")
          /\ UNCHANGED <<min_, max_, rcur>>
       \/ /\ rpc[t] = "max" /\ rcur[t] < rval[t] /\ UNCHANGED min_
          /\ \/ max_ = rcur[t] /\ max_' = rval[t] /\ To(t, "push") /\ UNCHANGED rcur
             \/ rcur' = [rcur EXCEPT ![t] = max_] /\ UNCHANGED <<max_, rpc>>

\* Mutant: a push into a full ring leaves the tail.
PushKeepingTail(t) ==
    /\ rpc[t] = "push" /\ To(t, "idle") /\ pushed' = Append(pushed, rval[t])
    /\ buffer_' = [buffer_ EXCEPT ![head_] = rval[t]]
    /\ head_' = (head_ + 1) % RingSize /\ tail_' = tail_ /\ full_' = (full_ \/ head_' = tail_)
    /\ UNCHANGED <<count_, sum_, min_, max_, agg_mutex, rval, rcur, asked>>

\* RingBuffer::push
push(t) ==
    /\ rpc[t] = "push" /\ To(t, "idle") /\ pushed' = Append(pushed, rval[t])
    /\ buffer_' = [buffer_ EXCEPT ![head_] = rval[t]]
    /\ tail_' = (IF full_ THEN (tail_ + 1) % RingSize ELSE tail_)
    /\ head_' = (head_ + 1) % RingSize
    /\ full_' = (head_' = tail_')
    /\ UNCHANGED <<count_, sum_, min_, max_, agg_mutex, rval, rcur, asked>>

\* reset_stats takes the mutex and calls get_or_create, which takes it again:
\* the thread never returns, and no other can start a call.
reset_stats ==
    /\ agg_mutex = "free" /\ agg_mutex' = "reset"
    /\ UNCHANGED <<count_, sum_, min_, max_, ringVars, rpc, rval, rcur, pushed, asked>>

MetricsNext ==
    \/ reset_stats
    \/ \E t \in Recorders :
         \/ \E d \in Durations : record_timer(t, d)
         \/ increment(t) \/ update_min_max(t) \/ push(t)

\* get_all: from tail to head, which in a full ring are the same place.
get_all ==
    IF full_ THEN <<>> ELSE [i \in 1..head_ |-> buffer_[i - 1]]

\* get_percentiles, for one percentile
get_percentiles(p) ==
    LET values == SortSeq(get_all, <)
        idx == (Len(values) * p) \div 100
    IN IF values = <<>> THEN 0
       ELSE values[(IF idx >= Len(values) THEN Len(values) - 1 ELSE idx) + 1]

-----------------------------------------------------------------------------
MetricsTypeOK ==
    /\ count_ \in 0..MaxRecords /\ sum_ \in Nat /\ min_ = 0 /\ max_ \in Durations \union {0}
    /\ buffer_ \in [0..(RingSize - 1) -> Durations \union {0}]
    /\ head_ \in 0..(RingSize - 1) /\ tail_ \in 0..(RingSize - 1)
    /\ rpc \in [Recorders -> {"idle", "count", "sum", "min", "max", "push"}]

\* The maximum covers every duration whose recording has ended, whatever
\* exchanges of other threads it lost against.
MaxCovers == \A i \in DOMAIN pushed : max_ >= pushed[i]

\* The sum never runs ahead of the count: at every moment it is at most the count
\* times the largest duration asked for. The two loads of get_mean are not at one
\* moment (metrics_aggregator.hpp:95): what others record between them can lift the
\* mean it returns above every duration.
SumCovered ==
    \A d \in Durations :
        (\A i \in DOMAIN asked : asked[i] <= d) => sum_ <= d * count_

\* Read from its tail, the ring holds the latest durations, in order.
RingLatest ==
    LET held == IF full_ THEN RingSize ELSE head_
    IN /\ held = (IF Len(pushed) < RingSize THEN Len(pushed) ELSE RingSize)
       /\ \A i \in 1..held :
            buffer_[(tail_ + i - 1) % RingSize] = pushed[Len(pushed) - held + i]

\* Until the ring is full, the percentiles reported are durations that were
\* recorded, in the order of the percentiles, and the last one is the largest.
PercentilesOrdered ==
    get_all # <<>> =>
        /\ \A p \in {50, 95, 99} : get_percentiles(p) \in ToSet(pushed)
        /\ get_percentiles(50) <= get_percentiles(95) /\ get_percentiles(95) <= get_percentiles(99)
        /\ \A i \in DOMAIN pushed : get_percentiles(100) >= pushed[i]

\* The maximum of a timer covers what was recorded, and its count what was summed,
\* while other threads record.
SummaryCovers == MaxCovers /\ SumCovered

\* The window of a timer is the latest durations, and until it is full its
\* percentiles are of them; the percentiles of a full one are 0 (get_all is empty).
WindowLatest == RingLatest /\ PercentilesOrdered
=============================================================================
