------------------------------ MODULE SpeedBench ------------------------------
(***************************************************************************)
(* The request timer (framework/src/SpeedBench/speed_benchmark.c): a fixed *)
(* table of running measurements, keyed by the address of what is measured, *)
(* and a ring of the last finished ones.  A sample is abstracted to the    *)
(* thing measured; durations and paths go with it.                         *)
(***************************************************************************)
EXTENDS Naturals, Sequences

CONSTANTS Keys,       \* addresses
          NoKey,      \* NULL
          Samples,    \* things measured
          NoSample,   \* zeroed memory
          MaxActive,  \* SPEED_BENCHMARK_MAX_ACTIVE
          Capacity    \* SPEED_BENCHMARK_HISTORY_CAPACITY

ASSUME BenchAssumption ==
    /\ NoKey \notin Keys
    /\ MaxActive \in Nat
    /\ Capacity \in Nat \ {0}

VARIABLES
    active_timers,      \* [1..MaxActive -> [key, sample]]; key is NoKey when not in use
    history_buffer,     \* [0..Capacity-1 -> sample]
    history_size,
    history_next_index

benchVars == <<active_timers, history_buffer, history_size, history_next_index>>

Slots == 1..MaxActive

Unused == [key |-> NoKey, sample |-> NoSample]

\* cweb_init_speedbench
BenchInit ==
    /\ active_timers = [i \in Slots |-> Unused]
    /\ history_buffer = [i \in 0..(Capacity - 1) |-> NoSample]
    /\ history_size = 0
    /\ history_next_index = 0

\* find_timer_slot and get_free_timer_slot: the slots they may return.
SlotsOf(key) == {i \in Slots : active_timers[i].key = key}

\* Variant with a likely bug: a key measured already gets a second slot.
StartSecond(key, s) ==
    LET found == SlotsOf(NoKey) IN
    /\ IF found = {} THEN UNCHANGED active_timers
       ELSE \E i \in found :
               active_timers' = [active_timers EXCEPT ![i] = [key |-> key, sample |-> s]]
    /\ UNCHANGED <<history_buffer, history_size, history_next_index>>

\* cweb_speedbench_start: a key measured already starts afresh in its slot; otherwise
\* a free slot is taken (which one does not matter); with none left nothing happens.
Start(key, s) ==
    LET found == IF SlotsOf(key) # {} THEN SlotsOf(key) ELSE SlotsOf(NoKey) IN
    /\ IF found = {} THEN UNCHANGED active_timers
       ELSE \E i \in found :
               active_timers' = [active_timers EXCEPT ![i] = [key |-> key, sample |-> s]]
    /\ UNCHANGED <<history_buffer, history_size, history_next_index>>

\* cweb_speedbench_end: the sample goes into the ring and the slot is free again.  A
\* key that is not measured is ignored.
End(key) ==
    IF SlotsOf(key) = {} THEN UNCHANGED benchVars
    ELSE \E i \in SlotsOf(key) :
        /\ history_buffer' = [history_buffer EXCEPT
                                 ![history_next_index] = active_timers[i].sample]
        /\ history_next_index' = (history_next_index + 1) % Capacity
        /\ history_size' = IF history_size < Capacity THEN history_size + 1 ELSE history_size
        /\ active_timers' = [active_timers EXCEPT ![i] = Unused]

\* Variant with a likely bug: the snapshot always starts at the ring's first cell.
HistoryFromZero == [i \in 1..history_size |-> history_buffer[(i - 1) % Capacity]]

\* cweb_get_speed_history: the samples in the ring, oldest first.
History ==
    LET start == IF history_size = Capacity THEN history_next_index ELSE 0
    IN  [i \in 1..history_size |-> history_buffer[(start + (i - 1)) % Capacity]]
===============================================================================
