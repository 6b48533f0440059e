----------------------------- MODULE RingBuffer -----------------------------
(***************************************************************************)
(* buffer.c: the ring buffer of floats behind the multi-tap detector and   *)
(* the two stages of the IMU buffer.  A buffer is created by calloc, so    *)
(* that its values are Zero to begin with.                                 *)
(***************************************************************************)
EXTENDS Naturals, Sequences

CONSTANTS Value, Zero

Buffer == [size : Nat, values : UNION {[0 .. n - 1 -> Value] : n \in Nat},
           index : Nat, count : Nat]

create_buffer(size) ==
    [size |-> size, values |-> [i \in 0 .. size - 1 |-> Zero], index |-> 0, count |-> 0]

is_full(buffer) == buffer.count = buffer.size

\* Mutant: the slot after the oldest one.
PoppedLate(buffer) ==
    IF is_full(buffer) THEN buffer.values[(buffer.index + 1) % buffer.size] ELSE Zero

\* What push returns.
Popped(buffer) == IF is_full(buffer) THEN buffer.values[buffer.index] ELSE Zero

\* What it makes of the buffer.  Without a slot there is nowhere to write, and
\* the division by the size is undefined.
push(buffer, next_value) ==
    [size |-> buffer.size,
     values |-> [buffer.values EXCEPT ![buffer.index] = next_value],
     index |-> (buffer.index + 1) % buffer.size,
     count |-> IF is_full(buffer) THEN buffer.count ELSE buffer.count + 1]
=============================================================================
