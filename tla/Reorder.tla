------------------------------ MODULE Reorder ------------------------------
(***************************************************************************)
(* The applications that number packets and put them through a reorder     *)
(* buffer:                                                                 *)
(*   rx_burst        reordering/rx_burst/main.c: the window is as large as *)
(*                   a burst;                                              *)
(*   rx_burst_wide   reordering/rx_burst/main2.c: the window is four times *)
(*                   as large;                                             *)
(*   sample          reordering/sample: eight numbers out of order;        *)
(*   dynamic_seqno   reordering/dynamic_seqno: numbers Numbered packets,   *)
(*                   without a buffer, and ends.                           *)
(* A packet is its sequence number, a uint32_t counter that wraps around.  *)
(*                                                                         *)
(* rte_reorder is external.  The first number inserted becomes the least   *)
(* one; a number within the window above the least one is kept, and drain  *)
(* returns consecutive numbers from the least one on.  (Beyond the window  *)
(* the library can still make room for one more window by giving up gaps;  *)
(* here such an insert fails, and DrainedInOrder says none is attempted.)  *)
(***************************************************************************)
EXTENDS RteRing, Integers, Functions

CONSTANTS SEQ_MOD,     \* size of the counter (2^32)
          BURST,       \* most packets per burst (8)
          Numbered     \* packets dynamic_seqno numbers (10)

VARIABLES
  seq_app,       \* the application that runs
  seq_pc,        \* "setup", "rx" (loop head), "drain", "exited", "done"
  buf,           \* the reorder buffer
  seq_counter,   \* next number to give
  failed,        \* inserts that failed
  drained,       \* what the last drain returned
  due            \* the number after the last one drained

vars == <<seq_app, seq_pc, buf, seq_counter, failed, drained, due>>

Window == IF seq_app = "rx_burst_wide" THEN 4 * BURST ELSE BURST

Init ==
  /\ seq_app \in {"rx_burst", "rx_burst_wide", "sample", "dynamic_seqno"}
  /\ seq_pc = "setup"
  /\ buf = [started |-> FALSE, min_seqn |-> 0, held |-> {}]
  /\ seq_counter = 0 /\ due = 0
  /\ failed = 0
  /\ drained = <<>>

-----------------------------------------------------------------------------
(* The reorder buffer *)

Started(b, s) == IF b.started THEN b ELSE [b EXCEPT !.started = TRUE, !.min_seqn = s]

InWindow(b, s) == (s - b.min_seqn) % SEQ_MOD < Window

Fits(b, s) == InWindow(Started(b, s), s)

Insert(b, s) == LET c == Started(b, s) IN
                  IF Fits(b, s) THEN [c EXCEPT !.held = @ \cup {s}] ELSE c

\* How many numbers a drain of at most n returns.
Ready(b, n) ==
  LET lengths == {k \in 0..n : \A i \in 0 .. k - 1 : (b.min_seqn + i) % SEQ_MOD \in b.held}
  IN CHOOSE k \in lengths : \A j \in lengths : j <= k

Drained(b, n) == [i \in 1 .. Ready(b, n) |-> (b.min_seqn + i - 1) % SEQ_MOD]

-----------------------------------------------------------------------------
(* The applications *)

\* EAL, pool, port and buffer, or exit; the port's calls are all checked.
Setup == /\ seq_pc = "setup"
         /\ seq_pc' \in {"rx", "exited"}
         /\ UNCHANGED <<seq_app, buf, seq_counter, failed, drained, due>>

\* Inserts the numbers of s one by one, counting (and freeing) those that do
\* not fit.
InsertAll(s) ==
  LET after[i \in 0..Len(s)] ==
        IF i = 0 THEN [buf |-> buf, failed |-> failed]
        ELSE LET b == after[i - 1].buf IN
               [buf    |-> Insert(b, s[i]),
                failed |-> after[i - 1].failed + IF Fits(b, s[i]) THEN 0 ELSE 1]
  IN /\ buf' = after[Len(s)].buf
     /\ failed' = after[Len(s)].failed
     /\ seq_pc' = "drain"
     /\ UNCHANGED <<seq_app, drained, due>>

\* A burst of n packets, numbered in the order of arrival.
InsertBurst(n) ==
  /\ seq_app \in {"rx_burst", "rx_burst_wide"} /\ seq_pc = "rx"
  /\ InsertAll([i \in 1..n |-> (seq_counter + i - 1) % SEQ_MOD])
  /\ seq_counter' = (seq_counter + n) % SEQ_MOD

seq_list == <<0, 2, 1, 4, 3, 6, 5, 7>>

\* The results of the inserts are ignored.
InsertSample ==
  /\ seq_app = "sample" /\ seq_pc = "rx"
  /\ InsertAll(seq_list)
  /\ UNCHANGED seq_counter

\* The output array is one short.
Drain_OneShort ==
  LET out == Drained(buf, BURST - 1) IN
    /\ seq_pc = "drain"
    /\ buf' = [buf EXCEPT !.min_seqn = (@ + Len(out)) % SEQ_MOD, !.held = @ \ Range(out)]
    /\ drained' = out
    /\ due' = (due + Len(out)) % SEQ_MOD
    /\ seq_pc' = IF seq_app = "sample" THEN "done" ELSE "rx"
    /\ UNCHANGED <<seq_app, seq_counter, failed>>

\* What is drained is printed and freed; the sample then ends.
Drain ==
  LET out == Drained(buf, BURST) IN
    /\ seq_pc = "drain"
    /\ buf' = [buf EXCEPT !.min_seqn = (@ + Len(out)) % SEQ_MOD, !.held = @ \ Range(out)]
    /\ drained' = out
    /\ due' = (due + Len(out)) % SEQ_MOD
    /\ seq_pc' = IF seq_app = "sample" THEN "done" ELSE "rx"
    /\ UNCHANGED <<seq_app, seq_counter, failed>>

\* dynamic_seqno: the packets of a burst are numbered while numbers are left,
\* and all are freed.
Number(n) ==
  /\ seq_app = "dynamic_seqno" /\ seq_pc = "rx"
  /\ seq_counter' = Least(Numbered, seq_counter + n)
  /\ seq_pc' = IF seq_counter' = Numbered THEN "done" ELSE "rx"
  /\ UNCHANGED <<seq_app, buf, failed, drained, due>>

-----------------------------------------------------------------------------
Receive == \E n \in 1..BURST : InsertBurst(n) \/ Number(n)

Ended == seq_pc \in {"exited", "done"} /\ UNCHANGED vars

Next == Setup \/ Receive \/ InsertSample \/ Drain \/ Ended

Spec == Init /\ [][Next]_vars

-----------------------------------------------------------------------------
(* Properties *)

\* Every number is drained once, in order and without a gap, also where the
\* counter wraps around; no insert is refused; and the buffer is empty at the
\* loop head and at the end, so that no packet waits for the next burst.
DrainedInOrder ==
  /\ failed = 0
  /\ drained = [i \in DOMAIN drained |-> (due - Len(drained) + i - 1) % SEQ_MOD]
  /\ seq_pc \in {"rx", "done"} => buf.held = {}
  /\ seq_pc = "rx" /\ seq_app # "dynamic_seqno" => due = seq_counter
  /\ seq_pc = "done" /\ seq_app = "sample" => Len(drained) = Len(seq_list)
=============================================================================
