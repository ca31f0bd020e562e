----------------------------- MODULE EventLoop -----------------------------
(***************************************************************************)
(* The EventMachine reactor as lib/neighborparrot uses it.  EM.next_tick   *)
(* appends a job to one FIFO queue.  Once per loop iteration the reactor   *)
(* runs the jobs that are in the queue at that moment, one after the other *)
(* and without a socket callback or a timer in between; between two such   *)
(* batches it runs socket callbacks and timers, in whatever order the      *)
(* kernel reports them.  An exception in a job reaches EM.error_handler    *)
(* (router.rb), which logs it, and ends the batch: the jobs behind it stay *)
(* in the queue for the next iteration.                                    *)
(***************************************************************************)
EXTENDS Naturals, Sequences

VARIABLES
    ticks,      \* the jobs queued by EM.next_tick, oldest first
    left        \* how many jobs of the current batch still have to run

loopVars == <<ticks, left>>

LoopInit == ticks = <<>> /\ left = 0

(* Socket callbacks and timers only run between two batches.               *)
Idle == left = 0

(* EM.next_tick { job }                                                    *)
Schedule(job) == ticks' = Append(ticks, job) /\ UNCHANGED left

(* The reactor takes the oldest job.  The first job of a batch fixes its   *)
(* length; an exception in the job (raised) ends the batch.                *)
TakeTick(raised) ==
    /\ ticks # <<>>
    /\ ticks' = Tail(ticks)
    /\ left' = IF raised THEN 0
               ELSE IF left = 0 THEN Len(ticks) - 1 ELSE left - 1

Pending(job) == \E i \in DOMAIN ticks : ticks[i] = job
=============================================================================
