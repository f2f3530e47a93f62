----------------------------- MODULE MCRunners -----------------------------
(* A pool of one runner at a time that polls, one of two by job detection, *)
(* with one disturbance less, and a warm pool of one.  One cache lags at a *)
(* time.                                                                   *)
EXTENDS RunnerLaunch, TLC

Pools ==
  {[kind |-> "runner", mode |-> "polling", minIdle |-> 1, maxConcurrent |-> 1, scaleUpStep |-> None,
    jdWebhook |-> FALSE, jdPolling |-> FALSE],
   [kind |-> "runner", mode |-> "", minIdle |-> None, maxConcurrent |-> 2, scaleUpStep |-> 1,
    jdWebhook |-> TRUE, jdPolling |-> FALSE],
   [kind |-> "warm", size |-> 1]}
Capped(n) == pool.kind = "runner" /\ pool.maxConcurrent = n
InScope ==
  /\ Capped(2) => events < MaxEvents
  /\ opCache = Live \/ agCache = Live
MCSpec == Init /\ [][Next /\ InScope']_vars
Symmetric == Permutations(VMs)
=============================================================================
