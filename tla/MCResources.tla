---------------------------- MODULE MCResources ----------------------------
(****************************************************************************)
(* Pools, queues, timers and timeouts for TLC.  The modules share no state: *)
(* the steps of one are taken while the others are in their initial state.  *)
(****************************************************************************)
EXTENDS Pool, Queue, Timers, Timeout

CONSTANTS c1, c2, t1, e1, e2

MCSub(size, num)   == [size |-> size, num |-> num]
MCOne              == <<MCSub(1, 1)>>
MCTwo              == <<MCSub(2, 1), MCSub(1, 1)>>
MCCfgs             == {MCOne, MCTwo}
MCPool(req, cfg)   == [req |-> req, cfg |-> cfg]
MCStartups         == {<<>>, <<MCPool(0, MCOne)>>, <<MCPool(2, MCOne), MCPool(0, MCOne)>>,
                       <<MCPool(0, MCOne), MCPool(1, MCTwo)>>}

MCParams == {<<"sched", 1>>, <<"unsched", 2>>, <<"local", 0>>, <<"output", 0>>,
             <<"pktin", 0>>}

PoolIdle == PoolInit /\ boot.conf = <<>>

vars == <<pvars, qvars, tvars, tmovars>>
Init == PoolInit /\ QueueInit /\ TimersInit /\ TimeoutInit
Next == \/ QueueInit /\ TimersInit /\ TimeoutInit /\ PoolNext /\ UNCHANGED <<qvars, tvars, tmovars>>
        \/ PoolIdle /\ TimersInit /\ TimeoutInit /\ QueueNext /\ UNCHANGED <<pvars, tvars, tmovars>>
        \/ PoolIdle /\ QueueInit /\ TimeoutInit /\ TimersNext /\ UNCHANGED <<pvars, qvars, tmovars>>
        \/ PoolIdle /\ QueueInit /\ TimersInit /\ TimeoutNext /\ UNCHANGED <<pvars, qvars, tvars>>
Spec == Init /\ [][Next]_vars /\ TimeoutFairness
=============================================================================
