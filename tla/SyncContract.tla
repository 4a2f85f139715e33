---------------------------- MODULE SyncContract ----------------------------
(***************************************************************************)
(* What synchronisation promises, without requests, cursors or queues:     *)
(* writes are ordered in one log, a write is acknowledged to its author    *)
(* only once it is in the log and then for good, and a write enters the    *)
(* log a second time only when its first entry lies below the retention    *)
(* horizon, which only rises.                                              *)
(***************************************************************************)
EXTENDS Naturals, Sequences

CONSTANTS Write, Key, Unnamed  \* Unnamed: the author of a seeded entry

VARIABLES
  log,      \* the writes in the order they took effect
  horizon,  \* entries below it are forgotten
  settled   \* writes acknowledged to their authors

contractVars == <<log, horizon, settled>>

Remembered(w) == \E i \in DOMAIN log : log[i].write = w /\ i >= horizon

Init == log = <<>> /\ horizon = 0 /\ settled = {}

TakeEffect(w, k) ==
  /\ ~Remembered(w)
  /\ log' = Append(log, [write |-> w, key |-> k])
  /\ UNCHANGED <<horizon, settled>>

Settle(w) ==
  /\ \E i \in DOMAIN log : log[i].write = w
  /\ settled' = settled \cup {w}
  /\ UNCHANGED <<log, horizon>>

Forget ==
  /\ horizon' \in horizon..Len(log)
  /\ UNCHANGED <<log, settled>>

Seed(k) ==
  /\ log' = Append(log, [write |-> Unnamed, key |-> k])
  /\ UNCHANGED <<horizon, settled>>

Next ==
  \/ \E w \in Write, k \in Key : TakeEffect(w, k)
  \/ \E w \in Write : Settle(w)
  \/ Forget
  \/ \E k \in Key : Seed(k)

Spec == Init /\ [][Next]_contractVars
=============================================================================
