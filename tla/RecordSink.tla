------------------------------ MODULE RecordSink ------------------------------
(***************************************************************************)
(* What the persistence worker promises of the messages handed to it,      *)
(* without batches, tasks, transactions or processes: a message is held in *)
(* memory, and from there it is stored or dropped, once and for good.  How *)
(* many are settled in one step is left open.                              *)
(***************************************************************************)
CONSTANT Msgs

VARIABLES
  held,     \* accepted, not yet settled
  stored,   \* durable
  dropped   \* given up, or never accepted

vars == <<held, stored, dropped>>

TypeOK ==
  /\ held \subseteq Msgs
  /\ stored \subseteq Msgs
  /\ dropped \subseteq Msgs

Init == held = {} /\ stored = {} /\ dropped = {}

Unknown == Msgs \ (held \cup stored \cup dropped)

\* A message arrives; without a subscriber it is dropped at once.
Accept(m) == held' = held \cup {m} /\ UNCHANGED <<stored, dropped>>
Miss(m)   == dropped' = dropped \cup {m} /\ UNCHANGED <<held, stored>>

\* Some held messages become durable while others are dropped.
Settle(S, D) ==
  /\ S \cap D = {}
  /\ held'    = held \ (S \cup D)
  /\ stored'  = stored \cup S
  /\ dropped' = dropped \cup D

Next ==
  \/ \E m \in Unknown : Accept(m) \/ Miss(m)
  \/ \E S, D \in SUBSET held : Settle(S, D)

Spec == Init /\ [][Next]_vars
===============================================================================
