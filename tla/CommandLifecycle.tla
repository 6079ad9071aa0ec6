-------------------------- MODULE CommandLifecycle --------------------------
(***************************************************************************)
(* What the coreMQTT agent promises about its command structures,          *)
(* independently of queues, slots and tasks: a structure is handed out,    *)
(* posted, run and given back, one phase at a time, and a command that was *)
(* accepted is concluded exactly once.                                     *)
(***************************************************************************)
EXTENDS Naturals

CONSTANT Structs  \* the structures of commandStructurePool[]

VARIABLE phase    \* the phase of every structure

Phases == {"free", "held", "queued", "running", "awaiting"}

Init == phase = [s \in Structs |-> "free"]

Move(s, from, to) == /\ phase[s] = from
                     /\ phase' = [phase EXCEPT ![s] = to]

Get(s)      == Move(s, "free", "held")         \* an API call takes the structure
Discard(s)  == Move(s, "held", "free")         \* the API call fails and returns it
Post(s)     == Move(s, "held", "queued")       \* the API call succeeds
Start(s)    == Move(s, "queued", "running")    \* the command loop receives it
Cancel(s)   == Move(s, "queued", "free")       \* concluded without having run
Park(s)     == Move(s, "running", "awaiting")  \* its acknowledgment is awaited
Finish(s)   == Move(s, "running", "free")      \* concluded by processCommand
Complete(s) == Move(s, "awaiting", "free")     \* concluded by an ack or a cancel

Next == \E s \in Structs :
          \/ Get(s)    \/ Discard(s) \/ Post(s)   \/ Start(s)
          \/ Cancel(s) \/ Park(s)    \/ Finish(s) \/ Complete(s)

Spec == Init /\ [][Next]_phase
=============================================================================
