------------------------------ MODULE HlcClock ------------------------------
(***************************************************************************)
(* The clock of one node over the life of its processes: hlc.go, and where *)
(* its value is saved and restored (sync.go, pbreplication.go).  The mutex *)
(* of the clock makes every call one step; the wall clock shows anything,  *)
(* backwards steps included.                                               *)
(***************************************************************************)
EXTENDS Hlc, Sequences

CONSTANTS
  MaxWall,    \* bound: readings of the wall clock, remote ones included
              \* (the counter may still carry the physical part past it)
  MaxEvents   \* bound: length of a process's history

ASSUME WallAssumption == MaxWall \in Nat /\ MaxEvents \in Nat

VARIABLES
  clock,      \* the clock of the running process
  persisted,  \* _repl_state hlc: what Resume will be given
  running,    \* a process is running
  history     \* what this process has resumed from, observed and issued

clockVars == <<clock, persisted, running, history>>

Kind  == {"resumed", "observed", "issued"}
Event == [kind : Kind, stamp : Nat]

ClockTypeOK ==
  /\ clock \in Clock /\ persisted \in Clock /\ running \in BOOLEAN
  /\ history \in Seq(Event)

Record(kind, c) == history' = Append(history, [kind |-> kind, stamp |-> Encode(c)])

ClockInit ==
  /\ clock = Zero /\ persisted = Zero
  /\ running = FALSE
  /\ history = <<>>

\* initStorage: a new clock resumes from the saved timestamp.
Start ==
  /\ ~ running /\ running' = TRUE
  /\ clock' = Merge(Zero, persisted)
  /\ history' = <<[kind |-> "resumed", stamp |-> Encode(persisted)]>>
  /\ UNCHANGED persisted

\* A local operation is stamped.
Now(wall) ==
  /\ running /\ Len(history) < MaxEvents /\ clock.physical <= MaxWall
  /\ clock' = Tick(clock, wall)
  /\ Record("issued", clock')
  /\ UNCHANGED <<persisted, running>>

\* The applier is about to apply an operation stamped by the clock r.
Observe(r) ==
  /\ running /\ Len(history) < MaxEvents
  /\ clock' = Merge(clock, r)
  /\ Record("observed", r)
  /\ UNCHANGED <<persisted, running>>

\* The end of a sync round, or of a shutdown: the clock is saved.
Persist ==
  /\ running
  /\ persisted' = clock
  /\ UNCHANGED <<clock, running, history>>

\* The process ends, by a crash or after a shutdown saved the clock.
Stop ==
  /\ running /\ running' = FALSE
  /\ clock' = Zero /\ history' = <<>>
  /\ UNCHANGED persisted

ClockNext ==
  \/ Start \/ Persist \/ Stop
  \/ \E wall \in 0 .. MaxWall : Now(wall)
  \/ \E r \in [physical : 0 .. MaxWall, logical : 0 .. LogicalSize - 1] : Observe(r)

ClockSpec == ClockInit /\ [][ClockNext]_clockVars

\* Now returns "a new timestamp strictly greater than any previously issued or
\* observed one" (hlc.go), and than the one the process resumed from, whatever
\* the wall clock does and although the counter wraps.
IssuedIncreases ==
  \A i, j \in 1 .. Len(history) :
    i < j /\ history[j].kind = "issued" => history[i].stamp < history[j].stamp
=============================================================================
