---------------------------- MODULE CommandPath ----------------------------
(***************************************************************************)
(* How a command or a parallel setpoint reaches a generator (main.py:      *)
(* CommandRouter, ModbusAdapter, SimulatorRuntime.simulation_step;         *)
(* modbus_server.py: the register accesses).                               *)
(*                                                                         *)
(* Three kinds of thread share the command queue, the generators and the   *)
(* Modbus registers: the simulation thread, which runs simulation_step     *)
(* over and over; the HTTP and socket handlers, which enqueue commands and *)
(* set setpoints; and the Modbus server, on behalf of a master that writes *)
(* registers 16 and 20 whenever it likes.  A step is one lock region or    *)
(* one register access.  What a command does to a generator is the subject *)
(* of Generator: here applying one appends it to the unit's log.           *)
(***************************************************************************)
EXTENDS Integers, Sequences

CONSTANTS
    NumGenerators,  \* Settings.num_generators
    Targets,        \* lists of unit ids a handler addresses, each unit once
    Lengths,        \* lengths of the command sequences a handler enqueues
    MaxCommands,    \* CommandRouter._max_commands
    MaxUnitTargets, \* CommandRouter._max_unit_targets
    Setpoints,      \* setpoints asked for, in half register units
    Rated,          \* rated_kw, in half register units
    MaxRequests     \* bound: requests made by all clients together

Units == 1 .. NumGenerators

ASSUME SizeAssumption ==
    /\ NumGenerators \in Nat \ {0}
    /\ Targets \subseteq Seq(Units) \ {<<>>}
    /\ \A units \in Targets : \A i, j \in DOMAIN units : units[i] = units[j] => i = j
    /\ Lengths \subseteq Nat \ {0}
    /\ MaxCommands \in Nat \ {0} /\ MaxUnitTargets \in Nat \ {0}
    /\ Setpoints \subseteq Nat /\ Rated \in Nat
    /\ MaxRequests \in Nat

VARIABLES
    queue,    \* CommandRouter._queue
    targets,  \* CommandRouter._queued_unit_targets
    reg20,    \* [Units -> command register]; a write is identified by its number, 0: cleared
    reg16,    \* [Units -> setpoint register]
    setpoint, \* [Units -> parallel_setpoint_kw], in half register units
    cached16, \* [Units -> register 16 in the StateStore's register cache]
    last_raw, \* [Units -> ModbusAdapter._last_setpoint_raw]
    pc,       \* where the simulation thread is in simulation_step
    unit,     \* the unit its loop is at
    cmd,      \* the command it read from the register of that unit
    batch,    \* the requests it drained and has not applied, the first perhaps in part
    at,       \* where its loops over the units and the commands of the first one are
    dirty,    \* the units it will write to the Modbus registers
    \* history
    requests, \* number of requests made so far
    invalid,  \* the register writes that are no issuable command
    sent,     \* [Units -> the master's last write to register 20, 0: none]
    accepted, \* the requests the router accepted, in order
    applied,  \* [Units -> the commands applied to the unit, in order]
    master16  \* [Units -> register 16 holds a write of the master]

router == <<queue, targets, accepted>>
registers == <<reg20, reg16>>
points == <<setpoint, cached16, last_raw, master16>>
loop == <<pc, unit, cmd, batch, at, dirty>>
history == <<requests, invalid, sent, applied>>
vars == <<router, registers, points, loop, history>>

\* A register holds whole units: int(kw * 10) drops the half.
Raw(sp) == sp \div 2

Clamp(sp) == IF sp > Rated THEN Rated ELSE sp

FirstJob == [unit |-> 1, command |-> 1]

Init ==
    /\ queue = <<>> /\ targets = 0 /\ accepted = <<>>
    /\ reg20 = [u \in Units |-> 0]
    /\ setpoint = [u \in Units |-> Rated]
    /\ reg16 = [u \in Units |-> Raw(Rated)]
    /\ cached16 = reg16 /\ last_raw = reg16
    /\ master16 = [u \in Units |-> FALSE]
    /\ pc = "read" /\ unit = 1 /\ cmd = 0 /\ dirty = {}
    /\ batch = <<>> /\ at = FirstJob
    /\ requests = 0 /\ invalid = {}
    /\ sent = [u \in Units |-> 0]
    /\ applied = [u \in Units |-> <<>>]

(* ------------------------------ the router ------------------------------ *)

\* Mutant: only the number of queued commands is limited.
HasRoom_CommandsOnly(units) == Len(queue) < MaxCommands

HasRoom(units) ==
    Len(queue) < MaxCommands /\ targets + Len(units) <= MaxUnitTargets

\* enqueue_sequence(): one critical section; a request without room is refused.
\* Accepted requests are numbered, which is history: the code does not need it.
Enqueue(id, units, length) ==
    LET entry == [id |-> id, number |-> Len(accepted) + 1, units |-> units, length |-> length]
    IN  IF HasRoom(units)
        THEN /\ queue' = Append(queue, entry)
             /\ targets' = targets + Len(units)
             /\ accepted' = Append(accepted, entry)
        ELSE UNCHANGED router

(* ------------------------------- clients -------------------------------- *)

NewRequest == requests < MaxRequests /\ requests' = requests + 1

\* A handler enqueues a command, or a sequence of them, for a list of units.
HttpCommand ==
    /\ NewRequest
    /\ \E units \in Targets, length \in Lengths : Enqueue(requests', units, length)
    /\ UNCHANGED <<registers, points, loop, invalid, sent, applied>>

\* A handler sets the setpoint directly, under the generator's lock.
HttpSetpoint ==
    /\ NewRequest
    /\ \E u \in Units, sp \in Setpoints : setpoint' = [setpoint EXCEPT ![u] = Clamp(sp)]
    /\ UNCHANGED <<router, registers, cached16, last_raw, master16, loop,
                   invalid, sent, applied>>

\* The Modbus master writes the command register, perhaps with a value that is
\* no command.
MasterCommand ==
    /\ NewRequest
    /\ \E u \in Units :
          /\ reg20' = [reg20 EXCEPT ![u] = requests']
          /\ sent' = [sent EXCEPT ![u] = requests']
    /\ invalid' \in {invalid, invalid \cup {requests'}}
    /\ UNCHANGED <<router, reg16, points, loop, applied>>

MasterSetpoint ==
    /\ NewRequest
    /\ \E u \in Units, sp \in Setpoints :
          /\ reg16' = [reg16 EXCEPT ![u] = Raw(sp)]
          /\ master16' = [master16 EXCEPT ![u] = TRUE]
    /\ UNCHANGED <<router, reg20, setpoint, cached16, last_raw, loop,
                   invalid, sent, applied>>

(* ------------------------- the simulation thread ------------------------ *)

\* Mutant: the loop runs one unit too far.
NextUnit_TooFar(again, after) ==
    unit' = unit + 1 /\ pc' = IF unit < NumGenerators THEN again ELSE after

\* The loop over the units goes on at label "again", or the step at "after".
NextUnit(again, after) ==
    IF unit < NumGenerators
    THEN unit' = unit + 1 /\ pc' = again
    ELSE unit' = 1 /\ pc' = after

\* read_command_register(): one access reads, another clears.
ReadCommand ==
    /\ pc = "read"
    /\ cmd' = reg20[unit]
    /\ IF reg20[unit] = 0
       THEN NextUnit("read", "drain")
       ELSE pc' = "clear" /\ UNCHANGED unit
    /\ UNCHANGED <<router, registers, points, batch, at, dirty, requests, invalid, sent, applied>>

ClearCommand ==
    /\ pc = "clear" /\ pc' = "enqueue"
    /\ reg20' = [reg20 EXCEPT ![unit] = 0]
    /\ UNCHANGED <<router, reg16, points, unit, cmd, batch, at, dirty, history>>

\* apply_external_commands() ignores invalid commands, and a full queue.
EnqueueCommand ==
    /\ pc = "enqueue"
    /\ IF cmd \in invalid THEN UNCHANGED router ELSE Enqueue(cmd, <<unit>>, 1)
    /\ NextUnit("read", "drain")
    /\ cmd' = 0
    /\ UNCHANGED <<registers, points, batch, at, dirty, history>>

\* Mutant: the queue is copied but not cleared.
Drain_NotCleared ==
    /\ pc = "drain" /\ pc' = "apply" /\ batch' = queue /\ at' = FirstJob /\ dirty' = {}
    /\ UNCHANGED <<router, registers, points, unit, cmd, history>>

\* Mutant: only the first command is taken, and the queue is cleared.
Drain_FirstOnly ==
    /\ pc = "drain" /\ pc' = "apply"
    /\ batch' = SubSeq(queue, 1, IF queue = <<>> THEN 0 ELSE 1) /\ at' = FirstJob
    /\ queue' = <<>> /\ targets' = 0 /\ dirty' = {}
    /\ UNCHANGED <<accepted, registers, points, unit, cmd, history>>

Drain ==
    /\ pc = "drain" /\ pc' = "apply"
    /\ batch' = queue /\ at' = FirstJob
    /\ queue' = <<>> /\ targets' = 0
    /\ dirty' = {}
    /\ UNCHANGED <<accepted, registers, points, unit, cmd, history>>

\* The nested loops of simulation_step: request by request, unit by unit, and a whole
\* sequence to a unit before the next unit.
NextJob(entry) ==
    \/ /\ at.command < entry.length
       /\ at' = [at EXCEPT !.command = @ + 1] /\ UNCHANGED batch
    \/ /\ at.command = entry.length /\ at.unit < Len(entry.units)
       /\ at' = [unit |-> at.unit + 1, command |-> 1] /\ UNCHANGED batch
    \/ /\ at.command = entry.length /\ at.unit = Len(entry.units)
       /\ at' = FirstJob /\ batch' = Tail(batch)

ApplyCommand ==
    /\ pc = "apply" /\ batch # <<>>
    /\ LET entry == Head(batch)
           target == entry.units[at.unit]
       IN  /\ applied' = [applied EXCEPT ![target] = Append(@, <<entry.number, at.command>>)]
           /\ dirty' = dirty \cup {target}
           /\ NextJob(entry)
    /\ UNCHANGED <<router, registers, points, pc, unit, cmd, requests, invalid, sent>>

AllApplied ==
    /\ pc = "apply" /\ batch = <<>> /\ pc' = "setpoints"
    /\ UNCHANGED <<router, registers, points, unit, cmd, batch, at, dirty, history>>

\* Mutant: a unit whose setpoint the master wrote is not marked dirty.
ApplySetpoint_NotDirty ==
    /\ pc = "setpoints"
    /\ setpoint' = [setpoint EXCEPT ![unit] =
                        IF reg16[unit] # last_raw[unit] THEN Clamp(2 * reg16[unit]) ELSE @]
    /\ NextUnit("setpoints", "refresh")
    /\ UNCHANGED <<router, registers, cached16, last_raw, master16, cmd, batch, at, dirty, history>>

\* apply_external_setpoints(): a register that differs from what the simulator
\* last wrote was written by the master.
ApplySetpoint ==
    /\ pc = "setpoints"
    /\ IF reg16[unit] # last_raw[unit]
       THEN /\ setpoint' = [setpoint EXCEPT ![unit] = Clamp(2 * reg16[unit])]
            /\ dirty' = dirty \cup {unit}
       ELSE UNCHANGED <<setpoint, dirty>>
    /\ NextUnit("setpoints", "refresh")
    /\ UNCHANGED <<router, registers, cached16, last_raw, master16, cmd, batch, at, history>>

\* The engine ticks, then StateStore.refresh() compares every unit with its
\* cached detail.  A tick may change anything but the setpoint.
Refresh ==
    /\ pc = "refresh"
    /\ \E changed \in BOOLEAN :
          /\ Raw(setpoint[unit]) # cached16[unit] => changed
          /\ cached16' = [cached16 EXCEPT ![unit] = IF changed THEN Raw(setpoint[unit]) ELSE @]
          /\ dirty' = IF changed THEN dirty \cup {unit} ELSE dirty
    /\ NextUnit("refresh", "sync")
    /\ UNCHANGED <<router, registers, setpoint, last_raw, master16, cmd, batch, at, history>>

\* sync_dirty_units(): every register of a dirty unit is written in order, the
\* setpoint before the command register, and then the setpoint is remembered.
SyncSetpoint ==
    /\ pc = "sync" /\ pc' = "sync20"
    /\ unit' \in dirty
    /\ reg16' = [reg16 EXCEPT ![unit'] = cached16[unit']]
    /\ master16' = [master16 EXCEPT ![unit'] = FALSE]
    /\ UNCHANGED <<router, reg20, setpoint, cached16, last_raw, cmd, batch, at, dirty, history>>

SyncCommand ==
    /\ pc = "sync20" /\ pc' = "remember"
    /\ reg20' = [reg20 EXCEPT ![unit] = 0]
    /\ UNCHANGED <<router, reg16, points, unit, cmd, batch, at, dirty, history>>

\* Mutant: the setpoint written to the register is not remembered.
RememberSetpoint_Forgets ==
    /\ pc = "remember" /\ pc' = "sync" /\ dirty' = dirty \ {unit}
    /\ UNCHANGED <<router, registers, points, unit, cmd, batch, at, history>>

RememberSetpoint ==
    /\ pc = "remember" /\ pc' = "sync"
    /\ last_raw' = [last_raw EXCEPT ![unit] = cached16[unit]]
    /\ dirty' = dirty \ {unit}
    /\ UNCHANGED <<router, registers, setpoint, cached16, master16, unit, cmd, batch, at, history>>

StepDone ==
    /\ pc = "sync" /\ dirty = {} /\ pc' = "read"
    /\ unit' = 1
    /\ UNCHANGED <<router, registers, points, cmd, batch, at, dirty, history>>

Simulation ==
    \/ ReadCommand \/ ClearCommand \/ EnqueueCommand
    \/ Drain \/ ApplyCommand \/ AllApplied
    \/ ApplySetpoint \/ Refresh
    \/ SyncSetpoint \/ SyncCommand \/ RememberSetpoint \/ StepDone

Clients == HttpCommand \/ HttpSetpoint \/ MasterCommand \/ MasterSetpoint

Next == Simulation \/ Clients

Spec == Init /\ [][Next]_vars

\* The simulation thread runs until it is told to stop; clients may do nothing.
FairSpec == Spec /\ WF_vars(Simulation)

(* ------------------------------ properties ------------------------------ *)

Entries == [id : 1 .. MaxRequests, number : Nat \ {0},
            units : Targets \cup {<<u>> : u \in Units}, length : Lengths \cup {1}]

\* Every variable has the type the code gives it.
TypeOK ==
    /\ queue \in Seq(Entries) /\ accepted \in Seq(Entries) /\ targets \in Nat
    /\ reg20 \in [Units -> 0 .. MaxRequests] /\ sent \in [Units -> 0 .. MaxRequests]
    /\ {reg16, cached16, last_raw, setpoint} \subseteq [Units -> Nat]
    /\ master16 \in [Units -> BOOLEAN]
    /\ pc \in {"read", "clear", "enqueue", "drain", "apply", "setpoints", "refresh",
               "sync", "sync20", "remember"}
    /\ unit \in Units /\ cmd \in 0 .. MaxRequests /\ dirty \subseteq Units
    /\ batch \in Seq(Entries) /\ at \in [unit : Nat \ {0}, command : Nat \ {0}]
    /\ applied \in [Units -> Seq(Nat \X Nat)]
    /\ requests \in 0 .. MaxRequests
    /\ invalid \subseteq 1 .. MaxRequests

\* The queue stays within both limits, and the counter the second limit is checked against
\* is the number of unit targets really queued: sum[n] of them in its first n requests.
QueueWithinLimits ==
    /\ Len(queue) <= MaxCommands
    /\ \E sum \in [0 .. Len(queue) -> 0 .. MaxUnitTargets] :
          /\ sum[0] = 0 /\ sum[Len(queue)] = targets
          /\ \A n \in 1 .. Len(queue) : sum[n] = sum[n - 1] + Len(queue[n].units)

\* How many of the accepted requests are neither queued nor drained any more.
Taken == Len(accepted) - Len(batch) - Len(queue)

\* The loops are past the k-th command of the n-th accepted request for its i-th unit.
Past(n, i, k) ==
    \/ n <= Taken
    \/ /\ n = Taken + 1 /\ batch # <<>>
       /\ i < at.unit \/ (i = at.unit /\ k < at.command)

\* The commands of the n-th accepted request the loops are past, for a unit.
ShareOf(n, u) ==
    {<<n, k>> : k \in {k \in 1 .. accepted[n].length :
                          \E i \in 1 .. Len(accepted[n].units) :
                              accepted[n].units[i] = u /\ Past(n, i, k)}}

\* The commands that were applied to a unit.
Log(u) == {applied[u][x] : x \in 1 .. Len(applied[u])}

Precedes(c, d) == c[1] < d[1] \/ (c[1] = d[1] /\ c[2] < d[2])

\* A request the router accepted is neither lost, nor applied twice, nor overtaken: those
\* drained and queued are the last ones accepted, in order, and every unit was given its
\* share of what the loops are past, each command once and in the order of acceptance.
CommandsConserved ==
    /\ 0 <= Taken
    /\ \A n \in 1 .. Len(accepted) : accepted[n].number = n
    /\ \A n \in 1 .. Len(batch) : batch[n] = accepted[Taken + n]
    /\ \A n \in 1 .. Len(queue) : queue[n] = accepted[Taken + Len(batch) + n]
    /\ \A u \in Units :
          /\ \A x, y \in 1 .. Len(applied[u]) : x < y => Precedes(applied[u][x], applied[u][y])
          /\ Log(u) = UNION {ShareOf(n, u) : n \in 1 .. Len(accepted)}

\* The simulator never takes a register value of its own for one of the
\* master's: a setpoint is applied from register 16 only when a master wrote it
\* after the simulator's last write of that register.
NoSetpointEcho ==
    pc = "setpoints" /\ reg16[unit] # last_raw[unit] => master16[unit]

\* Every accepted command is eventually applied to all of its units.
AcceptedIsApplied ==
    []<>(\A n \in 1 .. Len(accepted) :
            \A i \in 1 .. Len(accepted[n].units), k \in 1 .. accepted[n].length :
                <<n, k>> \in Log(accepted[n].units[i]))

\* Once the clients are quiet, register 16 of every unit settles on the setpoint
\* the generator uses, also when a master asked for more than the rating.
SetpointSettles ==
    <>[](\A u \in Units : reg16[u] = Raw(setpoint[u]) /\ last_raw[u] = reg16[u])

(* ------------------- what the documents say of the code ----------------- *)

Processed(id) ==
    \/ cmd = id
    \/ \E n \in DOMAIN queue : queue[n].id = id
    \/ \E n \in DOMAIN batch : batch[n].id = id
    \/ \E u \in Units : \E c \in Log(u) : accepted[c[1]].id = id

\* MODBUS_REFERENCE.md: register 20 "is automatically cleared to 0 after the
\* command is processed", so a valid command that the master wrote last is in the
\* register until the simulator has taken it.
ClearedOnlyIfProcessed ==
    \A u \in Units :
        sent[u] # 0 /\ sent[u] \notin invalid /\ reg20[u] # sent[u] => Processed(sent[u])
=============================================================================
