----------------------------- MODULE Addressing -----------------------------
(***************************************************************************)
(* The Modbus addresses of a fleet (modbus_server.py): a port serves so    *)
(* many generators, a larger fleet takes ports in a row, and each listener *)
(* numbers the generators behind it on its own.                            *)
(***************************************************************************)
EXTENDS Pieces

CONSTANTS
    UnitsPerPort, \* generators a Modbus port serves
    MaxPort       \* the last TCP port

ASSUME AddressAssumption == UnitsPerPort \in Nat \ {0} /\ MaxPort \in Nat

\* modbus_address(): the port and the unit id on the wire of generator g.
PortOf(g, base) == base + (g - 1) \div UnitsPerPort
WireUnit(g) == ((g - 1) % UnitsPerPort) + 1

\* A fleet whose last port would exceed MaxPort is refused.
Addressable(n, base) ==
    /\ n >= 1 /\ base \in 1 .. MaxPort
    /\ PortOf(n, base) <= MaxPort

\* Mutant: every port but the first starts one generator too late.
Endpoint_OneLate(n, base, port) ==
    [port |-> port,
     first |-> FirstOf(UnitsPerPort, port - base) + IF port = base THEN 0 ELSE 1,
     last |-> LastOf(n, UnitsPerPort, port - base)]

Endpoint(n, base, port) ==
    [port |-> port,
     first |-> FirstOf(UnitsPerPort, port - base),
     last |-> LastOf(n, UnitsPerPort, port - base)]

\* modbus_endpoints(): the ports of a fleet of n generators, in a row from base.
Endpoints(n, base) == {Endpoint(n, base, port) : port \in base .. PortOf(n, base)}

EndpointPorts(n, base) == {e.port : e \in Endpoints(n, base)}

\* ModbusServerGroup: each listener numbers the generators of its endpoint from 1.
Reached(n, base, port, wire) ==
    {g \in 1 .. n : \E e \in Endpoints(n, base) :
                        /\ e.port = port
                        /\ g \in e.first .. e.last
                        /\ wire = g - e.first + 1}
=============================================================================
