----------------------------- MODULE MCDrivers ------------------------------
(***************************************************************************)
(* The components of i2cctrl, uartctrl and the emulator that share no      *)
(* state are checked in one run: the initial state chooses which of them   *)
(* moves, and the others stay as they began.  The reachable states are the *)
(* sum of those of the components.                                         *)
(***************************************************************************)
EXTENDS QosFairness, CtrlPnp, CtrlPower, CtrlIoctl, BusProtocols, SmbusPec,
        SpbBus, XferPolicy, UartRing, UartTransmit, UartLine, Emulator

CONSTANT MaxBypass    \* bound on how often the Low class is passed over

VARIABLE focus    \* the component that moves

MCInit ==
    /\ Init /\ CpInit /\ CwInit /\ CrInit /\ BpInit /\ PecInit /\ SpInit
    /\ XpInit /\ RingInit /\ UtInit /\ UlInit /\ EmInit
    /\ focus \in {"qos", "pnp", "power", "ioctl", "bus", "pec", "spb",
                  "policy", "ring", "tx", "line", "emulator"}
    /\ focus # "ring" => buf = [i \in Index |-> CHOOSE b \in Byte : TRUE]

QosMoves ==
    /\ focus = "qos" /\ Next
    /\ UNCHANGED <<cpVars, cwVars, crVars, bpVars, pecVars, spVars,
                    xpVars, ringVars, utVars, ulVars, emVars, focus>>

PnpMoves ==
    /\ focus = "pnp" /\ CpNext
    /\ UNCHANGED <<vars, cwVars, crVars, bpVars, pecVars, spVars, xpVars,
                    ringVars, utVars, ulVars, emVars, focus>>

PowerMoves ==
    /\ focus = "power" /\ CwNext
    /\ UNCHANGED <<vars, cpVars, crVars, bpVars, pecVars, spVars, xpVars,
                    ringVars, utVars, ulVars, emVars, focus>>

IoctlMoves ==
    /\ focus = "ioctl" /\ CrNext
    /\ UNCHANGED <<vars, cpVars, cwVars, bpVars, pecVars, spVars, xpVars,
                    ringVars, utVars, ulVars, emVars, focus>>

BusMoves ==
    /\ focus = "bus" /\ BpNext
    /\ UNCHANGED <<vars, cpVars, cwVars, crVars, pecVars, spVars, xpVars,
                    ringVars, utVars, ulVars, emVars, focus>>

PecMoves ==
    /\ focus = "pec" /\ PecNext
    /\ UNCHANGED <<vars, cpVars, cwVars, crVars, bpVars, spVars, xpVars,
                    ringVars, utVars, ulVars, emVars, focus>>

SpbMoves ==
    /\ focus = "spb" /\ SpNext
    /\ UNCHANGED <<vars, cpVars, cwVars, crVars, bpVars, pecVars, xpVars,
                    ringVars, utVars, ulVars, emVars, focus>>

PolicyMoves ==
    /\ focus = "policy" /\ XpNext
    /\ UNCHANGED <<vars, cpVars, cwVars, crVars, bpVars, pecVars, spVars,
                    ringVars, utVars, ulVars, emVars, focus>>

RingMoves ==
    /\ focus = "ring" /\ RingNext
    /\ UNCHANGED <<vars, cpVars, cwVars, crVars, bpVars, pecVars, spVars,
                    xpVars, utVars, ulVars, emVars, focus>>

TxMoves ==
    /\ focus = "tx" /\ UtStep
    /\ UNCHANGED <<vars, cpVars, cwVars, crVars, bpVars, pecVars, spVars,
                    xpVars, ringVars, ulVars, emVars, focus>>

LineMoves ==
    /\ focus = "line" /\ UlNext
    /\ UNCHANGED <<vars, cpVars, cwVars, crVars, bpVars, pecVars, spVars,
                    xpVars, ringVars, utVars, emVars, focus>>

EmulatorMoves ==
    /\ focus = "emulator" /\ EmStep
    /\ UNCHANGED <<vars, cpVars, cwVars, crVars, bpVars, pecVars, spVars,
                    xpVars, ringVars, utVars, ulVars, focus>>

MCNext ==
    \/ QosMoves \/ PnpMoves \/ PowerMoves \/ IoctlMoves \/ BusMoves
    \/ PecMoves \/ SpbMoves \/ PolicyMoves \/ RingMoves \/ TxMoves
    \/ LineMoves \/ EmulatorMoves

mcVars == <<vars, cpVars, cwVars, crVars, bpVars, pecVars, spVars, xpVars,
            ringVars, utVars, ulVars, emVars, focus>>
MCSpec == MCInit /\ [][MCNext]_mcVars

\* How often the Low class is passed over has no bound in the code.  Nothing is asked of the
\* emulator once two of its threads have met, and what records their meeting is never taken
\* back: what follows it is not explored.
Explored == bypass["Low"] <= MaxBypass /\ ~emRaced
=============================================================================
