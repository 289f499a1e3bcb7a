------------------------------- MODULE MCHid --------------------------------
(***************************************************************************)
(* The components of i2chid share no state, so they are checked in one run: the*)
(* initial state chooses which of them moves, and the others stay as they  *)
(* began.  The reachable states are the sum of those of the components.    *)
(***************************************************************************)
EXTENDS HidDevice, HidReports, HidTouch, HidGestures, HidConfig, HidDetect

VARIABLE focus    \* the component that moves
Ranges == [ScrollScale |-> [lo |-> 1, hi |-> 2], TapTimeMs |-> [lo |-> 2, hi |-> 3],
           SwipeScale |-> [lo |-> 1, hi |-> 2]]
Defaults == [ScrollScale |-> 1, TapTimeMs |-> 2, SwipeScale |-> 2]

MCInit ==
    /\ HidInit /\ RpInit /\ HtInit /\ GsInit /\ CfInit /\ HdInit
    /\ focus \in {"device", "reports", "touch", "gestures", "config",
                  "detect"}
    /\ focus # "gestures" => gsScale = [a \in GsAxis |-> 1]    \* the others once

DeviceMoves ==
    /\ focus = "device" /\ HidNext
    /\ UNCHANGED <<rpVars, htVars, gsVars, cfVars, hdVars, focus>>

ReportsMoves ==
    /\ focus = "reports" /\ RpNext
    /\ UNCHANGED <<hidVars, htVars, gsVars, cfVars, hdVars, focus>>

TouchMoves ==
    /\ focus = "touch" /\ HtNext
    /\ UNCHANGED <<hidVars, rpVars, gsVars, cfVars, hdVars, focus>>

GesturesMoves ==
    /\ focus = "gestures" /\ GsNext
    /\ UNCHANGED <<hidVars, rpVars, htVars, cfVars, hdVars, focus>>

ConfigMoves ==
    /\ focus = "config" /\ CfNext
    /\ UNCHANGED <<hidVars, rpVars, htVars, gsVars, hdVars, focus>>

DetectMoves ==
    /\ focus = "detect" /\ HdNext
    /\ UNCHANGED <<hidVars, rpVars, htVars, gsVars, cfVars, focus>>

MCNext ==
    \/ DeviceMoves \/ ReportsMoves \/ TouchMoves \/ GesturesMoves
    \/ ConfigMoves \/ DetectMoves

mcVars == <<hidVars, rpVars, htVars, gsVars, cfVars, hdVars, focus>>
MCSpec == MCInit /\ [][MCNext]_mcVars
=============================================================================
