------------------------------ MODULE HidConfig ------------------------------
(***************************************************************************)
(* The touchpad configuration of i2chid: its defaults, the registry it is  *)
(* loaded from, the feature reports that read and write it, and the output *)
(* reports.  Every value is a small number; CfRange gives each field the    *)
(* range the code clamps it to.  The key that SaveRegistryConfig opens is   *)
(* not the one that LoadRegistryConfig reads, and as committed its path is *)
(* never set, so a save changes nothing that is read again.                *)
(***************************************************************************)
EXTENDS Naturals

CONSTANTS
    CfValue,      \* values of a field, 0 among them
    CfRange,      \* per field [lo, hi]
    CfDefault     \* per field, what I2CHID_InitDefaultConfig sets

CfField == {"ScrollScale", "TapTimeMs", "SwipeScale"}
CfLegal(f) == CfRange[f].lo..CfRange[f].hi

ASSUME CfAssumption ==
    /\ CfValue \subseteq Nat /\ 0 \in CfValue
    /\ CfRange \in [CfField -> [lo : Nat, hi : Nat]] /\ CfDefault \in [CfField -> Nat]
    /\ \A f \in CfField : CfDefault[f] \in CfLegal(f) /\ 0 \notin CfLegal(f)

VARIABLES
    cfCfg,        \* ext->Cfg
    cfGest,       \* "moved" when the gesture sums hold something
    cfStatus,     \* status of the last request
    cfWild,       \* history: fields last written by something that does not clamp
    cfBefore      \* history: the configuration when Validate began, or none

cfVars == <<cfCfg, cfGest, cfStatus, cfWild, cfBefore>>
CfNone == [f \in {} |-> 0]

CfInit ==
    /\ cfCfg = CfDefault /\ cfGest = "rest" /\ cfStatus = "none"
    /\ cfWild = {} /\ cfBefore = CfNone

-----------------------------------------------------------------------------
(* I2CHID_LoadRegistryConfig takes every DWORD it finds as it is.           *)
CfLoad(found) ==
    /\ cfCfg' = [f \in CfField |-> IF f \in DOMAIN found THEN found[f] ELSE cfCfg[f]]
    /\ cfWild' = cfWild \cup DOMAIN found
    /\ cfBefore' = CfNone
    /\ UNCHANGED <<cfGest, cfStatus>>

(* I2CHID_ApplyFeatureReport: 0 keeps a field, anything else is clamped;    *)
(* the configuration has changed when the save fails.                       *)
CfClamp(f, v) ==
    IF v < CfRange[f].lo THEN CfRange[f].lo
    ELSE IF v > CfRange[f].hi THEN CfRange[f].hi ELSE v

CfApplied(report) ==
    [f \in CfField |-> IF report[f] = 0 THEN cfCfg[f] ELSE CfClamp(f, report[f])]

CfApply(report, saved) ==
    /\ cfCfg' = CfApplied(report)
    /\ cfWild' = {f \in cfWild : report[f] = 0}
    /\ cfStatus' = saved /\ cfBefore' = CfNone
    /\ UNCHANGED cfGest

CfApplyRefused ==    \* too short, or not the feature report's id
    /\ cfStatus' \in {"tooSmall", "invalidRequest"} /\ cfBefore' = CfNone
    /\ UNCHANGED <<cfCfg, cfGest, cfWild>>

(* SET_FEATURE with report 0x03 writes two of the fields unclamped, and     *)
(* ignores the status of the save.                                          *)
CfSetThree(scroll, tap) ==
    /\ cfCfg' = [cfCfg EXCEPT !["ScrollScale"] = scroll, !["TapTimeMs"] = tap]
    /\ cfWild' = cfWild \cup {"ScrollScale", "TapTimeMs"}
    /\ cfStatus' = "success" /\ cfBefore' = CfNone
    /\ UNCHANGED cfGest

(* I2CHID_FillFeatureReport, and I2CHID_ValidateFeatureReport that applies  *)
(* what it fills in: the same fields in the same places.                    *)
CfFillSwapped ==
    [cfCfg EXCEPT !["ScrollScale"] = cfCfg["SwipeScale"], !["SwipeScale"] = cfCfg["ScrollScale"]]
CfFill == cfCfg

CfValidate(saved) ==
    /\ cfCfg' = CfApplied(CfFill)
    /\ cfWild' = {f \in cfWild : cfCfg[f] = 0}
    /\ cfBefore' = cfCfg
    /\ cfStatus' = IF saved # "success" THEN saved
                   ELSE IF cfCfg' = cfCfg THEN "success" ELSE "dataError"
    /\ UNCHANGED cfGest

(* IOCTL_HID_WRITE_REPORT: 0x10 resets the gestures.  0x04 hands over the   *)
(* whole buffer, whose first byte is 0x04, to I2CHID_HandleVendorReport,    *)
(* which knows 0x10, 0x11 and 0x12 only: it always refuses.                 *)
CfWriteReset ==
    /\ cfGest' = "rest" /\ cfStatus' = "success" /\ cfBefore' = CfNone
    /\ UNCHANGED <<cfCfg, cfWild>>

CfWriteOther(rid) ==
    /\ cfStatus' = IF rid = "led" THEN "success" ELSE "invalidParameter"
    /\ cfBefore' = CfNone
    /\ UNCHANGED <<cfCfg, cfGest, cfWild>>

CfTouch ==
    /\ cfGest' = "moved" /\ UNCHANGED <<cfCfg, cfStatus, cfWild, cfBefore>>

CfSaved == {"success", "saveFailed"}

CfNext ==
    \/ \E fs \in SUBSET CfField : \E found \in [fs -> CfValue] : CfLoad(found)
    \/ \E report \in [CfField -> CfValue], saved \in CfSaved : CfApply(report, saved)
    \/ \E saved \in CfSaved : CfValidate(saved)
    \/ \E scroll, tap \in CfValue : CfSetThree(scroll, tap)
    \/ CfApplyRefused \/ CfWriteReset \/ CfTouch
    \/ \E rid \in {"led", "vendor", "unknown"} : CfWriteOther(rid)

CfSpec == CfInit /\ [][CfNext]_cfVars

-----------------------------------------------------------------------------
(* A field is out of its range only when the registry or report 0x03 wrote  *)
(* it last: no feature report, however odd, puts it there.                  *)
CfOnlyWildOutOfRange == \A f \in CfField \ cfWild : cfCfg[f] \in CfLegal(f)

(* Validation repairs: it brings every field into its range, but for a 0    *)
(* that it keeps, leaves the fields that were in range alone even when the  *)
(* save fails, and succeeds only when there was nothing to repair.          *)
CfValidationRepairs ==
    cfBefore # CfNone =>
        /\ \A f \in CfField : cfCfg[f] \in CfLegal(f) \cup {0}
        /\ \A f \in CfField : cfBefore[f] \in CfLegal(f) => cfCfg[f] = cfBefore[f]
        /\ cfStatus = "success" => cfCfg = cfBefore

(* The configuration leaves its ranges only by the registry or report      *)
(* 0x03, and validation puts it back without touching what was right.      *)
CfRangesHold == CfOnlyWildOutOfRange /\ CfValidationRepairs
=============================================================================
