------------------------------ MODULE Devices ------------------------------
(***************************************************************************)
(* The parts of the layer that share no state with each other, in one      *)
(* specification.  Each behaviour is one of the part that `part` names;    *)
(* the others stay as they are at the start.                               *)
(***************************************************************************)
EXTENDS UartDrv, IoStreamUart, SpiSlave, Settings, SrcMatch,
        GreenPower, PowerManager, TxSecurity, Coex

VARIABLE part

Parts == {"uart", "iostream", "spi", "settings", "sourceMatch",
          "greenPower", "power", "security", "coex"}

\* The parts that begin in more than one state do so only in their own behaviours.
FixedUnlessUsed ==
    /\ part # "sourceMatch" => panId = CHOOSE pan \in PanIds : TRUE
    /\ part # "sourceMatch" => ~multiPanRcp
    /\ part # "power" => ~fastSwitching
    /\ part # "power" => radioChannel = CHOOSE c \in Channels : TRUE

DevicesInit ==
    /\ part \in Parts
    /\ Init /\ IoInit /\ SpiInit /\ SettingsInit /\ SrcMatchInit
    /\ GpInit /\ PowerInit /\ SecurityInit /\ CoexInit
    /\ FixedUnlessUsed

DevicesNext ==
    \/ /\ part = "uart" /\ Next
       /\ UNCHANGED <<part, ioVars, spiVars, settingsVars, matchVars, gpVars,
                      powerVars, securityVars, coexVars>>
    \/ /\ part = "iostream" /\ IoNext
       /\ UNCHANGED <<part, vars, spiVars, settingsVars, matchVars, gpVars,
                      powerVars, securityVars, coexVars>>
    \/ /\ part = "spi" /\ SpiNext
       /\ UNCHANGED <<part, vars, ioVars, settingsVars, matchVars, gpVars,
                      powerVars, securityVars, coexVars>>
    \/ /\ part = "settings" /\ SettingsNext
       /\ UNCHANGED <<part, vars, ioVars, spiVars, matchVars, gpVars,
                      powerVars, securityVars, coexVars>>
    \/ /\ part = "sourceMatch" /\ SrcMatchNext
       /\ UNCHANGED <<part, vars, ioVars, spiVars, settingsVars, gpVars,
                      powerVars, securityVars, coexVars>>
    \/ /\ part = "greenPower" /\ GpNext
       /\ UNCHANGED <<part, vars, ioVars, spiVars, settingsVars, matchVars,
                      powerVars, securityVars, coexVars>>
    \/ /\ part = "power" /\ PowerNext
       /\ UNCHANGED <<part, vars, ioVars, spiVars, settingsVars, matchVars,
                      gpVars, securityVars, coexVars>>
    \/ /\ part = "security" /\ SecurityNext
       /\ UNCHANGED <<part, vars, ioVars, spiVars, settingsVars, matchVars,
                      gpVars, powerVars, coexVars>>
    \/ /\ part = "coex" /\ CoexNext
       /\ UNCHANGED <<part, vars, ioVars, spiVars, settingsVars, matchVars,
                      gpVars, powerVars, securityVars>>

devicesVars == <<part, vars, ioVars, spiVars, settingsVars, matchVars,
                 gpVars, powerVars, securityVars, coexVars>>

\* No fair action of a part is enabled where the part starts.
DevicesFairness == Fairness /\ IoFairness /\ SpiFairness /\ GpFairness

DevicesSpec == DevicesInit /\ [][DevicesNext]_devicesVars /\ DevicesFairness

-----------------------------------------------------------------------------
\* The type invariants of the parts.
DevicesTypeOK ==
    /\ part \in Parts
    /\ TypeOK /\ IoTypeOK /\ SpiTypeOK /\ SettingsTypeOK /\ SrcMatchTypeOK
    /\ GpTypeOK /\ PowerTypeOK /\ SecurityTypeOK /\ CoexTypeOK
=============================================================================
