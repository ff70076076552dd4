------------------------------ MODULE MCEngine ------------------------------
(***************************************************************************)
(* A fleet of three, incidents that compete for it, and four things that   *)
(* can be found out about one.  The configurations choose the requests.    *)
(***************************************************************************)
EXTENDS EngineProperties, TLC

\* An ambulance in each zone and one police unit: an accident or a fire can be
\* served twice or three times, then contention.
MCUnits    == 1..3
MCUnitType == 1 :> "AMBULANCE" @@ 2 :> "AMBULANCE" @@ 3 :> "POLICE_UNIT"
MCUnitZone == 1 :> "NORTH" @@ 2 :> "EAST" @@ 3 :> "EAST"
MCEcoScore == 1 :> 20 @@ 2 :> 80 @@ 3 :> 50

Accident == [type |-> "ACCIDENT", zone |-> "EAST"]
Fire     == [type |-> "FIRE", zone |-> "NORTH"]
MCAccident == {Accident}
MCFire     == {Fire}

Clear(pred) ==
    [sev     |-> [ok |-> TRUE, pred |-> pred, conf |-> 80],
     traffic |-> [ok |-> TRUE, delta |-> 70, conf |-> 80],
     anomaly |-> [failed |-> FALSE, score |-> 10, situational |-> FALSE],
     laya    |-> [ok |-> TRUE, priority |-> HIGH, review |-> FALSE, conf |-> 80,
                  resource |-> NoResource],
     trust   |-> 90]

Dispatch == Clear(HIGH)                                 \* AUTO_APPROVED, a unit
Minor    == Clear(LOW)                                  \* LOW, no unit
Doubt    == [Clear(CRITICAL) EXCEPT !.anomaly.score = 50] \* HOLD_FOR_HUMAN
Grave    == Clear(CRITICAL)                             \* AUTO_APPROVED, CRITICAL

MCAny         == {Dispatch, Doubt, Minor, Grave}
MCTwo         == {Dispatch, Doubt}
MCOne         == {Dispatch}

ClientSymmetry == Permutations(Clients)

\* Two reports of incident 1, numbered like the generator numbers its own.
MCRecordings == {<<[ev |-> 1, inc |-> 1, kind |-> Accident],
                   [ev |-> 2, inc |-> 1, kind |-> Accident]>>}
NoRecordings == {}
=============================================================================
