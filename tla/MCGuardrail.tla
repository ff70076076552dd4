---------------------------- MODULE MCGuardrail ----------------------------
(***************************************************************************)
(* The policy on both sides of every threshold: 59 and 60 for the overall  *)
(* gate and the traffic signal, scores 40/41/50 for 1 - score and the      *)
(* anomaly flag, 49/50 for Laya's answer, 69/70 for trust.                 *)
(***************************************************************************)
EXTENDS Lineage, TLC

MCUnits    == 1..3
MCUnitType == 1 :> "AMBULANCE" @@ 2 :> "AMBULANCE" @@ 3 :> "POLICE_UNIT"
MCUnitZone == 1 :> "NORTH" @@ 2 :> "EAST" @@ 3 :> "EAST"
MCEcoScore == 1 :> 20 @@ 2 :> 80 @@ 3 :> 50

Sev == [ok : {TRUE}, pred : Priorities, conf : {60}]
       \cup [ok : {TRUE}, pred : {CRITICAL}, conf : {59}]
       \cup [ok : {FALSE}, pred : {CRITICAL}, conf : {60}]
Traffic == [ok : {TRUE}, delta : {59, 60}, conf : {60}]
           \cup [ok : {TRUE}, delta : {60}, conf : {59}]
           \cup [ok : {FALSE}, delta : {60}, conf : {60}]
Anomaly == [failed : {FALSE}, score : {40, 41, 50}, situational : BOOLEAN]
           \cup [failed : {TRUE}, score : {100}, situational : {FALSE}]

MCAdvice == [ok : {TRUE}, priority : {MEDIUM, CRITICAL}, review : BOOLEAN,
             conf : {49, 50}, resource : {NoResource}]
            \cup [ok : {TRUE}, priority : {HIGH}, review : {FALSE}, conf : {50},
                  resource : {"POLICE_UNIT", "FLOOD_RESPONSE_UNIT"}]
            \cup [ok : {FALSE}, priority : {LOW}, review : {FALSE}, conf : {0},
                  resource : {NoResource}]

MCAssessments == [sev : Sev, traffic : Traffic, anomaly : Anomaly,
                  laya : MCAdvice, trust : {69, 70}]

MCContexts ==
    [hard : {FALSE}, type : {"ACCIDENT"}, zone : {"NORTH", "EAST"},
     a : MCAssessments, position : Positions]
    \cup [hard : {TRUE}, type : {"ACCIDENT"}, zone : {"NORTH"},
          a : {a \in MCAssessments : a.trust = 70}, position : {"EQUITY"}]
=============================================================================
