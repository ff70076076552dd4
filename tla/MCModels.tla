------------------------------ MODULE MCModels ------------------------------
(***************************************************************************)
(* The model pool for TLC: one ambulance, an accident, models and a Laya   *)
(* on both sides of the thresholds, live answers of every malformed kind.  *)
(***************************************************************************)
EXTENDS Models, TLC

MCUnits    == {1}
MCUnitType == 1 :> "AMBULANCE"
MCUnitZone == 1 :> "NORTH"
MCEcoScore == 1 :> 20

Clean == [type |-> "ACCIDENT", zone |-> "EAST", hard |-> FALSE,
          contradicted |-> FALSE, injected |-> FALSE]
MCCases == {Clean, [Clean EXCEPT !.contradicted = TRUE]}

MCRaw == [severity |-> {[ok |-> TRUE, pred |-> CRITICAL, conf |-> 60]},
          traffic |-> {[ok |-> TRUE, delta |-> 60, conf |-> 60]},
          anomaly |-> {[failed |-> FALSE, score |-> 0, situational |-> FALSE]}]

Good == [MockAnswers([type |-> "ACCIDENT", sev |-> HIGH, delta |-> 0,
                      quality |-> 0, ambulances |-> 1]) EXCEPT !.noul = 49]
MCLive == {Good, [Good EXCEPT !.priority.dist = "HIGH" :> 40 @@ "LOW" :> 20],
           [Good EXCEPT !.priority = [choice |-> "URGENT", dist |-> "HIGH" :> 100]],
           [Good EXCEPT !.noul = 101], [Good EXCEPT !.given = {"priority"}],
           [Good EXCEPT !.priority.choice = "LOW", !.resource.choice = NoChoice]}
=============================================================================
