---------------------------- MODULE MCWarehouseLoad ----------------------------
(* A state, one of its counties and a tract, and a state house district, *)
(* whose geoid is, like a county's, the state's and three more digits.   *)
EXTENDS WarehouseLoad

Shape(level, geoid) == [level |-> level, geoid |-> geoid, year |-> 2020]
AllShapes == {Shape("state", "06"), Shape("county", "06001"),
              Shape("tract", "06001400100"), Shape("sldl", "06001")}
PrefixOf == [level \in {"state", "county"} |->
                [code \in Codes |-> IF level = "state" THEN "06" ELSE "06001"]]
Provisioned == {{"dates"} \cup Datasets}
=============================================================================
