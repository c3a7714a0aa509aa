---------------------------- MODULE MCOvercurrent ----------------------------
(***************************************************************************)
(* Overcurrent on small instances.  A behaviour explores one kind of fault *)
(* at a time, chosen at the start, while everything else draws nothing and *)
(* reads well: the counters of the kinds have nothing in common but the    *)
(* holdoffs and the clock, and their product would be too large.           *)
(***************************************************************************)
EXTENDS Overcurrent

VARIABLE scenario
Scenarios == {"outputs", "regulator", "battery"}

(* All holdoffs start at the smallest value a command may store. *)
ShortestHoldoffs ==
  [name \in HoldoffNames |-> CHOOSE d \in HostHoldoffs : \A e \in HostHoldoffs : d <= e]

(* H0 alone, L1 alone, H0 with L0, or nothing over the limit, which is passed  *)
(* from the code 1364 on; of L0 and L1 one draws its limit when the other      *)
(* draws another current, so that a reading under the wrong output shows.      *)
HighAndPair ==
  { <<0, 1363, 0>>, <<1364, 0, 0>>, <<0, 0, 1364>>, <<1364, 1364, 1363>>, <<0, 0, 0>> }
MCLoads == { [o \in Sensed |-> v[o + 1]] : v \in HighAndPair }
GoodBattery == [success |-> TRUE, current |-> 0, voltage |-> 10200]
GoodReg     == [success |-> TRUE, current |-> 0]
NoLoad      == [o \in Sensed |-> 0]
NoLoads     == {NoLoad}

(* The faults of the scenario, the outputs and the holdoffs that belong to it. *)
Exposed == CASE scenario = "outputs"   -> [outs |-> Sensed,   holdoffs |-> {"ADC", "BATT"}]
             [] scenario = "regulator" -> [outs |-> {OUT_5V}, holdoffs |-> {"REG"}]
             [] scenario = "battery"   -> [outs |-> {},       holdoffs |-> {"BATT", "NEG", "UVLO"}]

Focus ==
  /\ scenario # "outputs"   => output_current' = NoLoad /\ samples'[0] = 0 /\ samples'[1] = 0
                               /\ samples'[2] = 0
  /\ scenario # "regulator" => reg_5v' \in {NoReg, GoodReg}
  /\ scenario # "battery"   => battery' \in {NoBattery, GoodBattery}
  /\ \A o \in output_t \ Exposed.outs :
       gpio'[o] = gpio[o] /\ output_inhibited'[o] = output_inhibited[o]
  /\ \A name \in HoldoffNames \ Exposed.holdoffs : holdoff'[name] = holdoff[name]

MCInit == Init /\ scenario \in Scenarios
MCNext == Next /\ Focus /\ UNCHANGED scenario
MCSpec == MCInit /\ [][MCNext]_<<vars, scenario>>
=============================================================================
