------------------------ MODULE MCExecutionPlanning ------------------------
(* The instance of ExecutionPlanning for TLC: three groups on up to three
   SMUs. Matrices, DMM and DAQ are picked so that every role can be shared or
   not, and one name can serve two roles. *)
EXTENDS ExecutionPlanning

Devices == {[relay_matrix |-> "M1", dmm |-> "D1", daq |-> "A1", ntc_daq |-> "none", sense |-> "none"],
            [relay_matrix |-> "M2", dmm |-> "D2", daq |-> "A2", ntc_daq |-> "none", sense |-> "R1"],
            [relay_matrix |-> "M3", dmm |-> "none", daq |-> "none", ntc_daq |-> "A1", sense |-> "R1"],
            [relay_matrix |-> "M3", dmm |-> "D3", daq |-> "A3", ntc_daq |-> "A2", sense |-> "M1"],
            [relay_matrix |-> "M4", dmm |-> "none", daq |-> "A4", ntc_daq |-> "none", sense |-> "R2"]}

SmallCatalogue ==
    {[enabled |-> TRUE, smu |-> s, relay_matrix |-> d.relay_matrix, dmm |-> d.dmm,
      daq |-> d.daq, ntc_daq |-> d.ntc_daq, sense |-> d.sense] :
        s \in {"S1", "S2", "S3"}, d \in Devices}
    \cup {[enabled |-> on, smu |-> IF on THEN "none" ELSE "S1", relay_matrix |-> "M1", dmm |-> "D1",
           daq |-> "A1", ntc_daq |-> "none", sense |-> "none"] : on \in BOOLEAN}
============================================================================
