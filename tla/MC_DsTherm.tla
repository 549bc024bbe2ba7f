----------------------------- MODULE MC_DsTherm -----------------------------
(***************************************************************************)
(* DsTherm for TLC: a DS18B20, parasitic or not, or a DS18S20; 25.0625 and *)
(* -10.125 degrees.                                                        *)
(***************************************************************************)
EXTENDS DsTherm

MCTemps == {401, -162}
MCBuses == {{"b20"}, {"s20"}}
MCParasitics == {{}, {"b20"}}

\* as slow as the data sheet allows, or as fast as time is counted
MCSpeeds == {[s \in Therms |-> [res \in 0..3 |-> IF slow THEN Slowest(res) ELSE 1]]
             : slow \in BOOLEAN}
=============================================================================
