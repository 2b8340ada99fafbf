------------------------------ MODULE MCScada ------------------------------
(* Scada with few sensors and one setting to change to.                    *)
EXTENDS Scada

OneSensor == <<"Tbuf">>
ThreeSensors == <<"Tbuf", "Tdef", "Tkub1">>

\* Against the 888 of the start: P_MAX a little more, so that Pshift leaves
\* something of it, and a least power of P_heat far below P_MAX, not above.
Still == [power |-> [p \in Power |-> IF p = "P_MAX" THEN 900 ELSE Start],
          boil |-> 9900, heat |-> 100]
OneSetting == {Still}

NegativeShift == {-5}
=============================================================================
