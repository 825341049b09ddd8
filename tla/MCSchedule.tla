------------------------------ MODULE MCSchedule ------------------------------
(* Two settings of the car, statuses with more or less in them, and options *)
(* with nothing, one thing or several things given.                         *)
EXTENDS Schedule

\* Off-peak charging only, a departure that is colder than can be set.
Winter == [f \in Fields |->
  CASE f = <<2, "temperature">> -> Cold
    [] f[2] = "when"            -> 2
    [] f = <<2, "climate">>     -> 0
    [] OTHER                    -> 1]

\* No scheduled charging, though the car remembers "only".
Summer == [f \in Fields |->
  CASE f \in {<<0, "charging">>, <<1, "enabled">>, <<1, "climate">>} -> 0
    [] f = <<0, "window">>      -> 2
    [] f = <<1, "when">>        -> 3
    [] OTHER                    -> 1]

TheSettings == {Winter, Summer}

\* Everything; no temperatures; no charge and only the second temperature; no
\* preference for off-peak hours.
TheReports == {Fields,
               Fields \ ({1, 2} \X {"temperature"}),
               ClimateFields \ {<<1, "temperature">>},
               Fields \ {<<0, "peakOnly">>}}

Only(n, v) == [Unset EXCEPT ![n] = v]
OneThing ==
  {[values |-> Only(n, v), departures |-> IF n[1] = 0 THEN {} ELSE {n[1]}] :
     <<n, v>> \in { <<<<0, "charging">>, 0>>, <<<<0, "peakOnly">>, 0>>,
                    <<<<0, "temperature">>, Default>>, <<<<1, "when">>, NoDays>>,
                    <<<<1, "when">>, 2 + HalfDay>> }}

\* A climate for both departures and another one for the second, and a charge.
Several == [values |-> [Unset EXCEPT ![<<0, "climate">>] = 1, ![<<2, "climate">>] = 0,
                                     ![<<0, "temperature">>] = Cold,
                                     ![<<0, "peakOnly">>] = 1],
            departures |-> {2}]

TheRequests == OneThing \cup {Several, [values |-> Unset, departures |-> {}]}
=============================================================================
