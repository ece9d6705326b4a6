------------------------- MODULE PrometheusExporter -------------------------
(***************************************************************************)
(* prometheus.py's PrometheusExporter as the on_event of a circuit         *)
(* breaker. Of its metrics only the gauge circuit_open is kept: it is the  *)
(* only one that an event may take back. prometheus_client sets it at once *)
(* and does not raise.                                                     *)
(***************************************************************************)

VARIABLE circuitOpen  \* the gauge circuit_open

GaugeInit == circuitOpen = 0

\* on_event(event); "throttled" and "rotated" are counted and no more
OnEvent(event) ==
  circuitOpen' = CASE event = "tripped" -> 1
                   [] event = "reset" -> 0
                   [] OTHER -> circuitOpen
=============================================================================
