----------------------------- MODULE MCReadings -----------------------------
(* The DHT21 are formatted to a width of five, the BME280 to one of two.  A   *)
(* reading has two decimals; nothing is shorter than 0.00 but NAN.            *)
EXTENDS SensorData

Widths(s) == IF s \in {1, 2} THEN {5, 6} ELSE {3, 4, 5, 6}
=============================================================================
