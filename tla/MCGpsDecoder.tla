---------------------------- MODULE MCGpsDecoder ----------------------------
(* An instance of GpsDecoder for TLC: for every test of the decoder fields *)
(* on both sides of it, and positions that tell the sentences apart.       *)
EXTENDS GpsDecoder

Lat(raw, dir) == [raw |-> raw, dir |-> dir]

MCGga == [checksum_ok : BOOLEAN, fields : {9, 10}, quality : {0, 1},
          hdop : {Empty, 20, 21}, sats : {35, 36, 264},
          lat : {Lat(4807038, "N"), Empty}, lon : {Lat(18000000, "W")}]
MCRmc == [checksum_ok : BOOLEAN, fields : {6, 7}, status : {"A", "V"},
          lat : {Lat(4807039, "S"), Empty}, lon : {Lat(1131000, "E")}]
MCGll == [checksum_ok : BOOLEAN, fields : {5, 6, 7}, status : {"A", "V"},
          lat : {Lat(8959999, "N")}, lon : {Lat(1131001, "W"), Empty}]
=============================================================================
