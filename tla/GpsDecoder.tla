----------------------------- MODULE GpsDecoder -----------------------------
(* GgaDecoder::parse of mine_detector/src/gps_decoder.cpp on one slice of  *)
(* the UART buffer, and what GpsNeo::get_data makes of it.  The decoder    *)
(* tries the first GPGGA, GPRMC and GPGLL sentence of the slice in turn,   *)
(* all of them writing to the same outPos.                                 *)
(*                                                                         *)
(* A sentence is the record of its fields, or Absent.  A coordinate is     *)
(* [raw, dir], raw being the DDDMM.MMM of NMEA as an integer DDDMMMMM; a   *)
(* dilution of precision is in tenths, and Empty stands for no field.      *)
(* latitude_int and longitude_int are uint32_t, kept as two halves of 16   *)
(* bits since TLC computes with 32.                                        *)
EXTENDS Integers

CONSTANTS
  GgaSentences, RmcSentences, GllSentences,  \* what a slice may hold
  Absent, Empty

VARIABLES
  slice,   \* the first sentence of each type
  stage,   \* the next type to try, or "done"
  outPos,
  parsed   \* what parse returns

decoderVars == <<slice, stage, outPos, parsed>>

DefaultHdop == 999
MaxHdop     == 20
MaxSats     == 35
HalfWord    == 65536   \* 2^16

\* The unsigned word that an int32_t becomes when it is stored in a uint32_t: x
\* modulo 2^32.
Uint32(x) == [high |-> (x \div HalfWord) % HalfWord, low |-> x % HalfWord]

\* The int32_t that an unsigned word becomes: in the call of
\* HttpClient::sendMineAlert, and in that of send_gps_position on the tracker.
Int32(word) ==
  (IF word.high < HalfWord \div 2 THEN word.high ELSE word.high - HalfWord) * HalfWord
    + word.low

\* GpsSystemFixData data{}
NoData == [gp_type |-> "UNKNOWN", fix_valid |-> FALSE, latitude_int |-> Uint32(0),
           longitude_int |-> Uint32(0), hdop |-> DefaultHdop, satellite_count |-> 0]

DecoderInit ==
  /\ slice \in [gga : GgaSentences \cup {Absent},
                rmc : RmcSentences \cup {Absent},
                gll : GllSentences \cup {Absent}]
  /\ stage = "gga"
  /\ outPos = NoData
  /\ parsed = FALSE

-----------------------------------------------------------------------------
(* Conversions *)

\* Mutant: the minutes are not divided by 60.
DegreesWithoutSixty(c) ==
  LET e7 == (c.raw \div 100000) * 10000000 + (c.raw % 100000) * 10000
  IN  IF c.dir \in {"S", "W"} THEN -e7 ELSE e7

\* to_int32_point(parse_coordinate(val, dir)): degrees and minutes to degrees
\* times 10^7, a ten-thousandth of a minute being 500/3 of them.
Degrees(c) ==
  LET e7 == (c.raw \div 100000) * 10000000 + ((c.raw % 100000) * 500) \div 3
  IN  IF c.dir \in {"S", "W"} THEN -e7 ELSE e7

\* A field that is empty leaves what outPos has.
Coordinate(c, default) == IF c = Empty THEN default ELSE Uint32(Degrees(c))

At(pos, s) == [pos EXCEPT !.latitude_int  = Coordinate(s.lat, @),
                          !.longitude_int = Coordinate(s.lon, @)]

\* static_cast<uint8_t>(atoi(...))
Sats(s) == s.sats % 256

Hdop(s) == IF s.hdop = Empty THEN DefaultHdop ELSE s.hdop

-----------------------------------------------------------------------------
(* parse *)

Reject(pos, next) ==
  /\ outPos' = pos
  /\ stage' = next
  /\ UNCHANGED <<slice, parsed>>

Accept(pos, s, type) ==
  /\ outPos' = [At(pos, s) EXCEPT !.gp_type = type, !.fix_valid = TRUE]
  /\ stage' = "done"
  /\ parsed' = TRUE
  /\ UNCHANGED slice

\* strstr found the header, the checksum is right, and the fields suffice.
Readable(s, n_critical_fields) ==
  s # Absent /\ s.checksum_ok /\ s.fields >= n_critical_fields

\* Mutants: fix_valid keeps what the quality gave it; the position is written
\* before the quality is known.
TurnDownStaysValid(pos, s) == [pos EXCEPT !.fix_valid = TRUE, !.hdop = Hdop(s)]
TurnDownAfterPosition(pos, s) == [At(pos, s) EXCEPT !.hdop = Hdop(s)]

\* The fix is valid, but imprecise or corrupted.
TurnDown(pos, s) == [pos EXCEPT !.fix_valid = FALSE, !.hdop = Hdop(s)]

\* parse_gga with validate_gga_data_quiality
ParseGga ==
  LET s == slice.gga
      readable == Readable(s, 10)
      measured == [outPos EXCEPT !.hdop = Hdop(s)]
  IN
  /\ stage = "gga"
  /\ \/ ~readable /\ Reject(outPos, "rmc")
     \/ readable /\ s.quality = 0 /\ Reject([outPos EXCEPT !.fix_valid = FALSE], "rmc")
     \/ readable /\ s.quality > 0 /\ (Hdop(s) > MaxHdop \/ Sats(s) > MaxSats)
          /\ Reject(TurnDown(outPos, s), "rmc")
     \/ readable /\ s.quality > 0 /\ Hdop(s) <= MaxHdop /\ Sats(s) <= MaxSats
          /\ Accept([measured EXCEPT !.satellite_count = Sats(s)], s, "GPGGA")

\* The part that parse_rmc and parse_gll share.
ParseStatus(s, readable, status, type, next) ==
  \/ ~readable /\ Reject(outPos, next)
  \/ readable /\ status # "A" /\ Reject([outPos EXCEPT !.fix_valid = FALSE], next)
  \/ readable /\ status = "A" /\ Accept(outPos, s, type)

ParseRmc ==
  LET s == slice.rmc IN
  /\ stage = "rmc"
  /\ ParseStatus(s, Readable(s, 7), s.status, "GPRMC", "gll")

\* Six fields suffice, and then tokens[6], the status, is not initialized.
ParseGll ==
  LET s == slice.gll IN
  /\ stage = "gll"
  /\ \E garbage \in {"A", "V"} :
       ParseStatus(s, Readable(s, 6), IF s.fields = 6 THEN garbage ELSE s.status,
                   "GPGLL", "done")

DecoderNext == ParseGga \/ ParseRmc \/ ParseGll

DecoderSpec == DecoderInit /\ [][DecoderNext]_decoderVars

\* GpsNeo::get_data returns outPos, otherwise nothing.
HasFix == stage = "done" /\ parsed /\ outPos.fix_valid

-----------------------------------------------------------------------------
(* Properties *)

\* Degrees times 10^7.
Globe(degrees) == -(degrees * 10000000) .. degrees * 10000000

Uint32s == [high : 0 .. HalfWord - 1, low : 0 .. HalfWord - 1]

\* The type of the output: what it holds of a southern latitude is an unsigned
\* number far off the globe, but what alert and telemetry make of it is on it.
DecoderTypeOK ==
  /\ stage \in {"gga", "rmc", "gll", "done"}
  /\ parsed \in BOOLEAN
  /\ outPos.gp_type \in {"UNKNOWN", "GPGGA", "GPRMC", "GPGLL"}
  /\ outPos.fix_valid \in BOOLEAN
  /\ outPos.latitude_int \in Uint32s /\ outPos.longitude_int \in Uint32s
  /\ Int32(outPos.latitude_int)  \in Globe(90)
  /\ Int32(outPos.longitude_int) \in Globe(180)
  /\ outPos.satellite_count \in 0 .. MaxSats

\* outPos is valid exactly if parse returns true, although three parsers write
\* to it: a sentence that is turned down leaves no validity behind.
ValidIffParsed == outPos.fix_valid <=> parsed

\* The sentence whose type the result has.
Source == CASE outPos.gp_type = "GPGGA" -> slice.gga
            [] outPos.gp_type = "GPRMC" -> slice.rmc
            [] outPos.gp_type = "GPGLL" -> slice.gll

\* Latitude and longitude are of one sentence, the one named as the source: no
\* position mixes what a turned down sentence said with the one that was taken.
PositionOfOneSentence ==
  HasFix => /\ outPos.latitude_int  = Coordinate(Source.lat, Uint32(0))
            /\ outPos.longitude_int = Coordinate(Source.lon, Uint32(0))
=============================================================================
